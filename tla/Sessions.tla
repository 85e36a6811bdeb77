------------------------------ MODULE Sessions ------------------------------
(***************************************************************************)
(* Logging in and staying logged in: AuthService and changePassword() on   *)
(* the rows of accounts, the token and the user that a browser keeps       *)
(* (AuthContext), its socket, and the links that confirm an address.       *)
(*                                                                         *)
(* A token carries the account and its authVersion; the strategy compares  *)
(* it with the row on every request, the gateway only when a socket        *)
(* connects.  The password is checked on a row read earlier than the write *)
(* that follows, and the browser's calls are answered in any order.        *)
(***************************************************************************)
EXTENDS Naturals

CONSTANTS
  Person,       \* accounts
  Link,         \* verification links, each issued at most once
  Call,         \* calls of the browser in flight
  MaxPassword,  \* bound: changes of a password
  Nothing       \* no token, no user, no socket

ASSUME SessionsAssumption == MaxPassword \in Nat

VARIABLES
  row,      \* the accounts: number of the password, authVersion, flags
  link,     \* the outstanding tokens of each account
  browser,  \* the stored token, the user on the screen, the open socket
  call,     \* the calls in flight
  opened,   \* history: the sessions each link has opened
  overtaken \* history: a refresh was answered after the stored token had changed

sessionsVars == <<row, link, browser, call, opened, overtaken>>

Row == [pw : 0..MaxPassword, ver : 0..MaxPassword, must : BOOLEAN, verified : BOOLEAN]

\* proved: the password that was current when the account was read for this token.
Token == [of : Person, ver : 0..MaxPassword, proved : 0..MaxPassword]
View == [of : Person, must : BOOLEAN]

ASSUME NothingAssumption == Nothing \notin Token \cup View

\* stored: the token it was sent with is still the stored one (no two logins sign alike).
NoCall == [op |-> "none"]
Calls ==
       {NoCall}
  \cup [op : {"login"}, of : Person, typed : 0..MaxPassword]
  \cup [op : {"boot", "refresh", "change"}, with : Token, stored : BOOLEAN]
  \cup [op : {"verify"}, of : Person, link : Link]
  \cup [op : {"changing"}, of : Person, awaited : BOOLEAN]      \* half done by the server
  \cup [op : {"verifying"}, of : Person, link : Link, awaited : BOOLEAN]
  \cup [op : {"resend", "resending"}, of : Person]
  \cup [op : {"entered"}, token : Token, view : View]                     \* answers
  \cup [op : {"booted", "refreshed"}, with : Token, stored : BOOLEAN, view : View \cup {Nothing}]

SessionsTypeOK ==
  /\ row \in [Person -> Row]
  /\ link \in [Person -> SUBSET Link]
  /\ browser \in [token : Token \cup {Nothing}, shown : View \cup {Nothing},
                  socket : Token \cup {Nothing}]
  /\ call \in [Call -> Calls]
  /\ opened \in [Link -> Nat]
  /\ overtaken \in BOOLEAN

\* Accounts made in bulk are verified and must change their password; others sign up.
SessionsInit ==
  /\ row \in [Person -> {[pw |-> 0, ver |-> 0, must |-> b, verified |-> b] : b \in BOOLEAN}]
  /\ link = [p \in Person |-> {}]
  /\ browser = [token |-> Nothing, shown |-> Nothing, socket |-> Nothing]
  /\ call = [c \in Call |-> NoCall]
  /\ opened = [l \in Link |-> 0]
  /\ overtaken = FALSE

-----------------------------------------------------------------------------
(* The server.                                                             *)

\* JwtStrategy.validate()
Accepted(t) == row[t.of].verified /\ t.ver = row[t.of].ver

ViewOf(p) == [of |-> p, must |-> row[p].must]
Signed(p) == [of |-> p, ver |-> row[p].ver, proved |-> row[p].pw]

Sent(op) == [op |-> op, with |-> browser.token, stored |-> TRUE]
Become(c, state) == call' = [call EXCEPT ![c] = state]

\* login(): the row is read once; the comparison and the token follow from that reading.
Login(c) ==
  LET p == call[c].of IN
  /\ call[c].op = "login"
  /\ Become(c, IF call[c].typed = row[p].pw /\ row[p].verified
               THEN [op |-> "entered", token |-> Signed(p), view |-> ViewOf(p)]
               ELSE NoCall)
  /\ UNCHANGED <<row, link, browser, opened, overtaken>>

\* changePassword(), first half: the strategy, and the comparison with the row.
CheckPassword(c) ==
  /\ call[c].op = "change"
  /\ Become(c, IF Accepted(call[c].with)
               THEN [op |-> "changing", of |-> call[c].with.of, awaited |-> TRUE] ELSE NoCall)
  /\ UNCHANGED <<row, link, browser, opened, overtaken>>

NewPassword_SameVersion(r) == [r EXCEPT !.pw = @ + 1, !.must = FALSE]

NewPassword_TwoVersions(r) == [r EXCEPT !.pw = @ + 1, !.ver = @ + 2, !.must = FALSE]

NewPassword(r) == [r EXCEPT !.pw = @ + 1, !.ver = @ + 1, !.must = FALSE]

\* Second half: one update, whatever has happened to the row since.  ChangePasswordPage then
\* calls refreshUser() with the token that is stored, if any; SettingsPage does not.
ChangePassword(c) ==
  LET p == call[c].of IN
  /\ call[c].op = "changing"
  /\ row[p].pw < MaxPassword
  /\ row' = [row EXCEPT ![p] = NewPassword(@)]
  /\ \/ Become(c, NoCall)
     \/ call[c].awaited /\ browser.token # Nothing /\ Become(c, Sent("refresh"))
  /\ UNCHANGED <<link, browser, opened, overtaken>>

\* GET /users/me
Me(c) ==
  /\ call[c].op \in {"boot", "refresh"}
  /\ LET t == call[c].with IN
     Become(c, [op |-> IF call[c].op = "boot" THEN "booted" ELSE "refreshed",
                with |-> t, stored |-> call[c].stored,
                view |-> IF Accepted(t) THEN ViewOf(t.of) ELSE Nothing])
  /\ UNCHANGED <<row, link, browser, opened, overtaken>>

\* signup() and resendVerification(): the old tokens go, a new one comes, not in one step.
DropLinks(c) ==
  LET p == call[c].of IN
  /\ call[c].op = "resend"
  /\ link' = IF row[p].verified THEN link ELSE [link EXCEPT ![p] = {}]
  /\ Become(c, IF row[p].verified THEN NoCall ELSE [call[c] EXCEPT !.op = "resending"])
  /\ UNCHANGED <<row, browser, opened, overtaken>>

Issued == (UNION {link[p] : p \in Person})
            \cup {l \in Link : opened[l] > 0 \/ \E c \in Call : "link" \in DOMAIN call[c] /\ call[c].link = l}

SendLink(c) ==
  /\ call[c].op = "resending"
  /\ \E l \in Link \ Issued : link' = [link EXCEPT ![call[c].of] = @ \cup {l}]
  /\ Become(c, NoCall)
  /\ UNCHANGED <<row, browser, opened, overtaken>>

\* verifyEmail(): the token is found by its hash ...
FindLink(c) ==
  /\ call[c].op = "verify"
  /\ Become(c, IF call[c].link \in link[call[c].of]
               THEN [op |-> "verifying", of |-> call[c].of, link |-> call[c].link, awaited |-> TRUE]
               ELSE NoCall)
  /\ UNCHANGED <<row, link, browser, opened, overtaken>>

Consumes_Unchecked(c) == TRUE

\* ... and a transaction deletes it, and goes on only if it was there to delete.
Consumes(c) == call[c].link \in link[call[c].of]

ConfirmAddress(c) ==
  LET p == call[c].of IN
  /\ call[c].op = "verifying"
  /\ IF Consumes(c)
     THEN /\ row' = [row EXCEPT ![p].verified = TRUE]
          /\ link' = [link EXCEPT ![p] = {}]
          /\ opened' = [opened EXCEPT ![call[c].link] = @ + 1]
          /\ Become(c, IF call[c].awaited
                       THEN [op |-> "entered", token |-> Signed(p), view |-> ViewOf(p)]
                       ELSE NoCall)
     ELSE Become(c, NoCall) /\ UNCHANGED <<row, link, opened>>
  /\ UNCHANGED <<browser, overtaken>>

Expire(l) ==
  /\ \E p \in Person : l \in link[p] /\ link' = [link EXCEPT ![p] = @ \ {l}]
  /\ UNCHANGED <<row, browser, call, opened, overtaken>>

-----------------------------------------------------------------------------
(* The browser.                                                            *)

Send(c) ==
  /\ call[c] = NoCall
  /\ \/ \E p \in Person : Become(c, [op |-> "login", of |-> p, typed |-> row[p].pw])
     \/ \E p \in Person : ~row[p].verified /\ Become(c, [op |-> "resend", of |-> p])
     \/ \E p \in Person, l \in Link :
          l \in link[p] /\ Become(c, [op |-> "verify", of |-> p, link |-> l])
     \/ /\ browser.token # Nothing /\ browser.shown # Nothing
        /\ \E op \in {"change", "refresh"} : Become(c, Sent(op))
  /\ UNCHANGED <<row, link, browser, opened, overtaken>>

Replaced(d) == IF "stored" \in DOMAIN d THEN [d EXCEPT !.stored = FALSE] ELSE d

\* login(), verifyEmail(): the new token and its user replace the old, the socket closes.
Enter(c) ==
  /\ call[c].op = "entered"
  /\ browser' = [token |-> call[c].token, shown |-> call[c].view, socket |-> Nothing]
  /\ call' = [d \in Call |-> IF d = c THEN NoCall ELSE Replaced(call[d])]
  /\ UNCHANGED <<row, link, opened, overtaken>>

Logout ==
  /\ browser.token # Nothing
  /\ browser' = [token |-> Nothing, shown |-> Nothing, socket |-> Nothing]
  /\ call' = [d \in Call |-> Replaced(call[d])]
  /\ UNCHANGED <<row, link, opened, overtaken>>

\* What the server has begun it finishes; nobody waits for the answer.
Abandoned(d) ==
  CASE d.op \in {"changing", "verifying"} -> [d EXCEPT !.awaited = FALSE]
    [] d.op = "resending" -> d
    [] OTHER -> NoCall

\* The page is loaded anew: whatever was in flight is forgotten, the token is asked for.
Reload(c) ==
  /\ call[c].op \notin {"changing", "verifying", "resending"}
  /\ browser' = [browser EXCEPT !.shown = Nothing, !.socket = Nothing]
  /\ call' = [d \in Call |-> IF d = c /\ browser.token # Nothing
                             THEN Sent("boot") ELSE Abandoned(call[d])]
  /\ overtaken' = FALSE
  /\ UNCHANGED <<row, link, opened>>

StillStored_Any(c) == TRUE

\* The answer to the first request counts only while the token it was sent with is stored.
StillStored(c) == call[c].stored

Boot(c) ==
  /\ call[c].op = "booted"
  /\ browser' = IF ~StillStored(c) THEN browser
                ELSE IF call[c].view = Nothing THEN [browser EXCEPT !.token = Nothing]
                ELSE [browser EXCEPT !.shown = call[c].view]
  /\ Become(c, NoCall)
  /\ UNCHANGED <<row, link, opened, overtaken>>

\* refreshUser() has no such test.
Refresh(c) ==
  /\ call[c].op = "refreshed"
  /\ browser' = IF call[c].view = Nothing THEN browser ELSE [browser EXCEPT !.shown = call[c].view]
  /\ overtaken' = (overtaken \/ (call[c].view # Nothing /\ ~call[c].stored))
  /\ Become(c, NoCall)
  /\ UNCHANGED <<row, link, opened>>

\* authenticate() at the handshake; nothing looks at the account again afterwards.
Connect ==
  /\ browser.socket = Nothing /\ browser.token # Nothing
  /\ Accepted(browser.token) /\ ~row[browser.token.of].must
  /\ browser' = [browser EXCEPT !.socket = browser.token]
  /\ UNCHANGED <<row, link, call, opened, overtaken>>

SessionsNext ==
  \/ \E c \in Call : \/ Send(c) \/ Login(c) \/ CheckPassword(c) \/ ChangePassword(c) \/ Me(c)
                     \/ DropLinks(c) \/ SendLink(c) \/ FindLink(c) \/ ConfirmAddress(c)
                     \/ Enter(c) \/ Reload(c) \/ Boot(c) \/ Refresh(c)
  \/ \E l \in Link : Expire(l)
  \/ Logout
  \/ Connect

SessionsSpec == SessionsInit /\ [][SessionsNext]_sessionsVars

-----------------------------------------------------------------------------
(* Properties.                                                             *)

\* A token the server accepts was signed from a reading of the account in which its
\* present password was already set: a login that overlaps a change of the password
\* comes out with a token nobody accepts.
OldLoginsDie ==
  /\ browser.token # Nothing /\ Accepted(browser.token)
       => browser.token.proved = row[browser.token.of].pw
  /\ \A c \in Call : call[c].op = "entered" /\ Accepted(call[c].token)
       => call[c].token.proved = row[call[c].token.of].pw

\* The user on the screen is the owner of the stored token, except after a refreshUser()
\* that was answered when another token, or none, had been stored.
ShownOwnsToken ==
  browser.shown # Nothing /\ ~overtaken =>
    browser.token # Nothing /\ browser.token.of = browser.shown.of

\* A verification link opens at most one session, however often it is clicked at once.
LinkOpensOnce == \A l \in Link : opened[l] <= 1

\* While the screen demands a new password that the server no longer demands, the stored
\* token is dead: the tab stays on that page until it is reloaded, even where the tab
\* itself has just changed the password.
StuckGateHasDeadToken ==
  browser.shown # Nothing /\ ~overtaken /\ browser.shown.must /\ ~row[browser.shown.of].must
    => ~Accepted(browser.token)

\* changePassword(): JWTs and WebSocket sessions from before the change are invalid.
OldSocketsDie == browser.socket # Nothing => Accepted(browser.socket)
=============================================================================

---------------------------- MODULE PeopleProofs ----------------------------
(***************************************************************************)
(* Theorems about Accounts, for any accounts, roles and number of requests *)
(* that overlap, and about Sessions, for any accounts, links, calls in     *)
(* flight and number of changes of a password.                             *)
(***************************************************************************)
EXTENDS MCPeople, FiniteSetTheorems, TLAPS

LEMMA IdleIsNoTask == Idle.pc = "idle" /\ Idle \notin Task
  BY DEF Idle, Task

LEMMA AccountsTypeInit == AccountsInit => AccountsTypeOK
  BY DEF AccountsInit, AccountsTypeOK

\* What is written is a row, and stays a root or not a root.
LEMMA WrittenIsAccount ==
  ASSUME NEW t \in Task, NEW a \in Account
  PROVE  /\ Written(t, a) \in Account
         /\ Written(t, a).root = a.root
  BY RoleAssumption DEF Written, Account, Task

LEMMA AccountsTypeStep == AccountsTypeOK /\ [AccountsNext]_accountsVars => AccountsTypeOK'
<1> SUFFICES ASSUME AccountsTypeOK, [AccountsNext]_accountsVars PROVE AccountsTypeOK'
  OBVIOUS
<1> USE DEF AccountsTypeOK
<1>1. ASSUME NEW r \in Request, Arrive(r) PROVE AccountsTypeOK'
  BY <1>1 DEF Arrive, Task
<1>2. ASSUME NEW r \in Request, Read(r) PROVE AccountsTypeOK'
  <2>1. request[r] \in Task
    BY <1>2 DEF Read, Idle
  <2> QED
    BY <1>2, <2>1 DEF Read, Task
<1>3. ASSUME NEW r \in Request, Count(r) PROVE AccountsTypeOK'
  <2>1. request[r] \in Task
    BY <1>3 DEF Count, Idle
  <2> QED
    BY <1>3, <2>1 DEF Count, Task
<1>4. ASSUME NEW r \in Request, Write(r) PROVE AccountsTypeOK'
  <2>1. request[r] \in Task /\ request[r].target \in User
    BY <1>4 DEF Write, Idle, Task
  <2>2. account' \in [User -> Account]
    BY <1>4, <2>1, WrittenIsAccount DEF Write
  <2>3. ASSUME NEW q \in Request PROVE request'[q] \in Task \cup {Idle}
    <3>1. CASE request[q] \in Task
      BY <1>4, <3>1 DEF Write, Task
    <3>2. CASE request[q] = Idle
      BY <1>4, <3>2 DEF Write, Outdates
    <3> QED
      BY <3>1, <3>2
  <2>4. request' \in [Request -> Task \cup {Idle}]
    BY <1>4, <2>3 DEF Write
  <2> QED
    BY <1>4, <2>1, <2>2, <2>4 DEF Write
<1>5. ASSUME NEW r \in Request, Fails(r) PROVE AccountsTypeOK'
  BY <1>5 DEF Fails
<1> QED
  BY <1>1, <1>2, <1>3, <1>4, <1>5 DEF AccountsNext, accountsVars

\* Every row, request and record of an outdated reading has its type.
THEOREM AccountsTyped == AccountsSpec => []AccountsTypeOK
  BY AccountsTypeInit, AccountsTypeStep, PTL DEF AccountsSpec

-----------------------------------------------------------------------------
(* What a request that is past its reading still knows.                    *)

Pending(t) == t.pc \in {"count", "write"}

\* Another administrator than u.
Another(u) == \E v \in Admins : v # u

\* The root's row is only ever read into a request that lifts a suspension.  A reading
\* that nobody has outdated is still true of the row, and of the count.
Knows(t) ==
  /\ account[t.target].root => t.op = "unban"
  /\ t.counted => t.op = "role"
  /\ ~t.stale =>
       /\ t.op \in {"ban", "delete"} => account[t.target].role # "ADMIN"
       /\ t.op = "role" /\ t.to # "USER" => ~account[t.target].banned
       /\ t.op = "role" /\ ~t.counted => account[t.target].role # "ADMIN"
       /\ t.counted /\ t.pc = "write" => Another(t.target)

ReadingsHold == \A r \in Request : Pending(request[r]) => Knows(request[r])

AccountsInv == RootStays /\ SuspendedOrAdmin /\ AdminRemains /\ ReadingsHold

LEMMA AccountsInvInit == AccountsInit => AccountsInv
  BY DEF AccountsInit, AccountsInv, RootStays, SuspendedOrAdmin, AdminRemains, ReadingsHold,
         Pending, Idle, Admins, Account

LEMMA SpareMeansAnother == ASSUME Spare, NEW u PROVE Another(u)
<1>1. IsFiniteSet(Admins)
  BY FS_Subset, UserAssumption DEF Admins
<1>2. CASE Admins \subseteq {u}
  <2>1. Cardinality(Admins) <= Cardinality({u})
    BY FS_Subset, FS_Singleton, <1>2
  <2>2. Cardinality({u}) = 1 /\ Cardinality(Admins) \in Nat
    BY <1>1, FS_Singleton, FS_CardinalityType
  <2> QED
    BY <2>1, <2>2 DEF Spare
<1> QED
  BY <1>2 DEF Another

-----------------------------------------------------------------------------
(* One lemma per step.                                                     *)

LEMMA ArriveKeeps ==
  ASSUME AccountsTypeOK, AccountsInv, NEW r \in Request, Arrive(r) PROVE AccountsInv'
<1>1. account' = account /\ outdated' = outdated /\ ~Pending(request[r])'
      /\ \A q \in Request \ {r} : request'[q] = request[q]
  BY DEF Arrive, AccountsTypeOK, Pending
<1> QED
  BY <1>1 DEF AccountsInv, RootStays, SuspendedOrAdmin, AdminRemains, ReadingsHold, Knows, Another,
              Admins

LEMMA ReadKeeps ==
  ASSUME AccountsTypeOK, AccountsInv, NEW r \in Request, Read(r) PROVE AccountsInv'
<1>1. account' = account /\ outdated' = outdated
      /\ \A q \in Request \ {r} : request'[q] = request[q]
  BY DEF Read, AccountsTypeOK
<1>2. request[r] \in Task
  BY DEF AccountsTypeOK, Read, Idle
<1>3. Pending(request[r])' => Knows(request[r])'
  BY <1>2 DEF AccountsTypeOK, Read, Admits, Knows, Pending, Task, Idle, Account, AccountsInv, RootStays
<1> QED
  BY <1>1, <1>3 DEF AccountsInv, RootStays, SuspendedOrAdmin, AdminRemains, ReadingsHold, Knows,
              Another, Admins

LEMMA CountKeeps ==
  ASSUME AccountsTypeOK, AccountsInv, NEW r \in Request, Count(r) PROVE AccountsInv'
<1>1. account' = account /\ outdated' = outdated
      /\ \A q \in Request \ {r} : request'[q] = request[q]
  BY DEF Count, AccountsTypeOK
<1>2. request[r] \in Task
  BY DEF AccountsTypeOK, Count, Idle
<1>3. Pending(request[r])' => Knows(request[r])'
  <2> SUFFICES ASSUME Pending(request[r])' PROVE Knows(request[r])'
    OBVIOUS
  <2>1. Spare /\ request'[r] = [request[r] EXCEPT !.pc = "write"]
    BY DEF AccountsTypeOK, Count, Pending, Idle
  <2>2. Knows(request[r])
    BY DEF Count, Pending, AccountsInv, ReadingsHold
  <2>3. \E v \in Admins' : v # request[r].target
    BY <1>1, <2>1, SpareMeansAnother DEF Another, Admins
  <2> QED
    BY <1>1, <1>2, <2>1, <2>2, <2>3 DEF Knows, Another, Task
<1> QED
  BY <1>1, <1>3 DEF AccountsInv, RootStays, SuspendedOrAdmin, AdminRemains, ReadingsHold, Knows,
              Another, Admins

LEMMA FailsKeeps ==
  ASSUME AccountsTypeOK, AccountsInv, NEW r \in Request, Fails(r) PROVE AccountsInv'
<1>1. account' = account /\ outdated' = outdated /\ ~Pending(request[r])'
      /\ \A q \in Request \ {r} : request'[q] = request[q]
  BY DEF Fails, AccountsTypeOK, Pending, Idle
<1> QED
  BY <1>1 DEF AccountsInv, RootStays, SuspendedOrAdmin, AdminRemains, ReadingsHold, Knows, Another,
              Admins

\* The administrators after a write: only a demotion and a deletion take one away.
LEMMA WrittenAdmins ==
  ASSUME AccountsTypeOK, NEW r \in Request, Write(r), NEW u \in Admins,
         u \notin Admins'
  PROVE  /\ u = request[r].target
         /\ request[r].op = "delete" \/ request[r].op = "role"
<1>1. request[r] \in Task /\ request[r].target \in User
  BY DEF AccountsTypeOK, Write, Idle, Task
<1>2. CASE u # request[r].target
  BY <1>1, <1>2 DEF AccountsTypeOK, Write, Admins
<1>3. CASE u = request[r].target
  BY <1>1, <1>3 DEF AccountsTypeOK, Write, Admins, Written, Task, Account
<1> QED
  BY <1>2, <1>3

LEMMA WriteKeeps ==
  ASSUME AccountsTypeOK, AccountsInv, NEW r \in Request, Write(r) PROVE AccountsInv'
<1> DEFINE t == request[r]
<1>1. t \in Task /\ t.target \in User /\ account[t.target] \in Account
  BY DEF AccountsTypeOK, Write, Idle, Task
<1>2. Knows(t) /\ t.pc = "write"
  BY DEF Write, AccountsInv, ReadingsHold, Pending
<1>3. /\ account' = [account EXCEPT ![t.target] = Written(t, account[t.target])]
      /\ account[t.target].exists
      /\ outdated' = IF t.stale THEN outdated \cup {t.target} ELSE outdated
      /\ request'[r] = Idle
  BY DEF Write, AccountsTypeOK
<1>4. RootStays'
  <2> SUFFICES ASSUME NEW u \in User, account'[u].root
               PROVE  account'[u].exists /\ account'[u].role = "ADMIN" /\ ~account'[u].banned
    BY DEF RootStays
  <2>1. CASE u # t.target
    BY <1>1, <1>3, <2>1 DEF AccountsTypeOK, AccountsInv, RootStays
  <2>2. CASE u = t.target
    <3>1. account[u].root /\ t.op = "unban"
      BY <1>1, <1>2, <1>3, <2>2, WrittenIsAccount DEF AccountsTypeOK, Knows
    <3> QED
      BY <1>1, <1>3, <2>2, <3>1 DEF AccountsTypeOK, AccountsInv, RootStays, Written, Account
  <2> QED
    BY <2>1, <2>2
<1>5. SuspendedOrAdmin'
  <2> SUFFICES ASSUME NEW u \in User \ outdated', account'[u].role = "ADMIN", account'[u].banned
               PROVE  FALSE
    BY DEF SuspendedOrAdmin
  <2>1. u \notin outdated
    BY <1>3
  <2>2. CASE u # t.target
    BY <1>1, <1>3, <2>1, <2>2 DEF AccountsTypeOK, AccountsInv, SuspendedOrAdmin
  <2>3. CASE u = t.target
    <3>1. ~t.stale
      BY <1>3, <2>3
    <3> QED
      BY <1>1, <1>2, <1>3, <2>1, <2>3, <3>1
      DEF AccountsTypeOK, AccountsInv, SuspendedOrAdmin, Knows, Written, Account, Task
  <2> QED
    BY <2>2, <2>3
<1>6. ASSUME NEW q \in Request, Pending(request[q])' PROVE Knows(request[q])'
  <2>1. q # r /\ request[q] \in Task /\ Pending(request[q]) /\ Knows(request[q])
    <3>1. q # r
      BY <1>3, <1>6 DEF Pending, Idle
    <3>2. CASE request[q] = Idle
      BY <1>6, <3>1, <3>2 DEF Write, Outdates, Pending, Idle
    <3>3. CASE request[q] \in Task
      BY <1>6, <3>1, <3>3 DEF Write, Pending, Task, AccountsInv, ReadingsHold
    <3> QED
      BY <3>2, <3>3 DEF AccountsTypeOK
  <2> DEFINE o == request[q]
  <2>2. /\ o.target \in User
        /\ request'[q] = IF Outdates(t, o) THEN [o EXCEPT !.stale = TRUE] ELSE o
    BY <2>1 DEF Write, Task
  <2>3. \A u \in User : account'[u].root = account[u].root
    BY <1>1, <1>3, WrittenIsAccount DEF AccountsTypeOK
  <2>4. CASE Outdates(t, o)
    <3>1. /\ request'[q].target = o.target /\ request'[q].op = o.op /\ request'[q].stale
          /\ request'[q].counted = o.counted
      BY <2>1, <2>2, <2>4 DEF Task
    <3> QED
      BY <2>1, <2>2, <2>3, <3>1 DEF Knows
  <2>5. CASE ~Outdates(t, o)
    <3>1. o.target # t.target /\ request'[q] = o
      BY <2>1, <2>2, <2>5 DEF Outdates, Pending, Idle
    <3>2. account'[o.target] = account[o.target]
      BY <1>1, <1>3, <3>1 DEF AccountsTypeOK
    <3>3. ASSUME o.counted, Another(o.target) PROVE \E v \in Admins' : v # o.target
      <4>1. PICK v \in Admins : v # o.target
        BY <3>3 DEF Another
      <4>2. v \in Admins'
        BY <2>1, <2>5, <3>3, <4>1, WrittenAdmins DEF Outdates, Pending, Idle
      <4> QED
        BY <4>1, <4>2
    <3> QED
      BY <2>1, <3>1, <3>2, <3>3 DEF Knows, Another
  <2> QED
    BY <2>4, <2>5
<1>7. AdminRemains'
  <2> SUFFICES ASSUME outdated' = {} PROVE Admins' # {}
    BY DEF AdminRemains
  <2>1. outdated = {} /\ ~t.stale
    BY <1>3
  <2>2. PICK u \in Admins : TRUE
    BY <2>1 DEF AccountsInv, AdminRemains
  <2>3. CASE u \notin Admins'
    <3>1. u = t.target /\ account[t.target].role = "ADMIN" /\ t.op \in {"delete", "role"}
      BY <2>2, <2>3, WrittenAdmins DEF Admins
    <3>2. t.op = "role" /\ t.counted
      BY <1>2, <2>1, <3>1 DEF Knows
    <3>3. PICK v \in Admins : v # t.target
      BY <1>2, <2>1, <3>2 DEF Knows, Another
    <3> QED
      BY <3>3, WrittenAdmins
  <2> QED
    BY <2>2, <2>3
<1> QED
  BY <1>4, <1>5, <1>6, <1>7 DEF AccountsInv, ReadingsHold

-----------------------------------------------------------------------------

LEMMA AccountsInvStep == AccountsTypeOK /\ AccountsInv /\ [AccountsNext]_accountsVars => AccountsInv'
<1> SUFFICES ASSUME AccountsTypeOK, AccountsInv, [AccountsNext]_accountsVars PROVE AccountsInv'
  OBVIOUS
<1>1. CASE UNCHANGED accountsVars
  BY <1>1 DEF accountsVars, AccountsInv, RootStays, SuspendedOrAdmin, AdminRemains, ReadingsHold,
              Knows, Another, Admins
<1> QED
  BY <1>1, ArriveKeeps, ReadKeeps, CountKeeps, WriteKeeps, FailsKeeps DEF AccountsNext

LEMMA AccountsInvHolds == AccountsSpec => []AccountsInv
  BY AccountsTypeInit, AccountsTypeStep, AccountsInvInit, AccountsInvStep, PTL DEF AccountsSpec

\* However requests overlap, the root administrator is neither suspended, demoted nor
\* deleted: no reading of its row admits a request that would.
THEOREM RootIsSafe == AccountsSpec => []RootStays
<1>1. AccountsInv => RootStays
  BY DEF AccountsInv
<1> QED
  BY <1>1, AccountsInvHolds, PTL

\* An administrator is suspended only where a request acted on an outdated reading of it.
THEOREM SuspendedAdminIsARace == AccountsSpec => []SuspendedOrAdmin
<1>1. AccountsInv => SuspendedOrAdmin
  BY DEF AccountsInv
<1> QED
  BY <1>1, AccountsInvHolds, PTL

\* setRole()'s count keeps an administrator as long as no request acts on an outdated
\* reading: the lockout is reached by overlapping requests and in no other way.
THEOREM LockoutIsARace == AccountsSpec => []AdminRemains
<1>1. AccountsInv => AdminRemains
  BY DEF AccountsInv
<1> QED
  BY <1>1, AccountsInvHolds, PTL

-----------------------------------------------------------------------------
(***************************************************************************)
(* Sessions.                                                               *)
(***************************************************************************)

LoginCall == [op : {"login"}, of : Person, typed : 0..MaxPassword]
TokenCall == [op : {"boot", "refresh", "change"}, with : Token, stored : BOOLEAN]
VerifyCall == [op : {"verify"}, of : Person, link : Link]
ChangingCall == [op : {"changing"}, of : Person, awaited : BOOLEAN]
VerifyingCall == [op : {"verifying"}, of : Person, link : Link, awaited : BOOLEAN]
ResendCall == [op : {"resend", "resending"}, of : Person]
EnteredCall == [op : {"entered"}, token : Token, view : View]
AnswerCall == [op : {"booted", "refreshed"}, with : Token, stored : BOOLEAN,
               view : View \cup {Nothing}]

\* What a call is, by its op.
LEMMA CallShape ==
  ASSUME NEW d \in Calls
  PROVE  /\ d.op = "login" => d \in LoginCall
         /\ d.op \in {"boot", "refresh", "change"} => d \in TokenCall
         /\ d.op = "verify" => d \in VerifyCall
         /\ d.op = "changing" => d \in ChangingCall
         /\ d.op = "verifying" => d \in VerifyingCall
         /\ d.op \in {"resend", "resending"} => d \in ResendCall
         /\ d.op = "entered" => d \in EnteredCall
         /\ d.op \in {"booted", "refreshed"} => d \in AnswerCall
  BY DEF Calls, NoCall, LoginCall, TokenCall, VerifyCall, ChangingCall, VerifyingCall, ResendCall,
         EnteredCall, AnswerCall

LEMMA CallKinds ==
  /\ LoginCall \subseteq Calls /\ TokenCall \subseteq Calls /\ VerifyCall \subseteq Calls
  /\ ChangingCall \subseteq Calls /\ VerifyingCall \subseteq Calls /\ ResendCall \subseteq Calls
  /\ EnteredCall \subseteq Calls /\ AnswerCall \subseteq Calls /\ NoCall \in Calls
  BY DEF Calls, NoCall, LoginCall, TokenCall, VerifyCall, ChangingCall, VerifyingCall, ResendCall,
         EnteredCall, AnswerCall

LEMMA BecomeTyped ==
  ASSUME SessionsTypeOK, NEW c \in Call, NEW state \in Calls, Become(c, state)
  PROVE  call' \in [Call -> Calls]
  BY DEF SessionsTypeOK, Become

LEMMA SignedTyped ==
  ASSUME SessionsTypeOK, NEW p \in Person
  PROVE  Signed(p) \in Token /\ ViewOf(p) \in View /\ row[p] \in Row
  BY DEF SessionsTypeOK, Signed, ViewOf, Token, View, Row

LEMMA SentTyped ==
  ASSUME SessionsTypeOK, browser.token # Nothing, NEW op \in {"boot", "refresh", "change"}
  PROVE  Sent(op) \in TokenCall
  BY DEF SessionsTypeOK, Sent, TokenCall

LEMMA ReplacedTyped ==
  ASSUME NEW d \in Calls
  PROVE  /\ Replaced(d) \in Calls /\ Replaced(d).op = d.op
         /\ d.op \in {"boot", "refresh", "change", "booted", "refreshed"} =>
              /\ ~Replaced(d).stored /\ Replaced(d).with = d.with
         /\ d.op \in {"booted", "refreshed"} => Replaced(d).view = d.view
         /\ d.op \notin {"boot", "refresh", "change", "booted", "refreshed"} => Replaced(d) = d
<1>1. CASE d \in TokenCall
  <2>1. "stored" \in DOMAIN d
    BY <1>1 DEF TokenCall
  <2>2. Replaced(d) = [d EXCEPT !.stored = FALSE]
    BY <2>1 DEF Replaced
  <2> QED
    BY <1>1, <2>2, CallKinds DEF TokenCall
<1>2. CASE d \in AnswerCall
  <2>1. "stored" \in DOMAIN d
    BY <1>2 DEF AnswerCall
  <2>2. Replaced(d) = [d EXCEPT !.stored = FALSE]
    BY <2>1 DEF Replaced
  <2> QED
    BY <1>2, <2>2, CallKinds DEF AnswerCall
<1>3. CASE d \notin TokenCall \cup AnswerCall
  <2>1. "stored" \notin DOMAIN d
    BY <1>3 DEF Calls, NoCall, TokenCall, AnswerCall
  <2> QED
    BY <1>3, <2>1, CallShape DEF Replaced
<1> QED
  BY <1>1, <1>2, <1>3

LEMMA AbandonedTyped ==
  ASSUME NEW d \in Calls
  PROVE  Abandoned(d) \in Calls
<1>1. CASE d.op = "changing"
  BY <1>1, CallShape, CallKinds DEF Abandoned, ChangingCall
<1>2. CASE d.op = "verifying"
  BY <1>2, CallShape, CallKinds DEF Abandoned, VerifyingCall
<1>3. CASE d.op \notin {"changing", "verifying"}
  BY <1>3, CallKinds DEF Abandoned
<1> QED
  BY <1>1, <1>2, <1>3

\* The password's number and authVersion go up together; so does what a token carries.
RowsEven == \A p \in Person : row[p].pw = row[p].ver

Even(t) == t.proved = t.ver

TokensEven ==
  /\ browser.token # Nothing => Even(browser.token)
  /\ \A c \in Call : call[c].op = "entered" => Even(call[c].token)

LEMMA SessionsTypeInit == SessionsInit => SessionsTypeOK /\ RowsEven /\ TokensEven
<1> SUFFICES ASSUME SessionsInit PROVE SessionsTypeOK /\ RowsEven /\ TokensEven
  OBVIOUS
<1>1. \A p \in Person : row[p] \in Row /\ row[p].pw = row[p].ver
  <2> TAKE p \in Person
  <2>1. PICK b \in BOOLEAN : row[p] = [pw |-> 0, ver |-> 0, must |-> b, verified |-> b]
    BY DEF SessionsInit
  <2>2. 0 \in 0..MaxPassword
    BY SessionsAssumption
  <2> QED
    BY <2>1, <2>2 DEF Row
<1>2. row \in [Person -> Row]
  BY <1>1 DEF SessionsInit
<1>3. /\ link \in [Person -> SUBSET Link] /\ call \in [Call -> Calls]
      /\ opened \in [Link -> Nat] /\ overtaken \in BOOLEAN
  BY CallKinds DEF SessionsInit
<1>4. browser.token = Nothing /\ browser \in [token : Token \cup {Nothing},
                                              shown : View \cup {Nothing},
                                              socket : Token \cup {Nothing}]
  BY DEF SessionsInit
<1>5. \A c \in Call : call[c].op = "none"
  BY DEF SessionsInit, NoCall
<1> QED
  BY <1>1, <1>2, <1>3, <1>4, <1>5 DEF SessionsTypeOK, RowsEven, TokensEven

LEMMA NewPasswordTyped ==
  ASSUME NEW r \in Row, r.pw < MaxPassword, r.pw = r.ver
  PROVE  NewPassword(r) \in Row /\ NewPassword(r).pw = NewPassword(r).ver
<1>1. r.pw + 1 \in 0..MaxPassword
  BY SessionsAssumption DEF Row
<1>2. PICK n \in 0..MaxPassword : n = r.pw + 1
  BY <1>1
<1>3. NewPassword(r) = [r EXCEPT !.pw = n, !.ver = n, !.must = FALSE]
  BY <1>2 DEF NewPassword
<1> QED
  BY <1>3 DEF Row

LEMMA SessionsTypeStep ==
  SessionsTypeOK /\ RowsEven /\ [SessionsNext]_sessionsVars => SessionsTypeOK'
<1> SUFFICES ASSUME SessionsTypeOK, RowsEven, [SessionsNext]_sessionsVars PROVE SessionsTypeOK'
  OBVIOUS
<1> USE CallKinds
<1>1. ASSUME NEW c \in Call, Send(c) PROVE SessionsTypeOK'
  <2>1. ASSUME NEW p \in Person
        PROVE  /\ [op |-> "login", of |-> p, typed |-> row[p].pw] \in LoginCall
               /\ [op |-> "resend", of |-> p] \in ResendCall
               /\ \A l \in Link : [op |-> "verify", of |-> p, link |-> l] \in VerifyCall
    BY SignedTyped DEF LoginCall, ResendCall, VerifyCall, Row
  <2>2. \E state \in Calls : Become(c, state)
    BY <1>1, <2>1, SentTyped DEF Send
  <2> QED
    BY <1>1, <2>2, BecomeTyped DEF Send, SessionsTypeOK
<1>2. ASSUME NEW c \in Call, Login(c) PROVE SessionsTypeOK'
  <2>1. call[c] \in LoginCall /\ call[c].of \in Person
    BY <1>2, CallShape DEF Login, LoginCall, SessionsTypeOK
  <2>2. [op |-> "entered", token |-> Signed(call[c].of), view |-> ViewOf(call[c].of)] \in EnteredCall
    BY <2>1, SignedTyped DEF EnteredCall
  <2>3. \E state \in Calls : Become(c, state)
    BY <1>2, <2>2 DEF Login
  <2> QED
    BY <1>2, <2>3, BecomeTyped DEF Login, SessionsTypeOK
<1>3. ASSUME NEW c \in Call, CheckPassword(c) PROVE SessionsTypeOK'
  <2>1. call[c].with \in Token
    BY <1>3, CallShape DEF CheckPassword, TokenCall, SessionsTypeOK
  <2>2. [op |-> "changing", of |-> call[c].with.of, awaited |-> TRUE] \in ChangingCall
    BY <2>1 DEF ChangingCall, Token
  <2>3. \E state \in Calls : Become(c, state)
    BY <1>3, <2>2 DEF CheckPassword
  <2> QED
    BY <1>3, <2>3, BecomeTyped DEF CheckPassword, SessionsTypeOK
<1>4. ASSUME NEW c \in Call, ChangePassword(c) PROVE SessionsTypeOK'
  <2>1. call[c].of \in Person
    BY <1>4, CallShape DEF ChangePassword, ChangingCall, SessionsTypeOK
  <2>2. NewPassword(row[call[c].of]) \in Row
    BY <1>4, <2>1, SignedTyped, NewPasswordTyped DEF ChangePassword, RowsEven
  <2>3. row' \in [Person -> Row]
    BY <1>4, <2>1, <2>2 DEF ChangePassword, SessionsTypeOK
  <2>4. \E state \in Calls : Become(c, state)
    BY <1>4, SentTyped DEF ChangePassword
  <2>5. call' \in [Call -> Calls]
    BY <2>4, BecomeTyped
  <2> QED
    BY <1>4, <2>3, <2>5 DEF ChangePassword, SessionsTypeOK
<1>5. ASSUME NEW c \in Call, Me(c) PROVE SessionsTypeOK'
  <2>1. call[c] \in TokenCall /\ call[c].with \in Token /\ call[c].with.of \in Person
        /\ call[c].stored \in BOOLEAN
    BY <1>5, CallShape DEF Me, TokenCall, Token, SessionsTypeOK
  <2> DEFINE view == IF Accepted(call[c].with) THEN ViewOf(call[c].with.of) ELSE Nothing
             op == IF call[c].op = "boot" THEN "booted" ELSE "refreshed"
  <2>2. view \in View \cup {Nothing} /\ op \in {"booted", "refreshed"}
    BY <2>1, SignedTyped
  <2>3. Become(c, [op |-> op, with |-> call[c].with, stored |-> call[c].stored, view |-> view])
    BY <1>5 DEF Me
  <2> HIDE DEF view, op
  <2>4. [op |-> op, with |-> call[c].with, stored |-> call[c].stored, view |-> view] \in AnswerCall
    BY <2>1, <2>2 DEF AnswerCall
  <2> QED
    BY <1>5, <2>3, <2>4, BecomeTyped DEF Me, SessionsTypeOK
<1>6. ASSUME NEW c \in Call, DropLinks(c) PROVE SessionsTypeOK'
  <2>1. call[c] \in ResendCall
    BY <1>6, CallShape DEF DropLinks, SessionsTypeOK
  <2>2. [call[c] EXCEPT !.op = "resending"] \in ResendCall /\ call[c].of \in Person
    BY <2>1 DEF ResendCall
  <2>3. \E state \in Calls : Become(c, state)
    BY <1>6, <2>2 DEF DropLinks
  <2>4. link' \in [Person -> SUBSET Link]
    BY <1>6, <2>2 DEF DropLinks, SessionsTypeOK
  <2> QED
    BY <1>6, <2>3, <2>4, BecomeTyped DEF DropLinks, SessionsTypeOK
<1>7. ASSUME NEW c \in Call, SendLink(c) PROVE SessionsTypeOK'
  <2>1. call[c].of \in Person
    BY <1>7, CallShape DEF SendLink, ResendCall, SessionsTypeOK
  <2>2. link' \in [Person -> SUBSET Link]
    BY <1>7, <2>1 DEF SendLink, SessionsTypeOK
  <2> QED
    BY <1>7, <2>2, BecomeTyped DEF SendLink, SessionsTypeOK
<1>8. ASSUME NEW c \in Call, FindLink(c) PROVE SessionsTypeOK'
  <2>1. call[c].of \in Person /\ call[c].link \in Link
    BY <1>8, CallShape DEF FindLink, VerifyCall, SessionsTypeOK
  <2>2. [op |-> "verifying", of |-> call[c].of, link |-> call[c].link, awaited |-> TRUE]
          \in VerifyingCall
    BY <2>1 DEF VerifyingCall
  <2>3. \E state \in Calls : Become(c, state)
    BY <1>8, <2>2 DEF FindLink
  <2> QED
    BY <1>8, <2>3, BecomeTyped DEF FindLink, SessionsTypeOK
<1>9. ASSUME NEW c \in Call, ConfirmAddress(c) PROVE SessionsTypeOK'
  <2>1. call[c].of \in Person /\ call[c].link \in Link /\ row[call[c].of] \in Row
    BY <1>9, CallShape, SignedTyped DEF ConfirmAddress, VerifyingCall, SessionsTypeOK
  <2>2. [op |-> "entered", token |-> Signed(call[c].of), view |-> ViewOf(call[c].of)] \in EnteredCall
    BY <2>1, SignedTyped DEF EnteredCall
  <2>3. \E state \in Calls : Become(c, state)
    BY <1>9, <2>2 DEF ConfirmAddress
  <2>4. [row[call[c].of] EXCEPT !.verified = TRUE] \in Row
    BY <2>1 DEF Row
  <2>5. /\ row' \in [Person -> Row] /\ link' \in [Person -> SUBSET Link]
        /\ opened' \in [Link -> Nat]
    BY <1>9, <2>1, <2>4 DEF ConfirmAddress, SessionsTypeOK
  <2> QED
    BY <1>9, <2>3, <2>5, BecomeTyped DEF ConfirmAddress, SessionsTypeOK
<1>10. ASSUME NEW c \in Call, Enter(c) PROVE SessionsTypeOK'
  <2>1. call[c].token \in Token /\ call[c].view \in View
    BY <1>10, CallShape DEF Enter, EnteredCall, SessionsTypeOK
  <2>2. call' \in [Call -> Calls]
    BY <1>10, ReplacedTyped DEF Enter, SessionsTypeOK
  <2> QED
    BY <1>10, <2>1, <2>2 DEF Enter, SessionsTypeOK
<1>11. ASSUME NEW c \in Call, Reload(c) PROVE SessionsTypeOK'
  <2>1. call' \in [Call -> Calls]
    <3> SUFFICES ASSUME NEW d \in Call
                 PROVE  (IF d = c /\ browser.token # Nothing THEN Sent("boot") ELSE Abandoned(call[d]))
                          \in Calls
      BY <1>11 DEF Reload
    <3> QED
      BY SentTyped, AbandonedTyped DEF SessionsTypeOK
  <2>2. browser' \in [token : Token \cup {Nothing}, shown : View \cup {Nothing},
                      socket : Token \cup {Nothing}]
    BY <1>11 DEF Reload, SessionsTypeOK
  <2> QED
    BY <1>11, <2>1, <2>2 DEF Reload, SessionsTypeOK
<1>12. ASSUME NEW c \in Call, Boot(c) \/ Refresh(c) PROVE SessionsTypeOK'
  <2>1. call[c].view \in View \cup {Nothing} /\ call[c].stored \in BOOLEAN
    BY <1>12, CallShape DEF Boot, Refresh, AnswerCall, SessionsTypeOK
  <2>2. browser' \in [token : Token \cup {Nothing}, shown : View \cup {Nothing},
                      socket : Token \cup {Nothing}]
    BY <1>12, <2>1 DEF Boot, Refresh, SessionsTypeOK
  <2>3. call' \in [Call -> Calls]
    BY <1>12, BecomeTyped DEF Boot, Refresh
  <2>4. overtaken' \in BOOLEAN
    BY <1>12, <2>1 DEF Boot, Refresh, SessionsTypeOK
  <2> QED
    BY <1>12, <2>2, <2>3, <2>4 DEF Boot, Refresh, SessionsTypeOK
<1>13. ASSUME NEW l \in Link, Expire(l) PROVE SessionsTypeOK'
  BY <1>13 DEF Expire, SessionsTypeOK
<1>14. CASE Logout
  <2>1. call' \in [Call -> Calls]
    BY <1>14, ReplacedTyped DEF Logout, SessionsTypeOK
  <2> QED
    BY <1>14, <2>1 DEF Logout, SessionsTypeOK
<1>15. CASE Connect
  BY <1>15 DEF Connect, SessionsTypeOK
<1>16. CASE UNCHANGED sessionsVars
  BY <1>16 DEF sessionsVars, SessionsTypeOK
<1> QED
  BY <1>1, <1>2, <1>3, <1>4, <1>5, <1>6, <1>7, <1>8, <1>9, <1>10, <1>11, <1>12, <1>13, <1>14, <1>15,
     <1>16 DEF SessionsNext

\* Only changePassword() moves the two numbers, and it moves both; a token is signed
\* from one reading of the row.
LEMMA EvenStep ==
  SessionsTypeOK /\ RowsEven /\ TokensEven /\ [SessionsNext]_sessionsVars
    => RowsEven' /\ TokensEven'
<1> SUFFICES ASSUME SessionsTypeOK, RowsEven, TokensEven, [SessionsNext]_sessionsVars
             PROVE RowsEven' /\ TokensEven'
  OBVIOUS
<1> USE CallKinds
<1>a. ASSUME row' = row PROVE RowsEven'
  BY <1>a DEF RowsEven
<1>b. ASSUME browser' = browser,
             \A c \in Call : call'[c].op = "entered" => call'[c] = call[c] \/ Even(call'[c].token)
      PROVE TokensEven'
  BY <1>b DEF TokensEven, Even
<1>c. ASSUME NEW c \in Call, NEW state \in Calls, Become(c, state),
             state.op = "entered" => Even(state.token)
      PROVE \A d \in Call : call'[d].op = "entered" => call'[d] = call[d] \/ Even(call'[d].token)
  BY <1>c DEF Become, SessionsTypeOK
<1>d. \A p \in Person : Even(Signed(p))
  BY DEF RowsEven, Signed, Even
<1>1. ASSUME NEW c \in Call, Send(c) PROVE RowsEven' /\ TokensEven'
  <2>1. \A d \in Call : call'[d].op = "entered" => call'[d] = call[d]
    BY <1>1 DEF Send, Become, Sent, SessionsTypeOK
  <2> QED
    BY <1>1, <1>a, <1>b, <2>1 DEF Send
<1>2. ASSUME NEW c \in Call, Login(c) \/ ConfirmAddress(c) PROVE RowsEven' /\ TokensEven'
  <2>1. call[c].of \in Person
    BY <1>2, CallShape DEF Login, ConfirmAddress, LoginCall, VerifyingCall, SessionsTypeOK
  <2>2. \A d \in Call : call'[d].op = "entered" => call'[d] = call[d] \/ Even(call'[d].token)
    <3> DEFINE answer == [op |-> "entered", token |-> Signed(call[c].of), view |-> ViewOf(call[c].of)]
    <3>1. answer \in EnteredCall /\ Even(answer.token)
      BY <2>1, SignedTyped, <1>d DEF EnteredCall
    <3>2. Become(c, answer) \/ Become(c, NoCall)
      BY <1>2 DEF Login, ConfirmAddress
    <3> HIDE DEF answer
    <3> QED
      BY <3>1, <3>2, <1>c DEF NoCall
  <2>3. RowsEven'
    <3>1. row' = row \/ row' = [row EXCEPT ![call[c].of].verified = TRUE]
      BY <1>2 DEF Login, ConfirmAddress
    <3>2. row[call[c].of] \in Row
      BY <2>1, SignedTyped
    <3>3. [row[call[c].of] EXCEPT !.verified = TRUE].pw = row[call[c].of].pw
          /\ [row[call[c].of] EXCEPT !.verified = TRUE].ver = row[call[c].of].ver
      BY <3>2 DEF Row
    <3> QED
      BY <2>1, <3>1, <3>3 DEF RowsEven, SessionsTypeOK
  <2> QED
    BY <1>2, <1>b, <2>2, <2>3 DEF Login, ConfirmAddress
<1>3. ASSUME NEW c \in Call, ChangePassword(c) PROVE RowsEven' /\ TokensEven'
  <2>1. call[c].of \in Person
    BY <1>3, CallShape DEF ChangePassword, ChangingCall, SessionsTypeOK
  <2>2. RowsEven'
    BY <1>3, <2>1, SignedTyped, NewPasswordTyped DEF ChangePassword, RowsEven, SessionsTypeOK
  <2>3. \A d \in Call : call'[d].op = "entered" => call'[d] = call[d]
    BY <1>3 DEF ChangePassword, Become, Sent, NoCall, SessionsTypeOK
  <2> QED
    BY <1>3, <1>b, <2>2, <2>3 DEF ChangePassword
<1>4. ASSUME NEW c \in Call, CheckPassword(c) \/ Me(c) \/ DropLinks(c) \/ SendLink(c) \/ FindLink(c)
      PROVE RowsEven' /\ TokensEven'
  <2>1. \A d \in Call : call'[d].op = "entered" => call'[d] = call[d]
    <3>1. CASE CheckPassword(c)
      BY <3>1 DEF CheckPassword, Become, NoCall, SessionsTypeOK
    <3>2. CASE Me(c)
      BY <3>2 DEF Me, Become, SessionsTypeOK
    <3>3. CASE DropLinks(c)
      <4>1. [call[c] EXCEPT !.op = "resending"].op = "resending"
        BY <3>3, CallShape DEF DropLinks, ResendCall, SessionsTypeOK
      <4> QED
        BY <3>3, <4>1 DEF DropLinks, Become, NoCall, SessionsTypeOK
    <3>4. CASE SendLink(c)
      BY <3>4 DEF SendLink, Become, NoCall, SessionsTypeOK
    <3>5. CASE FindLink(c)
      BY <3>5 DEF FindLink, Become, NoCall, SessionsTypeOK
    <3> QED
      BY <1>4, <3>1, <3>2, <3>3, <3>4, <3>5
  <2>2. row' = row /\ browser' = browser
    BY <1>4 DEF CheckPassword, Me, DropLinks, SendLink, FindLink
  <2> QED
    BY <1>a, <1>b, <2>1, <2>2
<1>5. ASSUME NEW c \in Call, Enter(c) PROVE RowsEven' /\ TokensEven'
  <2>1. Even(call[c].token)
    BY <1>5 DEF Enter, TokensEven
  <2>2. \A d \in Call : call'[d].op = "entered" => call'[d] = call[d]
    BY <1>5, ReplacedTyped DEF Enter, NoCall, SessionsTypeOK
  <2> QED
    BY <1>5, <1>a, <2>1, <2>2 DEF Enter, TokensEven
<1>6. ASSUME NEW c \in Call, Reload(c) PROVE RowsEven' /\ TokensEven'
  <2>1. \A d \in Call : call'[d].op # "entered"
    <3> SUFFICES ASSUME NEW d \in Call PROVE call'[d].op # "entered"
      OBVIOUS
    <3>1. call[d] \in Calls
      BY DEF SessionsTypeOK
    <3>2. Abandoned(call[d]).op # "entered"
      <4>1. CASE call[d].op = "changing"
        BY <4>1, <3>1, CallShape DEF Abandoned, ChangingCall
      <4>2. CASE call[d].op = "verifying"
        BY <4>2, <3>1, CallShape DEF Abandoned, VerifyingCall
      <4>3. CASE call[d].op \notin {"changing", "verifying"}
        BY <4>3 DEF Abandoned, NoCall
      <4> QED
        BY <4>1, <4>2, <4>3
    <3> QED
      BY <1>6, <3>2 DEF Reload, Sent
  <2>2. browser'.token = browser.token /\ row' = row
    BY <1>6 DEF Reload, SessionsTypeOK
  <2> QED
    BY <1>a, <2>1, <2>2 DEF TokensEven
<1>7. ASSUME NEW c \in Call, Boot(c) \/ Refresh(c) PROVE RowsEven' /\ TokensEven'
  <2>1. \A d \in Call : call'[d].op = "entered" => call'[d] = call[d]
    BY <1>7 DEF Boot, Refresh, Become, NoCall, SessionsTypeOK
  <2>2. browser'.token \in {browser.token, Nothing} /\ row' = row
    BY <1>7 DEF Boot, Refresh, SessionsTypeOK
  <2> QED
    BY <1>a, <2>1, <2>2 DEF TokensEven
<1>8. ASSUME NEW l \in Link, Expire(l) PROVE RowsEven' /\ TokensEven'
  BY <1>8, <1>a, <1>b DEF Expire
<1>9. CASE Logout
  <2>1. \A d \in Call : call'[d].op = "entered" => call'[d] = call[d]
    BY <1>9, ReplacedTyped DEF Logout, SessionsTypeOK
  <2> QED
    BY <1>9, <1>a, <2>1 DEF Logout, TokensEven
<1>10. CASE Connect
  BY <1>10, <1>a DEF Connect, TokensEven, SessionsTypeOK
<1>11. CASE UNCHANGED sessionsVars
  BY <1>11, <1>a, <1>b DEF sessionsVars
<1> QED
  BY <1>1, <1>2, <1>3, <1>4, <1>5, <1>6, <1>7, <1>8, <1>9, <1>10, <1>11 DEF SessionsNext

\* A link that has opened a session is gone, and a link belongs to one account.
LinksSpent ==
  /\ \A l \in Link : opened[l] <= 1
  /\ \A l \in Link, p \in Person : l \in link[p] => opened[l] = 0
  /\ \A p, q \in Person : p # q => link[p] \cap link[q] = {}

LEMMA LinksStep ==
  SessionsTypeOK /\ LinksSpent /\ [SessionsNext]_sessionsVars => LinksSpent'
<1> SUFFICES ASSUME SessionsTypeOK, LinksSpent, [SessionsNext]_sessionsVars PROVE LinksSpent'
  OBVIOUS
<1>1. ASSUME NEW c \in Call, DropLinks(c) PROVE LinksSpent'
  BY <1>1 DEF DropLinks, LinksSpent, SessionsTypeOK
<1>2. ASSUME NEW c \in Call, SendLink(c) PROVE LinksSpent'
  <2>1. PICK l \in Link \ Issued : link' = [link EXCEPT ![call[c].of] = @ \cup {l}]
    BY <1>2 DEF SendLink
  <2>2. opened[l] \in Nat /\ ~(opened[l] > 0) /\ \A p \in Person : l \notin link[p]
    BY <2>1 DEF Issued, SessionsTypeOK
  <2>3. opened[l] = 0 /\ opened' = opened
    BY <1>2, <2>2 DEF SendLink
  <2> QED
    BY <2>1, <2>2, <2>3 DEF LinksSpent, SessionsTypeOK
<1>3. ASSUME NEW c \in Call, ConfirmAddress(c) PROVE LinksSpent'
  <2>1. call[c].of \in Person /\ call[c].link \in Link
    BY <1>3, CallShape DEF ConfirmAddress, VerifyingCall, SessionsTypeOK
  <2>2. CASE call[c].link \in link[call[c].of]
    <3>1. link' = [link EXCEPT ![call[c].of] = {}] /\ opened' = [opened EXCEPT ![call[c].link] = @ + 1]
      BY <1>3, <2>2 DEF ConfirmAddress, Consumes
    <3>2. opened[call[c].link] = 0
      BY <2>1, <2>2 DEF LinksSpent
    <3>3. \A p \in Person : call[c].link \notin link'[p]
      BY <2>1, <2>2, <3>1 DEF LinksSpent, SessionsTypeOK
    <3> QED
      BY <2>1, <3>1, <3>2, <3>3 DEF LinksSpent, SessionsTypeOK
  <2>3. CASE call[c].link \notin link[call[c].of]
    BY <1>3, <2>3 DEF ConfirmAddress, Consumes, LinksSpent
  <2> QED
    BY <2>2, <2>3
<1>4. ASSUME NEW l \in Link, Expire(l) PROVE LinksSpent'
  BY <1>4 DEF Expire, LinksSpent, SessionsTypeOK
<1>5. ASSUME UNCHANGED <<link, opened>> PROVE LinksSpent'
  BY <1>5 DEF LinksSpent
<1> QED
  BY <1>1, <1>2, <1>3, <1>4, <1>5
     DEF SessionsNext, sessionsVars, Send, Login, CheckPassword, ChangePassword, Me, FindLink, Enter,
         Reload, Boot, Refresh, Logout, Connect

SessionsInv == SessionsTypeOK /\ RowsEven /\ TokensEven /\ LinksSpent

LEMMA SessionsInductive == SessionsSpec => []SessionsInv
<1>1. SessionsInit => SessionsInv
  BY SessionsTypeInit DEF SessionsInit, SessionsInv, LinksSpent
<1>2. SessionsInv /\ [SessionsNext]_sessionsVars => SessionsInv'
  BY SessionsTypeStep, EvenStep, LinksStep DEF SessionsInv
<1> QED
  BY <1>1, <1>2, PTL DEF SessionsSpec

\* Rows, tokens, the browser and its calls keep their shape (auth.service, AuthContext).
THEOREM SessionsTyped == SessionsSpec => []SessionsTypeOK
  BY SessionsInductive, PTL DEF SessionsInv

\* changePassword() raises authVersion in the update that stores the password, so no token
\* from an earlier password, not even of a login that overlaps the change, is accepted.
THEOREM OldLoginsAreDead == SessionsSpec => []OldLoginsDie
<1>1. SessionsInv => OldLoginsDie
  <2> SUFFICES ASSUME SessionsInv PROVE OldLoginsDie
    OBVIOUS
  <2>1. ASSUME NEW t \in Token, Even(t), Accepted(t) PROVE t.proved = row[t.of].pw
    BY <2>1 DEF SessionsInv, RowsEven, Even, Accepted, Token
  <2>2. \A c \in Call : call[c].op = "entered" => call[c].token \in Token
    BY CallShape DEF SessionsInv, SessionsTypeOK, EnteredCall
  <2>3. browser.token \in Token \cup {Nothing}
    BY DEF SessionsInv, SessionsTypeOK
  <2> QED
    BY <2>1, <2>2, <2>3 DEF SessionsInv, TokensEven, OldLoginsDie
<1> QED
  BY <1>1, SessionsInductive, PTL

\* verifyEmail() deletes the token in the transaction that confirms the address, and one
\* account's new link never equals another's, so a link opens at most one session.
THEOREM LinksOpenOnce == SessionsSpec => []LinkOpensOnce
<1>1. SessionsInv => LinkOpensOnce
  BY DEF SessionsInv, LinksSpent, LinkOpensOnce
<1> QED
  BY <1>1, SessionsInductive, PTL

-----------------------------------------------------------------------------
(***************************************************************************)
(* What the browser shows, against the token it keeps.  A call sent with a *)
(* token stays marked as such only while that token is the stored one, and *)
(* the first request after a reload is alone.                              *)
(***************************************************************************)

AnswerOps == {"booted", "refreshed"}
TokenOps == {"boot", "refresh", "change"} \cup AnswerOps

\* Marked as sent with the stored token.
Current(d) == d.op \in TokenOps /\ d.stored

\* Waits for no token's answer, and will not ask for one.
Silent(d) == d.op \notin TokenOps /\ (d.op = "changing" => ~d.awaited)

CurrentStored == \A c \in Call : Current(call[c]) => call[c].with = browser.token

BootAlone ==
  \A c \in Call : Current(call[c]) /\ call[c].op \in {"boot", "booted"} =>
    browser.shown = Nothing /\ \A d \in Call : d # c => Silent(call[d])

\* A view was read from its token's account; if it still demands a new password that the
\* row does not, the version has moved on since.
ReadWith(t, v) == v.of = t.of /\ (v.must /\ ~row[v.of].must => t.ver < row[t.of].ver)

Past(t) == t.ver <= row[t.of].ver

TokensPast ==
  /\ browser.token # Nothing => Past(browser.token)
  /\ \A c \in Call : /\ call[c].op \in TokenOps => Past(call[c].with)
                     /\ call[c].op = "entered" => Past(call[c].token)

ViewsRead ==
  /\ browser.shown # Nothing /\ ~overtaken =>
       browser.token # Nothing /\ ReadWith(browser.token, browser.shown)
  /\ \A c \in Call : /\ call[c].op \in AnswerOps /\ call[c].view # Nothing =>
                          ReadWith(call[c].with, call[c].view)
                     /\ call[c].op = "entered" => ReadWith(call[c].token, call[c].view)

BrowserInv == CurrentStored /\ BootAlone /\ TokensPast /\ ViewsRead

LEMMA BrowserInit == SessionsInit => BrowserInv
  BY DEF SessionsInit, BrowserInv, CurrentStored, BootAlone, TokensPast, ViewsRead, NoCall, Current,
         TokenOps, AnswerOps

\* Versions only go up, and a demand for a new password is only lifted, by a new version.
RowsForward ==
  /\ row' \in [Person -> Row]
  /\ \A p \in Person :
       /\ row[p].ver <= row'[p].ver
       /\ row'[p].must = row[p].must \/ (row[p].must /\ row[p].ver < row'[p].ver)

\* Past and ReadWith, of the rows that a step leaves behind.
PastNext(t) == t.ver <= row'[t.of].ver
ReadNext(t, v) == v.of = t.of /\ (v.must /\ ~row'[v.of].must => t.ver < row'[t.of].ver)

LEMMA ForwardKeeps ==
  ASSUME SessionsTypeOK, RowsForward, NEW t \in Token
  PROVE  /\ Past(t) => PastNext(t)
         /\ \A v \in View : Past(t) /\ ReadWith(t, v) => ReadNext(t, v)
<1>1. t.of \in Person /\ t.ver \in Nat
  BY SessionsAssumption DEF Token
<1>2. PICK n \in Nat, m \in Nat : row[t.of].ver = n /\ row'[t.of].ver = m
  BY <1>1, SessionsAssumption DEF RowsForward, SessionsTypeOK, Row
<1>3. n <= m /\ (row'[t.of].must = row[t.of].must \/ n < m)
  BY <1>1, <1>2 DEF RowsForward
<1>4. QED
  BY <1>1, <1>2, <1>3 DEF Past, ReadWith, PastNext, ReadNext

LEMMA SameRowsForward ==
  ASSUME SessionsTypeOK, row' = row
  PROVE  RowsForward
<1>1. \A p \in Person : row[p].ver \in Int
  BY SessionsAssumption DEF SessionsTypeOK, Row
<1>2. QED
  BY <1>1 DEF RowsForward, SessionsTypeOK

\* The tokens and views of a call.
LEMMA CallParts ==
  ASSUME NEW d \in Calls
  PROVE  /\ d.op \in TokenOps => d.with \in Token /\ d.stored \in BOOLEAN
         /\ d.op \in AnswerOps => d.view \in View \cup {Nothing}
         /\ d.op = "entered" => d.token \in Token /\ d.view \in View
  BY CallShape DEF TokenOps, AnswerOps, TokenCall, AnswerCall, EnteredCall

\* A call that is not silent excludes a first request marked as sent with the stored token.
BootCurrent(d) == Current(d) /\ d.op \in {"boot", "booted"}

LEMMA LoudExcludesBoot ==
  ASSUME BrowserInv, NEW c \in Call, ~Silent(call[c])
  PROVE  \A d \in Call : d # c => ~BootCurrent(call[d])
  BY DEF BrowserInv, BootAlone, BootCurrent

\* What a call's new state must be like.
Fits(c, state) ==
  /\ Current(state) => state.with = browser.token
  /\ BootCurrent(state) => browser.shown = Nothing /\ \A d \in Call : d # c => Silent(call[d])
  /\ Silent(state) \/ \A d \in Call : d # c => ~BootCurrent(call[d])
  /\ state.op \in TokenOps => Past(state.with)
  /\ state.op = "entered" => Past(state.token) /\ ReadWith(state.token, state.view)
  /\ state.op \in AnswerOps /\ state.view # Nothing => ReadWith(state.with, state.view)

LEMMA BecomeKeeps ==
  ASSUME SessionsTypeOK, BrowserInv, RowsForward, UNCHANGED <<browser, overtaken>>,
         NEW c \in Call, NEW state \in Calls, Become(c, state), Fits(c, state)
  PROVE  BrowserInv'
<1>1. call' \in [Call -> Calls] /\ \A d \in Call : call'[d] = IF d = c THEN state ELSE call[d]
  BY DEF Become, SessionsTypeOK
<1>2. CurrentStored'
  BY <1>1 DEF CurrentStored, BrowserInv, Fits, Current
<1>3. BootAlone'
  <2> SUFFICES ASSUME NEW d \in Call, BootCurrent(call'[d])
               PROVE  browser.shown = Nothing /\ \A e \in Call : e # d => Silent(call'[e])
    BY DEF BootAlone, BootCurrent, Silent, Current
  <2>1. CASE d = c
    BY <1>1, <2>1 DEF Fits
  <2>2. CASE d # c
    <3>1. BootCurrent(call[d])
      BY <1>1, <2>2
    <3>2. browser.shown = Nothing /\ \A e \in Call : e # d => Silent(call[e])
      BY <3>1 DEF BrowserInv, BootAlone, BootCurrent
    <3>3. Silent(state)
      BY <2>2, <3>1 DEF Fits
    <3>4. QED
      BY <1>1, <3>2, <3>3
  <2>3. QED
    BY <2>1, <2>2
<1>4. \A d \in Call :
        /\ call'[d].op \in TokenOps => call'[d].with \in Token /\ Past(call'[d].with)
        /\ call'[d].op = "entered" =>
             /\ call'[d].token \in Token /\ call'[d].view \in View
             /\ Past(call'[d].token) /\ ReadWith(call'[d].token, call'[d].view)
        /\ call'[d].op \in AnswerOps /\ call'[d].view # Nothing =>
             call'[d].view \in View /\ ReadWith(call'[d].with, call'[d].view)
  <2> TAKE d \in Call
  <2>1. call'[d] \in Calls
    BY <1>1
  <2>2. CASE d = c
    BY <1>1, <2>1, <2>2, CallParts DEF Fits
  <2>3. CASE d # c
    BY <1>1, <2>1, <2>3, CallParts DEF BrowserInv, TokensPast, ViewsRead
  <2>4. QED
    BY <2>2, <2>3
<1>5. \A d \in Call :
        /\ call'[d].op \in TokenOps => PastNext(call'[d].with)
        /\ call'[d].op = "entered" =>
             PastNext(call'[d].token) /\ ReadNext(call'[d].token, call'[d].view)
        /\ call'[d].op \in AnswerOps /\ call'[d].view # Nothing =>
             ReadNext(call'[d].with, call'[d].view)
  BY <1>4, ForwardKeeps DEF TokenOps
<1>6. browser'.token # Nothing => PastNext(browser'.token)
  BY ForwardKeeps DEF SessionsTypeOK, BrowserInv, TokensPast
<1>7. browser'.shown # Nothing /\ ~overtaken' =>
        browser'.token # Nothing /\ ReadNext(browser'.token, browser'.shown)
  BY ForwardKeeps DEF SessionsTypeOK, BrowserInv, TokensPast, ViewsRead
<1>8. TokensPast'
  BY <1>5, <1>6 DEF TokensPast, Past, PastNext
<1>9. ViewsRead'
  BY <1>5, <1>7 DEF ViewsRead, ReadWith, ReadNext
<1>10. QED
  BY <1>2, <1>3, <1>8, <1>9 DEF BrowserInv

LEMMA NoCallFits ==
  ASSUME NEW c \in Call
  PROVE  NoCall \in Calls /\ Fits(c, NoCall)
  BY CallKinds DEF Fits, NoCall, Silent, Current, BootCurrent, TokenOps, AnswerOps

\* A state with no token in it, that waits for nothing.
LEMMA QuietFits ==
  ASSUME NEW c \in Call, NEW state \in LoginCall \cup VerifyCall \cup ResendCall \cup VerifyingCall
  PROVE  state \in Calls /\ Fits(c, state)
  BY CallKinds DEF Fits, Silent, Current, BootCurrent, TokenOps, AnswerOps, LoginCall, VerifyCall,
                   ResendCall, VerifyingCall

\* The answer that logs somebody in: token and view come from one reading of the row.
LEMMA AnswerFits ==
  ASSUME SessionsTypeOK, NEW c \in Call, NEW p \in Person
  PROVE  LET answer == [op |-> "entered", token |-> Signed(p), view |-> ViewOf(p)]
         IN  answer \in Calls /\ Fits(c, answer)
<1> DEFINE answer == [op |-> "entered", token |-> Signed(p), view |-> ViewOf(p)]
<1>1. answer \in EnteredCall
  BY SignedTyped DEF EnteredCall
<1>2. Past(Signed(p)) /\ ReadWith(Signed(p), ViewOf(p))
  <2>1. row[p].ver \in Int
    BY SignedTyped, SessionsAssumption DEF Row
  <2> QED
    BY <2>1 DEF Past, ReadWith, Signed, ViewOf
<1> QED
  BY <1>1, <1>2, CallKinds DEF Fits, Silent, Current, BootCurrent, TokenOps, AnswerOps

\* A request sent with the stored token, where no first request is waiting.
LEMMA SentFits ==
  ASSUME SessionsTypeOK, BrowserInv, browser.token # Nothing, NEW c \in Call,
         NEW op \in {"refresh", "change"}, \A d \in Call : d # c => ~BootCurrent(call[d])
  PROVE  Sent(op) \in Calls /\ Fits(c, Sent(op))
<1>1. Sent(op) \in Calls
  BY SentTyped, CallKinds
<1>2. Past(browser.token)
  BY DEF BrowserInv, TokensPast
<1> QED
  BY <1>1, <1>2 DEF Fits, Sent, Silent, Current, BootCurrent, TokenOps, AnswerOps

LEMMA SendKeeps ==
  ASSUME SessionsTypeOK, BrowserInv, NEW c \in Call, Send(c)
  PROVE  BrowserInv'
<1>1. RowsForward
  BY SameRowsForward DEF Send
<1>2. UNCHANGED <<browser, overtaken>>
  BY DEF Send
<1>3. CASE \E p \in Person : Become(c, [op |-> "login", of |-> p, typed |-> row[p].pw])
  <2>1. PICK p \in Person : Become(c, [op |-> "login", of |-> p, typed |-> row[p].pw])
    BY <1>3
  <2>2. [op |-> "login", of |-> p, typed |-> row[p].pw] \in LoginCall
    BY SignedTyped DEF LoginCall, Row
  <2> QED
    BY <1>1, <1>2, <2>1, <2>2, QuietFits, BecomeKeeps
<1>4. CASE \E p \in Person : Become(c, [op |-> "resend", of |-> p])
  <2>1. PICK p \in Person : Become(c, [op |-> "resend", of |-> p])
    BY <1>4
  <2>2. [op |-> "resend", of |-> p] \in ResendCall
    BY DEF ResendCall
  <2> QED
    BY <1>1, <1>2, <2>1, <2>2, QuietFits, BecomeKeeps
<1>5. CASE \E p \in Person, l \in Link : Become(c, [op |-> "verify", of |-> p, link |-> l])
  <2>1. PICK p \in Person, l \in Link : Become(c, [op |-> "verify", of |-> p, link |-> l])
    BY <1>5
  <2>2. [op |-> "verify", of |-> p, link |-> l] \in VerifyCall
    BY DEF VerifyCall
  <2> QED
    BY <1>1, <1>2, <2>1, <2>2, QuietFits, BecomeKeeps
<1>6. CASE /\ browser.token # Nothing /\ browser.shown # Nothing
           /\ \E op \in {"change", "refresh"} : Become(c, Sent(op))
  <2>1. PICK op \in {"change", "refresh"} : Become(c, Sent(op))
    BY <1>6
  <2>2. \A d \in Call : ~BootCurrent(call[d])
    BY <1>6 DEF BrowserInv, BootAlone, BootCurrent
  <2>3. Sent(op) \in Calls /\ Fits(c, Sent(op))
    BY <1>6, <2>2, SentFits
  <2> QED
    BY <1>1, <1>2, <2>1, <2>3, BecomeKeeps
<1> QED
  BY <1>3, <1>4, <1>5, <1>6 DEF Send

LEMMA AnswersKeep ==
  ASSUME SessionsTypeOK, BrowserInv, NEW c \in Call, Login(c) \/ CheckPassword(c) \/ Me(c)
  PROVE  BrowserInv'
<1>1. RowsForward
  BY SameRowsForward DEF Login, CheckPassword, Me
<1>2. UNCHANGED <<browser, overtaken>>
  BY DEF Login, CheckPassword, Me
<1>3. CASE Login(c)
  <2>1. call[c].of \in Person
    BY <1>3, CallShape DEF Login, LoginCall, SessionsTypeOK
  <2>2. PICK p \in Person : p = call[c].of
    BY <2>1
  <2>3. \/ Become(c, [op |-> "entered", token |-> Signed(p), view |-> ViewOf(p)])
        \/ Become(c, NoCall)
    BY <1>3, <2>2 DEF Login
  <2> QED
    BY <1>1, <1>2, <2>3, AnswerFits, NoCallFits, BecomeKeeps
<1>4. CASE CheckPassword(c)
  <2>1. call[c].with.of \in Person
    BY <1>4, CallShape DEF CheckPassword, TokenCall, Token, SessionsTypeOK
  <2>2. PICK p \in Person : p = call[c].with.of
    BY <2>1
  <2> DEFINE changing == [op |-> "changing", of |-> p, awaited |-> TRUE]
  <2>3. Become(c, changing) \/ Become(c, NoCall)
    BY <1>4, <2>2 DEF CheckPassword
  <2>4. \A d \in Call : d # c => ~BootCurrent(call[d])
    BY <1>4, LoudExcludesBoot DEF CheckPassword, Silent, TokenOps
  <2>5. changing \in Calls /\ Fits(c, changing)
    <3>1. changing \in ChangingCall
      BY DEF ChangingCall
    <3> QED
      BY <3>1, <2>4, CallKinds DEF Fits, Silent, Current, BootCurrent, TokenOps, AnswerOps
  <2> HIDE DEF changing
  <2> QED
    BY <1>1, <1>2, <2>3, <2>5, NoCallFits, BecomeKeeps
<1>5. CASE Me(c)
  <2> DEFINE t == call[c].with
             seen == IF Accepted(t) THEN ViewOf(t.of) ELSE Nothing
             heard == [op |-> IF call[c].op = "boot" THEN "booted" ELSE "refreshed",
                       with |-> t, stored |-> call[c].stored, view |-> seen]
  <2>1. t \in Token /\ call[c].stored \in BOOLEAN /\ t.of \in Person
    BY <1>5, CallShape DEF Me, TokenCall, Token, SessionsTypeOK
  <2>2. Become(c, heard)
    BY <1>5 DEF Me
  <2>3. seen \in View \cup {Nothing} /\ (seen # Nothing => ReadWith(t, seen))
    BY <2>1, SignedTyped DEF ReadWith, ViewOf
  <2>4. heard \in AnswerCall
    BY <2>1, <2>3 DEF AnswerCall
  <2>5. Past(t) /\ call[c].op \in {"boot", "refresh"} /\ (Current(call[c]) => t = browser.token)
    BY <1>5 DEF Me, BrowserInv, TokensPast, CurrentStored, TokenOps
  <2>6. \A d \in Call : d # c => ~BootCurrent(call[d])
    BY <1>5, LoudExcludesBoot DEF Me, Silent, TokenOps
  <2>7. BootCurrent(call[c]) => browser.shown = Nothing /\ \A d \in Call : d # c => Silent(call[d])
    BY DEF BrowserInv, BootAlone, BootCurrent
  <2>8. /\ Current(heard) => Current(call[c])
        /\ BootCurrent(heard) => BootCurrent(call[c])
    BY <2>5 DEF Current, BootCurrent, TokenOps, AnswerOps
  <2>9. Fits(c, heard)
    <3>1. heard.with = t /\ heard.view = seen /\ heard.op # "entered"
      OBVIOUS
    <3> HIDE DEF heard, seen, t
    <3> QED
      BY <3>1, <2>3, <2>5, <2>6, <2>7, <2>8 DEF Fits
  <2> HIDE DEF heard
  <2> QED
    BY <1>1, <1>2, <2>2, <2>4, <2>9, CallKinds, BecomeKeeps
<1> QED
  BY <1>3, <1>4, <1>5

LEMMA LinkCallsKeep ==
  ASSUME SessionsTypeOK, BrowserInv, NEW c \in Call, DropLinks(c) \/ SendLink(c) \/ FindLink(c)
  PROVE  BrowserInv'
<1>1. RowsForward
  BY SameRowsForward DEF DropLinks, SendLink, FindLink
<1>2. UNCHANGED <<browser, overtaken>>
  BY DEF DropLinks, SendLink, FindLink
<1>3. CASE DropLinks(c)
  <2> DEFINE resending == [call[c] EXCEPT !.op = "resending"]
  <2>1. resending \in ResendCall
    BY <1>3, CallShape DEF DropLinks, ResendCall, SessionsTypeOK
  <2>2. Become(c, resending) \/ Become(c, NoCall)
    BY <1>3 DEF DropLinks
  <2> HIDE DEF resending
  <2> QED
    BY <1>1, <1>2, <2>1, <2>2, QuietFits, NoCallFits, BecomeKeeps
<1>4. CASE SendLink(c)
  BY <1>1, <1>2, <1>4, NoCallFits, BecomeKeeps DEF SendLink
<1>5. CASE FindLink(c)
  <2> DEFINE verifying == [op |-> "verifying", of |-> call[c].of, link |-> call[c].link, awaited |-> TRUE]
  <2>1. verifying \in VerifyingCall
    BY <1>5, CallShape DEF FindLink, VerifyCall, VerifyingCall, SessionsTypeOK
  <2>2. Become(c, verifying) \/ Become(c, NoCall)
    BY <1>5 DEF FindLink
  <2> HIDE DEF verifying
  <2> QED
    BY <1>1, <1>2, <2>1, <2>2, QuietFits, NoCallFits, BecomeKeeps
<1> QED
  BY <1>3, <1>4, <1>5

LEMMA ConfirmKeeps ==
  ASSUME SessionsTypeOK, BrowserInv, NEW c \in Call, ConfirmAddress(c)
  PROVE  BrowserInv'
<1>1. call[c].of \in Person
  BY CallShape DEF ConfirmAddress, VerifyingCall, SessionsTypeOK
<1>2. PICK p \in Person : p = call[c].of
  BY <1>1
<1>3. RowsForward
  <2>1. CASE row' = row
    BY <2>1, SameRowsForward
  <2>2. CASE row' = [row EXCEPT ![p].verified = TRUE]
    <3>1. \A q \in Person : row[q] \in Row /\ row[q].ver \in Int
      BY SignedTyped, SessionsAssumption DEF Row
    <3>2. \A q \in Person : row'[q] \in Row /\ row'[q].ver = row[q].ver /\ row'[q].must = row[q].must
      BY <2>2, <3>1 DEF SessionsTypeOK, Row
    <3>3. row' \in [Person -> Row]
      BY <2>2, <3>2 DEF SessionsTypeOK
    <3> QED
      BY <3>1, <3>2, <3>3 DEF RowsForward
  <2> QED
    BY <1>2, <2>1, <2>2 DEF ConfirmAddress
<1>4. \/ Become(c, [op |-> "entered", token |-> Signed(p), view |-> ViewOf(p)])
      \/ Become(c, NoCall)
  BY <1>2 DEF ConfirmAddress
<1>5. UNCHANGED <<browser, overtaken>>
  BY DEF ConfirmAddress
<1> QED
  BY <1>3, <1>4, <1>5, AnswerFits, NoCallFits, BecomeKeeps

\* The one step that lifts the demand for a new password, and it moves the version on.
LEMMA ChangeKeeps ==
  ASSUME SessionsTypeOK, RowsEven, BrowserInv, NEW c \in Call, ChangePassword(c)
  PROVE  BrowserInv'
<1>1. call[c].of \in Person
  BY CallShape DEF ChangePassword, ChangingCall, SessionsTypeOK
<1>2. PICK p \in Person : p = call[c].of
  BY <1>1
<1>3. RowsForward
  <2>1. \A q \in Person : row[q] \in Row /\ row[q].ver \in Int
    BY SignedTyped, SessionsAssumption DEF Row
  <2>2. row[p].pw < MaxPassword /\ row[p].pw = row[p].ver
    BY <1>2 DEF ChangePassword, RowsEven
  <2>3. NewPassword(row[p]) \in Row
    BY <2>1, <2>2, NewPasswordTyped
  <2>4. NewPassword(row[p]).ver = row[p].ver + 1 /\ ~NewPassword(row[p]).must
    BY <2>1 DEF NewPassword, Row
  <2>5. \A q \in Person : row'[q] = IF q = p THEN NewPassword(row[p]) ELSE row[q]
    BY <1>2 DEF ChangePassword, SessionsTypeOK
  <2>6. row' \in [Person -> Row]
    BY <1>2, <2>3 DEF ChangePassword, SessionsTypeOK
  <2>7. row[p].must \in BOOLEAN
    BY <2>1 DEF Row
  <2> QED
    <3>1. ASSUME NEW q \in Person
          PROVE  /\ row[q].ver <= row'[q].ver
                 /\ row'[q].must = row[q].must \/ (row[q].must /\ row[q].ver < row'[q].ver)
      <4>1. CASE q = p
        <5>1. row'[q].ver = row[q].ver + 1 /\ ~row'[q].must
          BY <4>1, <2>4, <2>5
        <5>2. row'[q].must \in BOOLEAN
          BY <2>6 DEF Row
        <5> QED
          BY <4>1, <5>1, <5>2, <2>1, <2>7
      <4>2. CASE q # p
        BY <4>2, <2>1, <2>5
      <4> QED
        BY <4>1, <4>2
    <3> QED
      BY <2>6, <3>1 DEF RowsForward
<1>4. \/ Become(c, NoCall)
      \/ call[c].awaited /\ browser.token # Nothing /\ Become(c, Sent("refresh"))
  BY DEF ChangePassword
<1>5. UNCHANGED <<browser, overtaken>>
  BY DEF ChangePassword
<1>6. CASE Become(c, NoCall)
  BY <1>3, <1>5, <1>6, NoCallFits, BecomeKeeps
<1>7. CASE call[c].awaited /\ browser.token # Nothing /\ Become(c, Sent("refresh"))
  <2>1. \A d \in Call : d # c => ~BootCurrent(call[d])
    BY <1>7, LoudExcludesBoot DEF ChangePassword, Silent
  <2>2. Sent("refresh") \in Calls /\ Fits(c, Sent("refresh"))
    BY <1>7, <2>1, SentFits
  <2> QED
    BY <1>3, <1>5, <1>7, <2>2, BecomeKeeps
<1> QED
  BY <1>4, <1>6, <1>7

-----------------------------------------------------------------------------
\* The steps of the browser, which leave the rows alone.

LEMMA NothingIsNoToken ==
  /\ \A t \in Token : t # Nothing
  /\ \A v \in View : v # Nothing
  BY NothingAssumption

\* A new token, or none, is stored: no call is marked as sent with it.
LEMMA ReplaceKeeps ==
  ASSUME SessionsTypeOK, BrowserInv, row' = row, overtaken' = overtaken,
         call' \in [Call -> Calls],
         \A d \in Call : call'[d] = NoCall \/ call'[d] = Replaced(call[d]),
         browser'.token # Nothing => Past(browser'.token),
         browser'.shown # Nothing =>
           browser'.token # Nothing /\ ReadWith(browser'.token, browser'.shown)
  PROVE  BrowserInv'
<1>1. \A d \in Call : ~Current(call'[d])
  <2> TAKE d \in Call
  <2>1. call[d] \in Calls
    BY DEF SessionsTypeOK
  <2> QED
    BY <2>1, ReplacedTyped DEF Current, TokenOps, AnswerOps, NoCall
<1>2. \A d \in Call :
        /\ call'[d].op \in TokenOps => Past(call'[d].with)
        /\ call'[d].op = "entered" =>
             Past(call'[d].token) /\ ReadWith(call'[d].token, call'[d].view)
        /\ call'[d].op \in AnswerOps /\ call'[d].view # Nothing =>
             ReadWith(call'[d].with, call'[d].view)
  <2> TAKE d \in Call
  <2>1. call[d] \in Calls
    BY DEF SessionsTypeOK
  <2>2. CASE call'[d] = NoCall
    BY <2>2 DEF NoCall, TokenOps, AnswerOps
  <2>3. CASE call'[d] = Replaced(call[d])
    BY <2>1, <2>3, ReplacedTyped DEF BrowserInv, TokensPast, ViewsRead, TokenOps, AnswerOps
  <2> QED
    BY <2>2, <2>3
<1>3. CurrentStored' /\ BootAlone'
  BY <1>1 DEF CurrentStored, BootAlone, Current
<1>4. TokensPast' /\ ViewsRead'
  BY <1>2 DEF TokensPast, ViewsRead, Past, ReadWith
<1> QED
  BY <1>3, <1>4 DEF BrowserInv

LEMMA EnterKeeps ==
  ASSUME SessionsTypeOK, BrowserInv, (\E c \in Call : Enter(c)) \/ Logout
  PROVE  BrowserInv'
<1>1. CASE \E c \in Call : Enter(c)
  <2>1. PICK c \in Call : Enter(c)
    BY <1>1
  <2>2. call[c].token \in Token /\ call[c].view \in View
    BY <2>1, CallParts DEF Enter, SessionsTypeOK
  <2>3. Past(call[c].token) /\ ReadWith(call[c].token, call[c].view)
    BY <2>1 DEF Enter, BrowserInv, TokensPast, ViewsRead
  <2>4. call' \in [Call -> Calls]
    BY <2>1, ReplacedTyped, CallKinds DEF Enter, SessionsTypeOK
  <2>5. \A d \in Call : call'[d] = NoCall \/ call'[d] = Replaced(call[d])
    BY <2>1 DEF Enter
  <2>6. browser'.token = call[c].token /\ browser'.shown = call[c].view
    BY <2>1 DEF Enter
  <2> QED
    BY <2>1, <2>2, <2>3, <2>4, <2>5, <2>6, NothingIsNoToken, ReplaceKeeps DEF Enter
<1>2. CASE Logout
  <2>1. call' \in [Call -> Calls]
    BY <1>2, ReplacedTyped DEF Logout, SessionsTypeOK
  <2>2. \A d \in Call : call'[d] = NoCall \/ call'[d] = Replaced(call[d])
    BY <1>2 DEF Logout
  <2>3. browser'.token = Nothing /\ browser'.shown = Nothing
    BY <1>2 DEF Logout
  <2> QED
    BY <1>2, <2>1, <2>2, <2>3, ReplaceKeeps DEF Logout
<1> QED
  BY <1>1, <1>2

LEMMA AbandonedIsSilent ==
  ASSUME NEW d \in Calls
  PROVE  Silent(Abandoned(d)) /\ Abandoned(d).op \notin TokenOps \cup {"entered"}
<1>1. CASE d.op = "changing"
  BY <1>1, CallShape DEF Abandoned, ChangingCall, Silent, TokenOps, AnswerOps
<1>2. CASE d.op = "verifying"
  BY <1>2, CallShape DEF Abandoned, VerifyingCall, Silent, TokenOps, AnswerOps
<1>3. CASE d.op \notin {"changing", "verifying"}
  BY <1>3 DEF Abandoned, NoCall, Silent, TokenOps, AnswerOps
<1> QED
  BY <1>1, <1>2, <1>3

LEMMA ReloadKeeps ==
  ASSUME SessionsTypeOK, BrowserInv, NEW c \in Call, Reload(c)
  PROVE  BrowserInv'
<1>1. browser'.token = browser.token /\ browser'.shown = Nothing /\ row' = row
  BY DEF Reload, SessionsTypeOK
<1>2. \A d \in Call : \/ d = c /\ browser.token # Nothing /\ call'[d] = Sent("boot")
                      \/ Silent(call'[d]) /\ call'[d].op \notin TokenOps \cup {"entered"}
  BY AbandonedIsSilent DEF Reload, SessionsTypeOK
<1>3. Sent("boot").op = "boot" /\ Sent("boot").with = browser.token
  BY DEF Sent
<1>4. browser.token # Nothing => Past(browser.token)
  BY DEF BrowserInv, TokensPast
<1>5. CurrentStored'
  BY <1>1, <1>2, <1>3 DEF CurrentStored, Current
<1>6. BootAlone'
  BY <1>1, <1>2, <1>3 DEF BootAlone, Current
<1>7. \A d \in Call : /\ call'[d].op \in TokenOps => Past(call'[d].with)
                      /\ call'[d].op # "entered" /\ call'[d].op \notin AnswerOps
  BY <1>2, <1>3, <1>4 DEF TokenOps, AnswerOps
<1>8. TokensPast' /\ ViewsRead'
  BY <1>1, <1>4, <1>7 DEF TokensPast, ViewsRead, Past
<1> QED
  BY <1>5, <1>6, <1>8 DEF BrowserInv

\* An answer is taken out of the calls and shown, or the token is forgotten.
LEMMA TakenKeeps ==
  ASSUME SessionsTypeOK, BrowserInv, row' = row, NEW c \in Call, Become(c, NoCall),
         browser'.token # Nothing => browser'.token = browser.token,
         \A d \in Call : d # c /\ Current(call[d]) => browser'.token = browser.token,
         \A d \in Call : d # c => ~BootCurrent(call[d]),
         browser'.shown # Nothing /\ ~overtaken' =>
           browser'.token # Nothing /\ ReadWith(browser'.token, browser'.shown)
  PROVE  BrowserInv'
<1>1. \A d \in Call : call'[d] = IF d = c THEN NoCall ELSE call[d]
  BY DEF Become, SessionsTypeOK
<1>2. NoCall.op \notin TokenOps \cup AnswerOps \cup {"entered"}
  BY DEF NoCall, TokenOps, AnswerOps
<1>3. CurrentStored'
  BY <1>1, <1>2 DEF CurrentStored, Current, BrowserInv
<1>4. BootAlone'
  BY <1>1, <1>2 DEF BootAlone, BootCurrent, Current
<1>5. TokensPast'
  BY <1>1, <1>2 DEF TokensPast, Past, BrowserInv
<1>6. ViewsRead'
  BY <1>1, <1>2 DEF ViewsRead, ReadWith, BrowserInv
<1> QED
  BY <1>3, <1>4, <1>5, <1>6 DEF BrowserInv

LEMMA BootKeeps ==
  ASSUME SessionsTypeOK, BrowserInv, NEW c \in Call, Boot(c)
  PROVE  BrowserInv'
<1>1. call[c].with \in Token /\ call[c].stored \in BOOLEAN /\ call[c].view \in View \cup {Nothing}
  BY CallParts DEF Boot, AnswerOps, TokenOps, SessionsTypeOK
<1>2. row' = row /\ overtaken' = overtaken /\ Become(c, NoCall)
  BY DEF Boot
<1>3. CASE ~call[c].stored
  <2>1. browser' = browser
    BY <1>3 DEF Boot, StillStored
  <2> QED
    BY <1>2, <2>1, NoCallFits, SameRowsForward, BecomeKeeps
<1>4. CASE call[c].stored
  <2>1. BootCurrent(call[c]) /\ call[c].with = browser.token
    BY <1>4 DEF Boot, BootCurrent, Current, TokenOps, AnswerOps, BrowserInv, CurrentStored
  <2>2. browser.shown = Nothing /\ \A d \in Call : d # c => Silent(call[d])
    BY <2>1 DEF BrowserInv, BootAlone, BootCurrent
  <2>3. \A d \in Call : d # c => ~Current(call[d]) /\ ~BootCurrent(call[d])
    BY <2>2 DEF Silent, Current, BootCurrent
  <2>4. CASE call[c].view = Nothing
    <3>1. browser'.token = Nothing /\ browser'.shown = Nothing
      BY <1>4, <2>2, <2>4 DEF Boot, StillStored, SessionsTypeOK
    <3> QED
      BY <1>2, <2>3, <3>1, TakenKeeps
  <2>5. CASE call[c].view # Nothing
    <3>1. browser'.token = browser.token /\ browser'.shown = call[c].view
      BY <1>4, <2>5 DEF Boot, StillStored, SessionsTypeOK
    <3>2. ReadWith(call[c].with, call[c].view)
      BY <2>5 DEF Boot, AnswerOps, BrowserInv, ViewsRead
    <3> QED
      BY <1>1, <1>2, <2>1, <2>3, <3>1, <3>2, NothingIsNoToken, TakenKeeps
  <2> QED
    BY <2>4, <2>5
<1> QED
  BY <1>1, <1>3, <1>4

LEMMA RefreshKeeps ==
  ASSUME SessionsTypeOK, BrowserInv, NEW c \in Call, Refresh(c)
  PROVE  BrowserInv'
<1>1. call[c].with \in Token /\ call[c].stored \in BOOLEAN /\ call[c].view \in View \cup {Nothing}
  BY CallParts DEF Refresh, AnswerOps, TokenOps, SessionsTypeOK
<1>2. row' = row /\ Become(c, NoCall) /\ overtaken \in BOOLEAN
  BY DEF Refresh, SessionsTypeOK
<1>3. \A d \in Call : d # c => ~BootCurrent(call[d])
  BY LoudExcludesBoot DEF Refresh, Silent, TokenOps, AnswerOps
<1>4. CASE call[c].view = Nothing
  <2>1. browser' = browser /\ overtaken' = overtaken
    BY <1>2, <1>4 DEF Refresh
  <2> QED
    BY <1>2, <2>1, NoCallFits, SameRowsForward, BecomeKeeps
<1>5. CASE call[c].view # Nothing
  <2>1. browser'.token = browser.token /\ browser'.shown = call[c].view
    BY <1>5 DEF Refresh, SessionsTypeOK
  <2>2. ~overtaken' => call[c].stored
    BY <1>5 DEF Refresh
  <2>3. call[c].stored => call[c].with = browser.token
    BY DEF Refresh, Current, TokenOps, AnswerOps, BrowserInv, CurrentStored
  <2>4. ReadWith(call[c].with, call[c].view)
    BY <1>5 DEF Refresh, AnswerOps, BrowserInv, ViewsRead
  <2> QED
    BY <1>1, <1>2, <1>3, <2>1, <2>2, <2>3, <2>4, NothingIsNoToken, TakenKeeps
<1> QED
  BY <1>4, <1>5

LEMMA BrowserStep ==
  SessionsTypeOK /\ RowsEven /\ BrowserInv /\ [SessionsNext]_sessionsVars => BrowserInv'
<1> SUFFICES ASSUME SessionsTypeOK, RowsEven, BrowserInv, [SessionsNext]_sessionsVars
             PROVE BrowserInv'
  OBVIOUS
<1>1. ASSUME row' = row, call' = call, overtaken' = overtaken,
             browser'.token = browser.token, browser'.shown = browser.shown
      PROVE BrowserInv'
  BY <1>1 DEF BrowserInv, CurrentStored, BootAlone, TokensPast, ViewsRead, Past, ReadWith, Current,
              Silent
<1>2. CASE Connect
  BY <1>1, <1>2 DEF Connect, SessionsTypeOK
<1>3. ASSUME NEW l \in Link, Expire(l) PROVE BrowserInv'
  BY <1>1, <1>3 DEF Expire
<1>4. CASE UNCHANGED sessionsVars
  BY <1>1, <1>4 DEF sessionsVars
<1>5. ASSUME NEW c \in Call,
             \/ Send(c) \/ Login(c) \/ CheckPassword(c) \/ ChangePassword(c) \/ Me(c)
             \/ DropLinks(c) \/ SendLink(c) \/ FindLink(c) \/ ConfirmAddress(c)
             \/ Enter(c) \/ Reload(c) \/ Boot(c) \/ Refresh(c)
      PROVE BrowserInv'
  BY <1>5, SendKeeps, AnswersKeep, ChangeKeeps, LinkCallsKeep, ConfirmKeeps, EnterKeeps,
     ReloadKeeps, BootKeeps, RefreshKeeps
<1> QED
  BY <1>2, <1>3, <1>4, <1>5, EnterKeeps DEF SessionsNext

LEMMA BrowserInductive == SessionsSpec => []BrowserInv
<1>1. SessionsInv => SessionsTypeOK /\ RowsEven
  BY DEF SessionsInv
<1> QED
  BY <1>1, BrowserInit, BrowserStep, SessionsInductive, PTL DEF SessionsSpec

(***************************************************************************)
(* The user on the screen is the owner of the stored token, unless a       *)
(* refreshUser() was answered after the token had been replaced: neither   *)
(* the first request after a reload, nor a login, nor a call sent with an  *)
(* earlier token breaks it, for any number of accounts and calls.          *)
(***************************************************************************)
THEOREM ScreenFollowsToken == SessionsSpec => []ShownOwnsToken
<1>1. BrowserInv => ShownOwnsToken
  BY DEF BrowserInv, ViewsRead, ReadWith, ShownOwnsToken
<1> QED
  BY <1>1, BrowserInductive, PTL

(***************************************************************************)
(* A tab that still asks for a new password when the server no longer does *)
(* keeps a token the server refuses: refreshUser() after changePassword()  *)
(* is sent with that token, so only a reload leads out of the page.        *)
(***************************************************************************)
THEOREM StuckOnlyWhenDead == SessionsSpec => []StuckGateHasDeadToken
<1>1. SessionsTypeOK /\ BrowserInv => StuckGateHasDeadToken
  <2> SUFFICES ASSUME SessionsTypeOK, BrowserInv,
                      browser.shown # Nothing, ~overtaken, browser.shown.must,
                      ~row[browser.shown.of].must
               PROVE  ~Accepted(browser.token)
    BY DEF StuckGateHasDeadToken
  <2>1. browser.token \in Token /\ ReadWith(browser.token, browser.shown)
    BY DEF BrowserInv, ViewsRead, SessionsTypeOK
  <2>2. browser.token.ver < row[browser.token.of].ver
    BY <2>1 DEF ReadWith
  <2>3. browser.token.ver \in Int /\ browser.token.of \in Person
    BY <2>1, SessionsAssumption DEF Token
  <2>4. row[browser.token.of].ver \in Int
    BY <2>3, SessionsAssumption DEF SessionsTypeOK, Row
  <2> QED
    BY <2>2, <2>3, <2>4 DEF Accepted
<1>2. SessionsInv => SessionsTypeOK
  BY DEF SessionsInv
<1> QED
  BY <1>1, <1>2, BrowserInductive, SessionsInductive, PTL

-----------------------------------------------------------------------------
(***************************************************************************)
(* The two modules side by side.                                           *)
(***************************************************************************)

\* A behaviour of MCPeople is one of each module: what TLC checks of the two together the
\* theorems of each module state for any values of its constants.
THEOREM PeopleAreEach == PeopleSpec => AccountsSpec /\ SessionsSpec
<1>1. PeopleInit => AccountsInit /\ SessionsInit
  BY DEF PeopleInit, AccountsRest, SessionsRest
<1>2. [PeopleNext]_<<part, accountsVars, sessionsVars>>
      => [AccountsNext]_accountsVars /\ [SessionsNext]_sessionsVars
  BY DEF PeopleNext
<1> QED
  BY <1>1, <1>2, PTL DEF PeopleSpec, AccountsSpec, SessionsSpec

\* All that MCPeople runs keeps its types: rows, tasks, tokens, links and calls.
THEOREM PeopleTyped == PeopleSpec => []PeopleTypeOK
<1>1. AccountsTypeOK /\ SessionsTypeOK => PeopleTypeOK
  BY DEF PeopleTypeOK
<1> QED
  BY <1>1, PeopleAreEach, AccountsTyped, SessionsTyped, PTL

=============================================================================

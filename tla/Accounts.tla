------------------------------ MODULE Accounts ------------------------------
(***************************************************************************)
(* Roles, suspensions and deletion of accounts: the administrator's side   *)
(* of UsersService, as the routes of AdminController and UsersController   *)
(* reach it.                                                               *)
(*                                                                         *)
(* A request is checked twice on two readings: the guards read the row of  *)
(* the account that sends it, the service then reads the row of its target *)
(* and, before it takes ADMIN away, counts the administrators.  The write  *)
(* comes last and has no condition but that the row exists.                *)
(***************************************************************************)
EXTENDS Naturals, FiniteSets

CONSTANTS
  User,     \* rows of the table users; a deleted row does not come back
  Role,     \* the roles in use
  Request   \* requests in progress at the same time

ASSUME RoleAssumption == {"USER", "TEACHER", "ADMIN"} \subseteq Role
ASSUME UserAssumption == IsFiniteSet(User)

VARIABLES
  account,   \* the rows
  request,   \* what each request is doing, on which reading
  outdated   \* history: the accounts written by a request on an outdated reading

accountsVars == <<account, request, outdated>>

Account == [exists : BOOLEAN, role : Role, banned : BOOLEAN, root : BOOLEAN]

\* teacher: the guards read TEACHER for the sender; own: the sender is the target;
\* counted: ADMIN is being taken away; stale: what was read is no longer true.
Task == [pc : {"read", "count", "write"}, op : {"ban", "unban", "role", "delete"},
         teacher : BOOLEAN, own : BOOLEAN, target : User, to : Role,
         counted : BOOLEAN, stale : BOOLEAN]

Idle == [pc |-> "idle"]

AccountsTypeOK ==
  /\ account \in [User -> Account]
  /\ request \in [Request -> Task \cup {Idle}]
  /\ outdated \in SUBSET User

Admins == {u \in User : account[u].exists /\ account[u].role = "ADMIN"}

\* Some administrator, none of them suspended, and at most one row that carries
\* isRootAdmin (the migration marks an administrator, or nobody where there is none).
AccountsInit ==
  /\ account \in [User -> Account]
  /\ Admins # {}
  /\ \A u \in User :
       /\ account[u].exists
       /\ account[u].role = "ADMIN" => ~account[u].banned
       /\ account[u].root => u \in Admins
       /\ \A v \in User : account[u].root /\ account[v].root => u = v
  /\ request = [r \in Request |-> Idle]
  /\ outdated = {}

-----------------------------------------------------------------------------
(* A request arrives: JwtStrategy, RolesGuard, and the role kept for later. *)

Permitted(op, role, own) ==
  CASE op \in {"ban", "unban"} -> role \in {"ADMIN", "TEACHER"}
    [] op = "role" -> role = "ADMIN"
    [] op = "delete" -> role = "ADMIN" \/ own

Arrive(r) ==
  /\ request[r] = Idle
  /\ \E by, target \in User, op \in {"ban", "unban", "role", "delete"}, to \in Role :
       /\ account[by].exists /\ ~account[by].banned
       /\ Permitted(op, account[by].role, by = target)
       /\ op # "role" => to = "USER"
       /\ request' = [request EXCEPT ![r] =
                        [pc |-> "read", op |-> op, teacher |-> account[by].role = "TEACHER",
                         own |-> by = target, target |-> target, to |-> to,
                         counted |-> FALSE, stale |-> FALSE]]
  /\ UNCHANGED <<account, outdated>>

Admits_BanAnyone(t) ==
  LET row == account[t.target] IN
  /\ row.exists
  /\ CASE t.op = "ban" -> ~(t.teacher /\ row.role = "TEACHER")
       [] t.op = "unban" -> ~(t.teacher /\ row.role \in {"TEACHER", "ADMIN"})
       [] t.op = "role" -> /\ row.role # t.to
                           /\ row.role = "ADMIN" => ~row.root /\ ~t.own
                           /\ t.to # "USER" => ~row.banned
       [] OTHER -> row.role # "ADMIN"

\* What the service demands of the row it reads; a role that is there already is no write.
Admits(t) ==
  LET row == account[t.target] IN
  /\ row.exists
  /\ CASE t.op = "ban" -> row.role # "ADMIN" /\ ~(t.teacher /\ row.role = "TEACHER")
       [] t.op = "unban" -> ~(t.teacher /\ row.role \in {"TEACHER", "ADMIN"})
       [] t.op = "role" -> /\ row.role # t.to
                           /\ row.role = "ADMIN" => ~row.root /\ ~t.own
                           /\ t.to # "USER" => ~row.banned
       [] OTHER -> row.role # "ADMIN"

Read(r) ==
  /\ request[r].pc = "read"
  /\ LET t == request[r]
         demotion == t.op = "role" /\ account[t.target].role = "ADMIN"
     IN request' = [request EXCEPT ![r] =
          IF Admits(t) THEN [t EXCEPT !.pc = IF demotion THEN "count" ELSE "write",
                                      !.counted = demotion]
          ELSE Idle]
  /\ UNCHANGED <<account, outdated>>

Spare_OffByOne == Cardinality(Admins) > 0

Spare == Cardinality(Admins) > 1

\* setRole(): the last administrator stays.
Count(r) ==
  /\ request[r].pc = "count"
  /\ request' = [request EXCEPT ![r] = IF Spare THEN [@ EXCEPT !.pc = "write"] ELSE Idle]
  /\ UNCHANGED <<account, outdated>>

-----------------------------------------------------------------------------
(* The write, which makes what the others have read about this row, and    *)
(* what they have counted, outdated.                                       *)

Written(t, row) ==
  CASE t.op = "ban" -> [row EXCEPT !.banned = TRUE]
    [] t.op = "unban" -> [row EXCEPT !.banned = FALSE]
    [] t.op = "role" -> [row EXCEPT !.role = t.to]
    [] OTHER -> [row EXCEPT !.exists = FALSE, !.role = "USER", !.banned = FALSE]

Outdates(t, other) ==
  /\ other # Idle
  /\ other.pc # "read"
  /\ \/ other.target = t.target
     \/ other.counted /\ t.target \in Admins /\ t.op \in {"role", "delete"}

Write(r) ==
  /\ request[r].pc = "write"
  /\ LET t == request[r] IN
     /\ account[t.target].exists
     /\ account' = [account EXCEPT ![t.target] = Written(t, @)]
     /\ request' = [q \in Request |->
                      IF q = r THEN Idle
                      ELSE IF Outdates(t, request[q]) THEN [request[q] EXCEPT !.stale = TRUE]
                      ELSE request[q]]
     /\ outdated' = IF t.stale THEN outdated \cup {t.target} ELSE outdated

\* The row is gone (the update fails), or purgeAccount() finds problems, contests,
\* classes or notices of this account, at its counts or by a foreign key.
Fails(r) ==
  /\ request[r].pc = "write"
  /\ request[r].op = "delete" \/ ~account[request[r].target].exists
  /\ request' = [request EXCEPT ![r] = Idle]
  /\ UNCHANGED <<account, outdated>>

AccountsNext == \E r \in Request : Arrive(r) \/ Read(r) \/ Count(r) \/ Write(r) \/ Fails(r)

AccountsSpec == AccountsInit /\ [][AccountsNext]_accountsVars

-----------------------------------------------------------------------------
(* Properties.                                                             *)

\* The root administrator is never suspended, demoted or deleted, whatever requests
\* overlap: no guard that protects it depends on a column that a request can change.
RootStays ==
  \A u \in User : account[u].root =>
    account[u].exists /\ account[u].role = "ADMIN" /\ ~account[u].banned

\* ban() refuses an administrator and setRole() refuses a suspended account: an account
\* is both only where one of the two was written on a reading the other had outdated.
SuspendedOrAdmin ==
  \A u \in User \ outdated : ~(account[u].role = "ADMIN" /\ account[u].banned)

\* Demotions and deletions leave an administrator, unless requests acted on an
\* outdated count or row: then there may be none, and no route creates one.
AdminRemains == outdated = {} => Admins # {}

\* setRole() and deletion protect the last administrator: as the code states it,
\* with no exception for requests that overlap.
NeverLockedOut == Admins # {}
=============================================================================

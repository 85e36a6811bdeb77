------------------------------ MODULE MCPeople ------------------------------
(* Accounts and Sessions, which share no state here, checked side by side: a   *)
(* behaviour is one of the one or one of the other.                          *)
EXTENDS Accounts, Sessions, TLC

VARIABLE part

\* Request and Call are the same model values, so one permutation serves both.
PeopleSymmetry == Permutations(User) \cup Permutations(Request) \cup Permutations(Person)

AccountsRest ==
  AccountsInit /\ \A u \in User : account[u] = [exists |-> TRUE, role |-> "ADMIN",
                                                banned |-> FALSE, root |-> FALSE]
SessionsRest == SessionsInit /\ \A p \in Person : row[p].must

PeopleInit ==
  \/ part = "accounts" /\ AccountsInit /\ SessionsRest
  \/ part = "sessions" /\ SessionsInit /\ AccountsRest

PeopleNext ==
  \/ part = "accounts" /\ AccountsNext /\ UNCHANGED <<part, sessionsVars>>
  \/ part = "sessions" /\ SessionsNext /\ UNCHANGED <<part, accountsVars>>

PeopleSpec == PeopleInit /\ [][PeopleNext]_<<part, accountsVars, sessionsVars>>

\* The variables of both modules have their types.
PeopleTypeOK == AccountsTypeOK /\ SessionsTypeOK
=============================================================================

-------------------------- MODULE CustomerAccount --------------------------
(***************************************************************************)
(* LoyaltyService together with UsersService: both write the customer's    *)
(* row.  A handler of UsersService (updateProfile, adminUpdate,            *)
(* adminResetCustomerPassword, ...) loads the whole row, works on it, and  *)
(* saves the entity: save() writes every column in which the entity        *)
(* differs from the row, the balance of points included.                   *)
(***************************************************************************)
EXTENDS Loyalty

CONSTANTS
  Editors,    \* the profile requests served at the same time
  MaxEdits    \* bound: the profile requests served in all

VARIABLES
  editing,    \* [Editors -> Customers \cup {None}]  whose row an editor has loaded
  held,       \* [Editors -> Int]                    the balance in the loaded entity
  edits       \* the profile requests begun so far

accountVars == <<vars, editing, held, edits>>

AccountInit ==
  /\ Init
  /\ editing = [e \in Editors |-> None]
  /\ held = [e \in Editors |-> 0]
  /\ edits = 0

\* findOne, before the new password is hashed or the form copied.
LoadCustomer(e, c) ==
  /\ editing[e] = None /\ edits < MaxEdits /\ edits' = edits + 1
  /\ editing' = [editing EXCEPT ![e] = c]
  /\ held' = [held EXCEPT ![e] = points[c]]
  /\ UNCHANGED vars

\* customerRepo.save: the loaded balance is written back with the rest.
SaveCustomer(e) ==
  /\ editing[e] # None
  /\ points' = [points EXCEPT ![editing[e]] = held[e]]
  /\ editing' = [editing EXCEPT ![e] = None]
  /\ held' = [held EXCEPT ![e] = 0]
  /\ UNCHANGED <<ledger, redeemed, given, pc, job, served, edits>>

AccountNext ==
  \/ Next /\ UNCHANGED <<editing, held, edits>>
  \/ \E e \in Editors : SaveCustomer(e) \/ \E c \in Customers : LoadCustomer(e, c)

AccountSpec == AccountInit /\ [][AccountNext]_accountVars

-----------------------------------------------------------------------------
\* Whatever stale balance is written back, no one's points go below zero: the
\* check is made under the row lock, on the balance that is then changed.
NeverInDebt ==
  /\ \A c \in Customers : points[c] >= 0
  /\ \A e \in Editors : held[e] >= 0

\* Each ledger row is right by itself, whatever happened between two of them.
RowsAddUp ==
  \A c \in Customers : \A k \in DOMAIN ledger[c] :
    /\ ledger[c][k].after = ledger[c][k].before + ledger[c][k].amount
    /\ ledger[c][k].before >= 0 /\ ledger[c][k].after >= 0
=============================================================================

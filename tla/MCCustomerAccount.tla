------------------------- MODULE MCCustomerAccount -------------------------
(* Small instances of CustomerAccount for TLC. *)
EXTENDS CustomerAccount, TLC

CONSTANTS c1

MCOwner == [o \in Orders |-> c1]
MCPrice == [i \in Rewards |-> 1]
MCLimit == [i \in Rewards |-> 1]
MCAmounts == {2, -1}
Alike == Permutations(Requests)
=============================================================================

---------------------------- MODULE MCOrderFlow ----------------------------
(* Small instances of OrderFlow for TLC. *)
EXTENDS OrderFlow, TLC

CONSTANTS v1, v2

\* Two lots of one unit and one lot of two: a pick crosses from one lot to the next.
MCLots == [v \in Variants |-> IF v = v1 THEN <<1, 1>> ELSE <<2>>]

MCFlashLimit == [v \in Variants |-> IF v = v1 THEN 1 ELSE 0]
NoGifts == {}
MCGifts == { [v \in Variants |-> IF v = v2 THEN 1 ELSE 0] }
MCSameGift == { [v \in Variants |-> IF v = v1 THEN 1 ELSE 0] }

OrdersAlike == Permutations(Orders)
Alike == OrdersAlike \cup Permutations(Requests)
=============================================================================

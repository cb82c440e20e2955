---------------------------- MODULE MCWarehouse ----------------------------
(* Small instances of Warehouse for TLC. *)
EXTENDS Warehouse, TLC

MCAdjustments == {1, -1}
Alike == Permutations(Receipts)
=============================================================================

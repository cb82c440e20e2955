---------------------------- MODULE OrderPromise ----------------------------
(***************************************************************************)
(* What the shop promises of every order, whatever handlers carry it out:  *)
(* its status moves along the documented arrows only, and the units it     *)
(* reserved leave the reservation once: they are picked from the lots when *)
(* the order is packed, or released when it is cancelled, never both.      *)
(***************************************************************************)
CONSTANTS Orders, Arrows

VARIABLES status, units

Init ==
  /\ status = [o \in Orders |-> "Absent"]
  /\ units = [o \in Orders |-> "none"]

Place(o) ==
  /\ status[o] = "Absent"
  /\ status' = [status EXCEPT ![o] = "ChoTT"]
  /\ units' = [units EXCEPT ![o] = "reserved"]

Moves(o, s) == <<status[o], s>> \in Arrows /\ status' = [status EXCEPT ![o] = s]

Advance(o, s) == s \notin {"DongGoi", "DaHuy"} /\ Moves(o, s) /\ UNCHANGED units

PackOrder(o) ==
  /\ Moves(o, "DongGoi")
  /\ units[o] = "reserved" /\ units' = [units EXCEPT ![o] = "picked"]

Cancel(o) ==
  /\ Moves(o, "DaHuy")
  /\ units[o] = "reserved" /\ units' = [units EXCEPT ![o] = "released"]

Next == \E o \in Orders :
  \/ Place(o) \/ PackOrder(o) \/ Cancel(o)
  \/ \E a \in Arrows : Advance(o, a[2])

Spec == Init /\ [][Next]_<<status, units>>
=============================================================================

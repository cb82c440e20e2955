------------------------------ MODULE FifoLots ------------------------------
(***************************************************************************)
(* What BatchService.deductFromBatches takes from the lots of one variant. *)
(* A lot sequence holds the remaining quantities, oldest lot first.        *)
(***************************************************************************)
EXTENDS Integers, FiniteSetsExt

Smaller(a, b) == IF a <= b THEN a ELSE b

LotTotal(ls) == SumFunctionOnSet(ls, DOMAIN ls)

\* The units in the lots that are older than lot i.
Older(ls, i) == SumFunctionOnSet(ls, {j \in DOMAIN ls : j < i})

\* Mutant of Taken: the Math.min that keeps a lot above zero is forgotten.
TakenUnclipped(ls, need) ==
  [i \in DOMAIN ls |-> IF need <= Older(ls, i) THEN 0 ELSE need - Older(ls, i)]

\* The units taken from each lot when `need` units leave: a lot gives what the
\* older ones could not, up to all it has.  When the lots run out the rest of
\* `need` is dropped without an error.
Taken(ls, need) ==
  [i \in DOMAIN ls |->
     IF need <= Older(ls, i) THEN 0 ELSE Smaller(ls[i], need - Older(ls, i))]

\* Mutant of Deducted: only the first lot is saved.
DeductedFirstOnly(current, seen, need) ==
  [i \in DOMAIN current |->
     IF i = 1 THEN seen[i] - Taken(seen, need)[i] ELSE current[i]]

\* Writing a deduction back: the lots it took from are saved with an absolute
\* value computed from the snapshot `seen`; the others are not written.
Deducted(current, seen, need) ==
  [i \in DOMAIN current |->
     IF i \in DOMAIN seen /\ Taken(seen, need)[i] > 0
       THEN seen[i] - Taken(seen, need)[i] ELSE current[i]]
=============================================================================

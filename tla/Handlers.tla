------------------------------ MODULE Handlers ------------------------------
(***************************************************************************)
(* How the back end serves requests.  A handler awaits the database, and   *)
(* between two awaits other handlers run: it is cut into steps where it    *)
(* reads outside a transaction, where its transaction takes its snapshot,  *)
(* and where a write is committed.  A request occupies a slot; pc says     *)
(* which step of its handler comes next, job what it has read so far.      *)
(***************************************************************************)
EXTENDS Integers, Sequences, FiniteSets

CONSTANTS
  Requests,    \* the slots: the requests that can be under way at the same time
  MaxServed    \* bound: the requests served in all

VARIABLES pc, job, served

handling == <<pc, job, served>>

Begin(r, l, j) ==
  /\ pc[r] = "idle" /\ served < MaxServed /\ served' = served + 1
  /\ pc' = [pc EXCEPT ![r] = l] /\ job' = [job EXCEPT ![r] = j]

Continue(r, l, j) ==
  /\ pc' = [pc EXCEPT ![r] = l] /\ job' = [job EXCEPT ![r] = j]
  /\ UNCHANGED served

Finish(r) ==
  /\ pc' = [pc EXCEPT ![r] = "idle"] /\ job' = [job EXCEPT ![r] = <<>>]
  /\ UNCHANGED served

\* A handler whose reads and write are one statement, or one locked transaction.
AtOnce(r) ==
  /\ pc[r] = "idle" /\ served < MaxServed /\ served' = served + 1
  /\ UNCHANGED <<pc, job>>

\* The client is gone, a write is refused, or the process dies between two steps:
\* what is committed stays.
GiveUp(r) == pc[r] # "idle" /\ Finish(r)

HandlersTypeOK ==
  /\ pc \in [Requests -> STRING]
  /\ served \in 0..MaxServed
  /\ \A r \in Requests : (pc[r] = "idle") = (job[r] = <<>>)
=============================================================================

-------------------------- MODULE WarehouseProofs --------------------------
(***************************************************************************)
(* Theorems about the warehouse, for any numbers of receipts and variants: *)
(* the types of all rows under any interleaving, and what handlers that do *)
(* not overlap do to a receipt and its supplement, to the counter of a     *)
(* variant and to its lots.                                                *)
(***************************************************************************)
EXTENDS Warehouse, SumsProofs

Labels == {"idle", "move", "thresholds", "approve", "approving", "close", "resolve", "pack"}
OnReceipt == {"approve", "approving", "close", "resolve"}

\* An idle request holds nothing.
LEMMA NoJobType == NoJob \in Job /\ NoReceipt \in Receipt /\ NoUnits \in Units
                   /\ NoUnits \in [Variants -> Int]
  BY DEF NoJob, Job, NoReceipt, Receipt, NoUnits, Units

\* save() yields a receipt: each of its columns comes from one of three rows.
LEMMA SavedType ==
  ASSUME NEW current \in Receipt, NEW seen \in Receipt, NEW new \in Receipt
  PROVE  /\ Saved(current, seen, new) \in Receipt
         /\ \A good \in Units : [Saved(current, seen, new) EXCEPT !.good = good] \in Receipt
  BY DEF Saved, Column, Receipt

\* Beginning a request with a job of the right type keeps the types.
LEMMA BeginType ==
  ASSUME RowsTypeOK, NEW r \in Requests, NEW l \in Labels, NEW j \in Job, Begin(r, l, j),
         l \in OnReceipt => j.receipt \in Receipts,
         l \in {"approve", "approving"} => j.delta \in Units,
         stock' \in [Variants -> Int], reserved' \in Units, UNCHANGED <<receipts, intake>>
  PROVE  RowsTypeOK'
<1>1. /\ pc' \in [Requests -> Labels] /\ job' \in [Requests -> Job] /\ served' \in Nat
      /\ pc'[r] = l /\ job'[r] = j
      /\ \A q \in Requests \ {r} : pc'[q] = pc[q] /\ job'[q] = job[q]
  BY DEF Begin, RowsTypeOK, Labels
<1>2. \A q \in Requests : pc'[q] \in OnReceipt => job'[q].receipt \in Receipts
  BY <1>1 DEF RowsTypeOK, OnReceipt
<1>3. \A q \in Requests : pc'[q] \in {"approve", "approving"} => job'[q].delta \in Units
  BY <1>1 DEF RowsTypeOK
<1>4. QED
  BY <1>1, <1>2, <1>3 DEF RowsTypeOK, Labels, OnReceipt

\* Answering a request keeps the types when the rows it writes have theirs.
LEMMA FinishType ==
  ASSUME RowsTypeOK, NEW r \in Requests, Finish(r),
         stock' \in [Variants -> Int], reserved' \in Units,
         receipts' \in [Receipts -> Receipt], intake' \in [Receipts -> Units]
  PROVE  RowsTypeOK'
<1>1. /\ pc' \in [Requests -> Labels] /\ job' \in [Requests -> Job] /\ served' = served
      /\ \A q \in Requests : pc'[q] # "idle" => pc'[q] = pc[q] /\ job'[q] = job[q]
  BY NoJobType DEF Finish, RowsTypeOK, Labels
<1>2. QED
  BY <1>1 DEF RowsTypeOK, Labels

\* The counter that upsertStockLevel writes is an integer.
LEMMA UpsertType ==
  ASSUME RowsTypeOK, NEW r \in Requests, UpsertStockLevel(r)
  PROVE  stock' \in [Variants -> Int]
<1>1. job[r].delta \in [Variants -> Int] /\ job[r].stock \in [Variants -> Int]
  BY DEF RowsTypeOK, Job
<1>2. QED
  BY <1>1 DEF UpsertStockLevel, RowsTypeOK

\* One unit of one variant is a quantity.
LEMMA OneUnitType ==
  ASSUME NEW v \in Variants, NEW n \in Int
  PROVE  [NoUnits EXCEPT ![v] = n] \in [Variants -> Int]
  BY DEF NoUnits

\* What a handler holds of the receipt it has read.
LEMMA HeldReceiptType ==
  ASSUME RowsTypeOK, NEW p \in Receipts, NEW row \in Receipt, NEW delta \in [Variants -> Int]
  PROVE  /\ receipts[p] \in Receipt
         /\ [NoJob EXCEPT !.receipt = p, !.row = row] \in Job
         /\ [NoJob EXCEPT !.receipt = p, !.row = row].receipt = p
         /\ [NoJob EXCEPT !.receipt = p, !.row = row].row = row
         /\ [NoJob EXCEPT !.receipt = p, !.row = row, !.delta = delta] \in Job
         /\ [NoJob EXCEPT !.receipt = p, !.row = row, !.delta = delta].receipt = p
         /\ [NoJob EXCEPT !.receipt = p, !.row = row, !.delta = delta].row = row
         /\ [NoJob EXCEPT !.receipt = p, !.row = row, !.delta = delta].delta = delta
  BY NoJobType DEF RowsTypeOK, Job

\* A move of the stock holds its quantities and the counter it has seen.
LEMMA MoveJobType ==
  ASSUME RowsTypeOK, NEW delta \in [Variants -> Int]
  PROVE  /\ [NoJob EXCEPT !.delta = delta] \in Job
         /\ [NoJob EXCEPT !.delta = delta, !.stock = stock] \in Job
  BY NoJobType DEF RowsTypeOK, Job

\* Approving a receipt writes receipts of the right type.
LEMMA ApproveCommitType ==
  ASSUME RowsTypeOK, NEW r \in Requests, ApproveCommit(r)
  PROVE  receipts' \in [Receipts -> Receipt] /\ intake' \in [Receipts -> Units]
<1> DEFINE p == job[r].receipt
           new == [job[r].row EXCEPT
                     !.status = IF Fulfilled(job[r].row, job[r].delta)
                                THEN "DaDuyet" ELSE "TiepNhanMot"]
           approved == [receipts EXCEPT ![p] =
                          [Saved(@, job[r].seen, new) EXCEPT !.good = job[r].delta]]
<1>1. /\ p \in Receipts /\ job[r].delta \in Units /\ job[r].row \in Receipt
      /\ job[r].seen \in Receipt /\ receipts[p] \in Receipt
  BY DEF ApproveCommit, RowsTypeOK, Job
<1>2. new \in Receipt
  BY <1>1 DEF Receipt, Status
<1>3. [Saved(receipts[p], job[r].seen, new) EXCEPT !.good = job[r].delta] \in Receipt
  BY <1>1, <1>2, SavedType
<1>4. approved \in [Receipts -> Receipt]
  BY <1>1, <1>3 DEF RowsTypeOK
<1>5. receipts' = [q \in Receipts |->
         IF q = job[r].row.prev THEN [approved[q] EXCEPT !.status = "DaDuyet"]
         ELSE approved[q]]
  BY DEF ApproveCommit
<1>6. receipts' \in [Receipts -> Receipt]
  <2> HIDE DEF approved
  <2>1. \A q \in Receipts : approved[q] \in Receipt
                            /\ [approved[q] EXCEPT !.status = "DaDuyet"] \in Receipt
    BY <1>4 DEF Receipt, Status
  <2>2. QED
    BY <1>5, <2>1
<1>7. [v \in Variants |-> intake[p][v] + job[r].delta[v]] \in Units
  BY <1>1 DEF RowsTypeOK, Units
<1>8. QED
  BY <1>1, <1>6, <1>7 DEF ApproveCommit, RowsTypeOK

\* Ordering a supplement writes receipts of the right type.
LEMMA ResolveCommitType ==
  ASSUME RowsTypeOK, NEW r \in Requests, NEW q \in Receipts,
         job[r].receipt \in Receipts, job[r].row \in Receipt
  PROVE  /\ [NoReceipt EXCEPT !.status = "ChoDuyet", !.prev = job[r].receipt,
                              !.expected = Shortfall(job[r].row)] \in Receipt
         /\ [receipts EXCEPT
               ![q] = [NoReceipt EXCEPT !.status = "ChoDuyet", !.prev = job[r].receipt,
                                        !.expected = Shortfall(job[r].row)],
               ![job[r].receipt].next = q] \in [Receipts -> Receipt]
<1> DEFINE p == job[r].receipt
           new == [NoReceipt EXCEPT !.status = "ChoDuyet", !.prev = p,
                                    !.expected = Shortfall(job[r].row)]
           added == [receipts EXCEPT ![q] = new]
<1>1. Shortfall(job[r].row) \in Units
  BY DEF Shortfall, Receipt, Units
<1>2. new \in Receipt
  BY <1>1, NoJobType DEF Receipt, Status
<1>3. added \in [Receipts -> Receipt]
  BY <1>2 DEF RowsTypeOK
<1>4. [added[p] EXCEPT !.next = q] \in Receipt
  <2> HIDE DEF added
  <2>1. QED
    BY <1>3 DEF Receipt
<1>5. [added EXCEPT ![p].next = q] \in [Receipts -> Receipt]
  <2> HIDE DEF added
  <2>1. QED
    BY <1>3, <1>4
<1>6. QED
  BY <1>2, <1>5

\* Every handler keeps the types of the rows.
LEMMA RowsTypeStep ==
  ASSUME RowsTypeOK, [Next]_vars
  PROVE  RowsTypeOK'
<1>1. CASE UNCHANGED vars
  BY <1>1 DEF vars, RowsTypeOK
<1>2. ASSUME NEW p \in Receipts, CreateReceipt(p)
      PROVE  RowsTypeOK'
  <2>1. PICK units \in [Variants -> 0..MaxUnits] \ {NoUnits} :
          receipts' = [receipts EXCEPT ![p] =
            [NoReceipt EXCEPT !.status = "ChoDuyet", !.expected = units]]
    BY <1>2 DEF CreateReceipt
  <2>2. units \in Units
    BY WarehouseConstants DEF Units
  <2>3. [NoReceipt EXCEPT !.status = "ChoDuyet", !.expected = units] \in Receipt
    BY <2>2, NoJobType DEF Receipt, Status
  <2>4. receipts' \in [Receipts -> Receipt]
    BY <2>1, <2>3 DEF RowsTypeOK
  <2>5. QED
    BY <1>2, <2>4 DEF CreateReceipt, RowsTypeOK, books
<1>3. ASSUME NEW r \in Requests, NEW p \in Receipts, ApproveRead(r, p)
      PROVE  RowsTypeOK'
  <2>1. PICK good \in [Variants -> 0..MaxUnits] :
          Begin(r, "approve", [NoJob EXCEPT !.receipt = p, !.row = receipts[p], !.delta = good])
    BY <1>3 DEF ApproveRead
  <2>2. good \in Units /\ good \in [Variants -> Int]
    BY WarehouseConstants DEF Units
  <2>3. receipts[p] \in Receipt
    BY DEF RowsTypeOK
  <2>4. UNCHANGED <<stock, reserved, receipts, intake>>
    BY <1>3 DEF ApproveRead, books
  <2>5. stock' \in [Variants -> Int] /\ reserved' \in Units
    BY <2>4 DEF RowsTypeOK
  <2> DEFINE j == [NoJob EXCEPT !.receipt = p, !.row = receipts[p], !.delta = good]
  <2>6. j \in Job /\ j.receipt = p /\ j.delta = good
    BY <2>2, <2>3, NoJobType DEF Job
  <2>7. Begin(r, "approve", j) /\ "approve" \in Labels
    BY <2>1 DEF Labels
  <2> HIDE DEF j
  <2>8. QED
    BY <2>2, <2>4, <2>5, <2>6, <2>7, BeginType
<1>4. ASSUME NEW r \in Requests, ApproveBegin(r)
      PROVE  RowsTypeOK'
  <2>1. /\ pc[r] = "approve" /\ pc' = [pc EXCEPT ![r] = "approving"]
        /\ job' = [job EXCEPT ![r].seen = receipts[job[r].receipt], ![r].stock = stock]
        /\ UNCHANGED <<stock, reserved, receipts, intake, served>>
    BY <1>4 DEF ApproveBegin, books
  <2>2. job[r] \in Job /\ job[r].receipt \in Receipts /\ job[r].delta \in Units
    BY <2>1 DEF RowsTypeOK
  <2>3. [job[r] EXCEPT !.seen = receipts[job[r].receipt], !.stock = stock] \in Job
    BY <2>2 DEF RowsTypeOK, Job
  <2>4. job' = [job EXCEPT ![r] =
                 [job[r] EXCEPT !.seen = receipts[job[r].receipt], !.stock = stock]]
    BY <2>1, <2>2 DEF RowsTypeOK, Job
  <2>5. /\ job' \in [Requests -> Job]
        /\ \A q \in Requests : job'[q].receipt = job[q].receipt /\ job'[q].delta = job[q].delta
    BY <2>2, <2>3, <2>4 DEF RowsTypeOK, Job
  <2>6. QED
    BY <2>1, <2>2, <2>5 DEF RowsTypeOK
<1>5. ASSUME NEW r \in Requests, ApproveCommit(r)
      PROVE  RowsTypeOK'
  <2>1. Finish(r) /\ UpsertStockLevel(r) /\ UNCHANGED reserved
    BY <1>5 DEF ApproveCommit
  <2>2. reserved' \in Units
    BY <2>1 DEF RowsTypeOK
  <2>3. QED
    BY <1>5, <2>1, <2>2, UpsertType, ApproveCommitType, FinishType
<1>6. ASSUME NEW r \in Requests, NEW p \in Receipts,
             CompleteRead(r, p) \/ RejectRead(r, p) \/ ResolveRead(r, p)
      PROVE  RowsTypeOK'
  <2>1. PICK row \in {[receipts[p] EXCEPT !.status = "DaDuyet"],
                      [receipts[p] EXCEPT !.status = "TuChoi"], receipts[p]},
             l \in {"close", "resolve"} :
          Begin(r, l, [NoJob EXCEPT !.receipt = p, !.row = row])
    BY <1>6 DEF CompleteRead, RejectRead, ResolveRead
  <2>2. row \in Receipt
    <3>1. receipts[p] \in Receipt
      BY DEF RowsTypeOK
    <3>2. QED
      BY <3>1 DEF Receipt, Status
  <2>3. UNCHANGED <<stock, reserved, receipts, intake>>
    BY <1>6 DEF CompleteRead, RejectRead, ResolveRead, books
  <2>4. stock' \in [Variants -> Int] /\ reserved' \in Units
    BY <2>3 DEF RowsTypeOK
  <2>5. [NoJob EXCEPT !.receipt = p, !.row = row] \in Job
        /\ [NoJob EXCEPT !.receipt = p, !.row = row].receipt = p
    BY <2>2, HeldReceiptType, NoJobType
  <2>6. QED
    BY <2>1, <2>3, <2>4, <2>5, BeginType DEF Labels
<1>7. ASSUME NEW r \in Requests, SaveClosed(r)
      PROVE  RowsTypeOK'
  <2>1. job[r].receipt \in Receipts /\ job[r].row \in Receipt
    BY <1>7 DEF SaveClosed, RowsTypeOK, Job
  <2>2. receipts[job[r].receipt] \in Receipt
    BY <2>1 DEF RowsTypeOK
  <2>3. receipts' \in [Receipts -> Receipt]
    BY <1>7, <2>1, <2>2, SavedType DEF SaveClosed, RowsTypeOK
  <2>4. Finish(r) /\ UNCHANGED <<stock, reserved, intake>>
    BY <1>7 DEF SaveClosed, books
  <2>5. /\ stock' \in [Variants -> Int] /\ reserved' \in Units
        /\ intake' \in [Receipts -> Units]
    BY <2>4 DEF RowsTypeOK
  <2>6. QED
    BY <2>3, <2>4, <2>5, FinishType
<1>8. ASSUME NEW r \in Requests, ResolveCommit(r)
      PROVE  RowsTypeOK'
  <2>1. job[r].receipt \in Receipts /\ job[r].row \in Receipt
    BY <1>8 DEF ResolveCommit, RowsTypeOK, Job
  <2>2. PICK q \in Receipts : receipts' = [receipts EXCEPT
            ![q] = [NoReceipt EXCEPT !.status = "ChoDuyet", !.prev = job[r].receipt,
                                     !.expected = Shortfall(job[r].row)],
            ![job[r].receipt].next = q]
    BY <1>8 DEF ResolveCommit
  <2>3. receipts' \in [Receipts -> Receipt]
    BY <2>1, <2>2, ResolveCommitType
  <2>4. Finish(r) /\ UNCHANGED <<stock, reserved, intake>>
    BY <1>8 DEF ResolveCommit, books
  <2>5. /\ stock' \in [Variants -> Int] /\ reserved' \in Units
        /\ intake' \in [Receipts -> Units]
    BY <2>4 DEF RowsTypeOK
  <2>6. QED
    BY <2>3, <2>4, <2>5, FinishType
<1>9. ASSUME NEW r \in Requests, NEW delta \in [Variants -> Int], BeginMove(r, delta)
      PROVE  RowsTypeOK'
  <2>1. Begin(r, "move", [NoJob EXCEPT !.delta = delta, !.stock = stock])
        /\ UNCHANGED <<stock, reserved, receipts, intake>>
    BY <1>9 DEF BeginMove, books
  <2>2. stock' \in [Variants -> Int] /\ reserved' \in Units
    BY <2>1 DEF RowsTypeOK
  <2>3. QED
    BY <2>1, <2>2, MoveJobType, BeginType DEF Labels, OnReceipt
<1>10. ASSUME NEW r \in Requests, CreateExport(r)
       PROVE  RowsTypeOK'
  <2>1. PICK units \in [Variants -> 0..MaxUnits] :
          BeginMove(r, [v \in Variants |-> -units[v]])
    BY <1>10 DEF CreateExport
  <2>2. [v \in Variants |-> -units[v]] \in [Variants -> Int]
    BY WarehouseConstants
  <2>3. QED
    BY <2>1, <2>2, <1>9
<1>11. ASSUME NEW r \in Requests, NEW v \in Variants, NEW n \in Adjustments,
              AdjustStock(r, v, n)
       PROVE  RowsTypeOK'
  <2>1. [NoUnits EXCEPT ![v] = n] \in [Variants -> Int]
    BY WarehouseConstants, OneUnitType
  <2>2. QED
    BY <1>11, <2>1, <1>9 DEF AdjustStock
<1>12. ASSUME NEW r \in Requests, CommitMove(r)
       PROVE  RowsTypeOK'
  <2>1. Finish(r) /\ UpsertStockLevel(r) /\ UNCHANGED <<reserved, receipts, intake>>
    BY <1>12 DEF CommitMove
  <2>2. /\ reserved' \in Units /\ receipts' \in [Receipts -> Receipt]
        /\ intake' \in [Receipts -> Units]
    BY <2>1 DEF RowsTypeOK
  <2>3. QED
    BY <2>1, <2>2, UpsertType, FinishType
<1>13. ASSUME NEW r \in Requests, NEW v \in Variants, ReadThresholds(r, v)
       PROVE  RowsTypeOK'
  <2>1. /\ Begin(r, "thresholds", [NoJob EXCEPT !.delta = [NoUnits EXCEPT ![v] = 1],
                                                !.stock = stock])
        /\ UNCHANGED <<stock, reserved, receipts, intake>>
    BY <1>13 DEF ReadThresholds, books
  <2>2. stock' \in [Variants -> Int] /\ reserved' \in Units
    BY <2>1 DEF RowsTypeOK
  <2>3. [NoUnits EXCEPT ![v] = 1] \in [Variants -> Int]
    BY OneUnitType
  <2>4. QED
    BY <2>1, <2>2, <2>3, MoveJobType, BeginType DEF Labels, OnReceipt
<1>14. ASSUME NEW r \in Requests, SaveThresholds(r)
       PROVE  RowsTypeOK'
  <2>1. job[r].stock \in [Variants -> Int]
    BY DEF RowsTypeOK, Job
  <2>2. stock' \in [Variants -> Int]
    BY <1>14, <2>1 DEF SaveThresholds, RowsTypeOK
  <2>3. Finish(r) /\ UNCHANGED <<reserved, receipts, intake>>
    BY <1>14 DEF SaveThresholds
  <2>4. /\ reserved' \in Units /\ receipts' \in [Receipts -> Receipt]
        /\ intake' \in [Receipts -> Units]
    BY <2>3 DEF RowsTypeOK
  <2>5. QED
    BY <2>2, <2>3, <2>4, FinishType
<1>15. ASSUME NEW r \in Requests, NEW v \in Variants, Reserve(r, v) \/ Release(r, v)
       PROVE  RowsTypeOK'
  <2>1. stock' \in [Variants -> Int] /\ reserved' \in Units
    BY <1>15 DEF Reserve, Release, RowsTypeOK, Units
  <2>2. Begin(r, "idle", NoJob) /\ UNCHANGED <<receipts, intake>>
    BY <1>15 DEF Reserve, Release
  <2>3. QED
    BY <2>1, <2>2, NoJobType, BeginType DEF Labels, OnReceipt
<1>16. ASSUME NEW r \in Requests, NEW v \in Variants, PackBegin(r, v)
       PROVE  RowsTypeOK'
  <2>1. /\ Begin(r, "pack", [NoJob EXCEPT !.delta = [NoUnits EXCEPT ![v] = -1]])
        /\ UNCHANGED <<stock, reserved, receipts, intake>>
    BY <1>16 DEF PackBegin, books
  <2>2. stock' \in [Variants -> Int] /\ reserved' \in Units
    BY <2>1 DEF RowsTypeOK
  <2>3. [NoUnits EXCEPT ![v] = -1] \in [Variants -> Int]
    BY OneUnitType
  <2>4. QED
    BY <2>1, <2>2, <2>3, MoveJobType, BeginType DEF Labels, OnReceipt
<1>17. ASSUME NEW r \in Requests, PackCommit(r)
       PROVE  RowsTypeOK'
  <2>1. job[r].delta \in [Variants -> Int]
    BY DEF RowsTypeOK, Job
  <2>2. reserved' \in Units
    BY <1>17, <2>1 DEF PackCommit, RowsTypeOK, Units
  <2>3. Finish(r) /\ UNCHANGED <<stock, receipts, intake>>
    BY <1>17 DEF PackCommit
  <2>4. /\ stock' \in [Variants -> Int] /\ receipts' \in [Receipts -> Receipt]
        /\ intake' \in [Receipts -> Units]
    BY <2>3 DEF RowsTypeOK
  <2>5. QED
    BY <2>2, <2>3, <2>4, FinishType
<1>18. ASSUME NEW r \in Requests, Abort(r)
       PROVE  RowsTypeOK'
  <2>1. Finish(r) /\ UNCHANGED <<stock, reserved, receipts, intake>>
    BY <1>18 DEF Abort, books
  <2>2. /\ stock' \in [Variants -> Int] /\ receipts' \in [Receipts -> Receipt]
        /\ intake' \in [Receipts -> Units] /\ reserved' \in Units
    BY <2>1 DEF RowsTypeOK
  <2>3. QED
    BY <2>1, <2>2, FinishType
<1>19. QED
  BY <1>1, <1>2, <1>3, <1>4, <1>5, <1>6, <1>7, <1>8, <1>10, <1>11, <1>12, <1>13,
     <1>14, <1>15, <1>16, <1>17, <1>18 DEF Next

\* The database rows are of the right type before the first request.
LEMMA RowsTypeInit == Init => RowsTypeOK
<1> SUFFICES ASSUME Init PROVE RowsTypeOK
  OBVIOUS
<1>1. stock \in [Variants -> Int] /\ reserved \in Units /\ served \in Nat
  BY NoJobType DEF Init
<1>2. receipts \in [Receipts -> Receipt] /\ intake \in [Receipts -> Units]
  BY NoJobType DEF Init
<1>3. pc \in [Requests -> Labels] /\ job \in [Requests -> Job]
      /\ \A r \in Requests : pc[r] = "idle"
  BY NoJobType DEF Init, Labels
<1>4. QED
  BY <1>1, <1>2, <1>3 DEF RowsTypeOK, Labels

\* However handlers interleave, the rows of the warehouse keep their types: a
\* receipt never gets a status outside the four, nor a counted quantity below zero.
THEOREM WarehouseRowsTyped == Spec => []RowsTypeOK
<1>1. Init => RowsTypeOK
  BY RowsTypeInit
<1>2. RowsTypeOK /\ [Next]_vars => RowsTypeOK'
  BY RowsTypeStep
<1>3. QED
  BY <1>1, <1>2, PTL DEF Spec

-----------------------------------------------------------------------------
(* Handlers that do not overlap *)

OneAtATime == \A r, q \in Requests : r = q

\* A supplement was ordered for a receipt that had been received.
SupplementsOfReceived ==
  \A q \in Receipts : receipts[q].prev # None => receipts[receipts[q].prev].status \in Received

\* What a handler holds of a receipt is what the receipt still is.
HeldIsCurrent ==
  \A r \in Requests :
    LET p == job[r].receipt  row == job[r].row IN
    /\ pc[r] \in {"approve", "approving"} => receipts[p].status = "ChoDuyet" /\ row = receipts[p]
    /\ pc[r] = "approving" => job[r].seen = receipts[p]
    /\ pc[r] = "close" =>
         \/ /\ receipts[p].status = "TiepNhanMot" /\ receipts[p].next = None
            /\ row = [receipts[p] EXCEPT !.status = "DaDuyet"]
         \/ /\ receipts[p].status = "ChoDuyet"
            /\ row = [receipts[p] EXCEPT !.status = "TuChoi"]
    /\ pc[r] = "resolve" =>
         /\ receipts[p].status = "TiepNhanMot" /\ receipts[p].next = None
         /\ row = receipts[p]

\* The part of the invariant that speaks of the documents alone.
DocsOK == ReceiptTakenOnce /\ SupplementsOfReceived /\ ShortfallOrdered /\ ClosedBySupplement

DocsInv == RowsTypeOK /\ DocsOK /\ HeldIsCurrent

\* A step that writes no document and leaves no handler holding one.
LEMMA DocsUntouched ==
  ASSUME DocsInv, OneAtATime, NEW r \in Requests, UNCHANGED <<receipts, intake>>, RowsTypeOK',
         pc'[r] \notin OnReceipt
  PROVE  DocsInv'
<1>1. DocsOK'
  BY DEF DocsInv, DocsOK, ReceiptTakenOnce, SupplementsOfReceived, ShortfallOrdered,
         ClosedBySupplement
<1>2. HeldIsCurrent'
  BY DEF OneAtATime, HeldIsCurrent, OnReceipt
<1>3. QED
  BY <1>1, <1>2 DEF DocsInv

\* A step of the one request that only reads a document.
LEMMA DocsRead ==
  ASSUME DocsInv, NEW r \in Requests, UNCHANGED <<receipts, intake>>, RowsTypeOK', HeldIsCurrent'
  PROVE  DocsInv'
  BY DEF DocsInv, DocsOK, ReceiptTakenOnce, SupplementsOfReceived, ShortfallOrdered,
         ClosedBySupplement

\* A receipt that waits for approval has no supplement and has brought nothing in.
LEMMA OpenReceipt ==
  ASSUME DocsInv, NEW p \in Receipts, receipts[p].status \in {"ChoDuyet", "TuChoi", "Absent"}
  PROVE  /\ receipts[p].next = None /\ intake[p] = NoUnits
         /\ \A q \in Receipts : receipts[q].prev # p
<1>1. \A q \in Receipts : receipts[q].prev # p
  BY WarehouseConstants DEF DocsInv, DocsOK, SupplementsOfReceived, Received
<1>2. receipts[p].next \in Receipts \cup {None}
  BY DEF DocsInv, RowsTypeOK, Receipt
<1>3. receipts[p].next = None
  BY <1>1, <1>2 DEF DocsInv, DocsOK, ShortfallOrdered
<1>4. intake[p] = NoUnits
  BY DEF DocsInv, DocsOK, ReceiptTakenOnce, Received
<1>5. QED
  BY <1>1, <1>3, <1>4

\* A new receipt is open, empty and linked to nothing.
LEMMA DocsCreate ==
  ASSUME DocsInv, NEW p \in Receipts, CreateReceipt(p), RowsTypeOK'
  PROVE  DocsInv'
<1>1. PICK units \in [Variants -> 0..MaxUnits] :
        receipts' = [receipts EXCEPT ![p] =
          [NoReceipt EXCEPT !.status = "ChoDuyet", !.expected = units]]
  BY DEF CreateReceipt
<1>2. /\ receipts[p] = NoReceipt /\ receipts[p].status = "Absent"
      /\ receipts'[p].status = "ChoDuyet" /\ receipts'[p].prev = None /\ receipts'[p].next = None
      /\ \A q \in Receipts \ {p} : receipts'[q] = receipts[q]
      /\ intake' = intake /\ pc' = pc /\ job' = job
  BY <1>1 DEF CreateReceipt, NoReceipt, DocsInv, RowsTypeOK, books
<1>3. /\ receipts[p].next = None /\ receipts[p].prev = None /\ intake[p] = NoUnits
      /\ \A q \in Receipts : receipts[q].prev # p /\ receipts[q].next # p
  <2>1. receipts[p].prev = None
    BY <1>2 DEF NoReceipt
  <2>2. \A q \in Receipts : receipts[q].next # p
    BY <2>1, WarehouseConstants DEF DocsInv, DocsOK, ShortfallOrdered
  <2>3. QED
    BY <1>2, <2>1, <2>2, OpenReceipt
<1>4. ReceiptTakenOnce'
  BY <1>2, <1>3 DEF DocsInv, DocsOK, ReceiptTakenOnce, Received
<1>10. \A q \in Receipts : receipts[q].prev \in Receipts \cup {None}
                         /\ receipts[q].next \in Receipts \cup {None}
  BY DEF DocsInv, RowsTypeOK, Receipt
<1>5. SupplementsOfReceived'
  <2> SUFFICES ASSUME NEW q \in Receipts, receipts'[q].prev # None
               PROVE  receipts'[receipts'[q].prev].status \in Received
    BY DEF SupplementsOfReceived
  <2>1. q # p /\ receipts'[q] = receipts[q]
    BY <1>2
  <2>2. receipts[q].prev \in Receipts \ {p}
    BY <1>3, <1>10, <2>1
  <2>3. QED
    BY <1>2, <2>1, <2>2 DEF DocsInv, DocsOK, SupplementsOfReceived
<1>6. ShortfallOrdered'
  BY <1>2, <1>3, WarehouseConstants DEF DocsInv, DocsOK, ShortfallOrdered
<1>7. ClosedBySupplement'
  <2> SUFFICES ASSUME NEW q \in Receipts, receipts'[q].next # None
               PROVE  receipts'[q].status = "DaDuyet"
                        <=> receipts'[receipts'[q].next].status \in Received
    BY DEF ClosedBySupplement
  <2>1. q # p /\ receipts'[q] = receipts[q]
    BY <1>2
  <2>2. receipts[q].next \in Receipts \ {p}
    BY <1>3, <1>10, <2>1
  <2>3. QED
    BY <1>2, <2>1, <2>2 DEF DocsInv, DocsOK, ClosedBySupplement
<1>8. HeldIsCurrent'
  <2>1. \A q \in Requests : pc[q] \in OnReceipt =>
          job[q].receipt \in Receipts /\ receipts[job[q].receipt].status # "Absent"
    BY DEF DocsInv, HeldIsCurrent, RowsTypeOK, OnReceipt
  <2>2. \A q \in Requests : pc[q] \in OnReceipt =>
          receipts'[job[q].receipt] = receipts[job[q].receipt]
    BY <1>2, <2>1
  <2>3. \A q \in Requests : pc'[q] \in OnReceipt =>
          /\ pc[q] \in OnReceipt /\ pc'[q] = pc[q] /\ job'[q] = job[q]
          /\ receipts'[job'[q].receipt] = receipts[job[q].receipt]
    BY <1>2, <2>2
  <2>4. QED
    BY <2>3 DEF DocsInv, HeldIsCurrent, OnReceipt
<1>9. QED
  BY <1>4, <1>5, <1>6, <1>7, <1>8 DEF DocsInv, DocsOK

\* Approving: the receipt is open, hence holds nothing yet; the one it supplements
\* has been received, and being closed changes nothing of what it has brought in.
LEMMA DocsApprove ==
  ASSUME DocsInv, OneAtATime, NEW r \in Requests, ApproveCommit(r), RowsTypeOK'
  PROVE  DocsInv'
<1> DEFINE p == job[r].receipt
           row == job[r].row
           good == job[r].delta
           status == IF Fulfilled(row, good) THEN "DaDuyet" ELSE "TiepNhanMot"
           new == [row EXCEPT !.status = status]
           approved == [receipts EXCEPT ![p] = [Saved(@, job[r].seen, new) EXCEPT !.good = good]]
<1>1. /\ p \in Receipts /\ receipts[p].status = "ChoDuyet" /\ row = receipts[p]
      /\ job[r].seen = receipts[p] /\ receipts[p] \in Receipt /\ good \in Units
  BY DEF ApproveCommit, DocsInv, HeldIsCurrent, RowsTypeOK
<1>2. /\ receipts[p].next = None /\ intake[p] = NoUnits
      /\ \A q \in Receipts : receipts[q].prev # p
  BY <1>1, OpenReceipt
<1>3. /\ approved \in [Receipts -> Receipt]
      /\ approved[p].status = status /\ approved[p].good = good
      /\ approved[p].expected = receipts[p].expected
      /\ approved[p].prev = receipts[p].prev /\ approved[p].next = None
      /\ \A q \in Receipts \ {p} : approved[q] = receipts[q]
  <2>1. new \in Receipt /\ new.status = status /\ new.next = receipts[p].next
    BY <1>1 DEF Receipt, Status
  <2>2. Saved(receipts[p], job[r].seen, new) = [receipts[p] EXCEPT !.status = status]
    BY <1>1, <2>1 DEF Saved, Column, Receipt
  <2>3. [[receipts[p] EXCEPT !.status = status] EXCEPT !.good = good] \in Receipt
    BY <1>1 DEF Receipt, Status
  <2>4. approved = [receipts EXCEPT ![p] =
                     [[receipts[p] EXCEPT !.status = status] EXCEPT !.good = good]]
    BY <1>1, <2>2 DEF DocsInv, RowsTypeOK
  <2> DEFINE filed == [[receipts[p] EXCEPT !.status = status] EXCEPT !.good = good]
  <2>5. /\ filed.status = status /\ filed.good = good /\ filed.expected = receipts[p].expected
        /\ filed.prev = receipts[p].prev /\ filed.next = receipts[p].next
    BY <1>1 DEF Receipt
  <2> HIDE DEF filed, status, good
  <2>6. receipts \in [Receipts -> Receipt] /\ approved = [receipts EXCEPT ![p] = filed]
    BY <2>4 DEF DocsInv, RowsTypeOK, filed
  <2>7. filed \in Receipt
    BY <2>3 DEF filed
  <2> HIDE DEF approved
  <2>8. QED
    BY <1>1, <1>2, <2>5, <2>6, <2>7
<1>4. receipts' = [q \in Receipts |->
         IF q = row.prev THEN [approved[q] EXCEPT !.status = "DaDuyet"] ELSE approved[q]]
  BY DEF ApproveCommit
<1>5. row.prev # p /\ row.prev = receipts[p].prev /\ status \in Received
  BY <1>1, <1>2 DEF Received
<1>6. /\ \A q \in Receipts : /\ receipts'[q].prev = receipts[q].prev
                             /\ receipts'[q].next = receipts[q].next
                             /\ receipts'[q].expected = receipts[q].expected
                             /\ q # p => receipts'[q].good = receipts[q].good
                             /\ q # p /\ q # row.prev => receipts'[q].status = receipts[q].status
      /\ receipts'[p].good = good /\ receipts'[p].status \in Received
      /\ row.prev \in Receipts => receipts'[row.prev].status = "DaDuyet"
  <2> HIDE DEF approved, status, good
  <2>1. \A q \in Receipts : approved[q] \in Receipt
    BY <1>3
  <2>2. QED
    BY <1>1, <1>2, <1>3, <1>4, <1>5, <2>1 DEF Receipt
<1>7. row.prev \in Receipts => receipts[row.prev].status \in Received
  BY <1>1, WarehouseConstants DEF DocsInv, DocsOK, SupplementsOfReceived
<1>8. intake'[p] = good /\ \A q \in Receipts \ {p} : intake'[q] = intake[q]
  <2>1. intake' = [intake EXCEPT ![p] = [v \in Variants |-> intake[p][v] + good[v]]]
    BY DEF ApproveCommit
  <2>2. [v \in Variants |-> intake[p][v] + good[v]] = good
    BY <1>1, <1>2 DEF NoUnits, Units
  <2>3. QED
    BY <1>1, <2>1, <2>2 DEF DocsInv, RowsTypeOK
<1> HIDE DEF p, row, good, status, approved
<1>9. \A q \in Receipts : receipts'[q].status \in Received <=>
                            (q = p \/ receipts[q].status \in Received)
  BY <1>1, <1>6, <1>7 DEF Received
<1>10. ReceiptTakenOnce'
  BY <1>1, <1>6, <1>8, <1>9 DEF DocsInv, DocsOK, ReceiptTakenOnce
<1>11. SupplementsOfReceived'
  <2>1. \A q \in Receipts : receipts[q].prev \in Receipts \cup {None}
    BY DEF DocsInv, RowsTypeOK, Receipt
  <2>2. QED
    BY <1>6, <1>9, <2>1 DEF DocsInv, DocsOK, SupplementsOfReceived
<1>12. ShortfallOrdered'
  <2>1. \A q \in Receipts : receipts[p].next # q
    BY <1>2, WarehouseConstants
  <2>2. QED
    BY <1>6, <2>1 DEF DocsInv, DocsOK, ShortfallOrdered
<1>13. ClosedBySupplement'
  <2> SUFFICES ASSUME NEW q \in Receipts, receipts'[q].next # None
               PROVE  receipts'[q].status = "DaDuyet"
                        <=> receipts'[receipts'[q].next].status \in Received
    BY DEF ClosedBySupplement
  <2>1. /\ receipts'[q].next = receipts[q].next /\ receipts[q].next \in Receipts
        /\ receipts[receipts[q].next].prev = q
    BY <1>6 DEF DocsInv, DocsOK, ShortfallOrdered, RowsTypeOK, Receipt
  <2>2. q # p
    BY <1>2, <2>1, WarehouseConstants
  <2>3. CASE q = row.prev
    <3>1. receipts[q].next = p
      BY <1>1, <1>5, <2>3 DEF DocsInv, DocsOK, ShortfallOrdered
    <3>2. QED
      BY <1>6, <2>1, <2>3, <3>1
  <2>4. CASE q # row.prev
    <3>1. receipts[q].next # p
      BY <1>5, <2>1, <2>4
    <3>2. receipts'[q].status = receipts[q].status
      BY <1>6, <2>2, <2>4
    <3>3. QED
      BY <1>9, <2>1, <3>1, <3>2 DEF DocsInv, DocsOK, ClosedBySupplement
  <2>5. QED
    BY <2>3, <2>4
<1>14. HeldIsCurrent'
  <2>1. pc'[r] = "idle"
    BY DEF ApproveCommit, Finish, DocsInv, RowsTypeOK
  <2>2. QED
    BY <2>1 DEF OneAtATime, HeldIsCurrent
<1>15. QED
  BY <1>10, <1>11, <1>12, <1>13, <1>14 DEF DocsInv, DocsOK

\* Completing or rejecting: only the status changes, and only as it may.
LEMMA DocsClose ==
  ASSUME DocsInv, OneAtATime, NEW r \in Requests, SaveClosed(r), RowsTypeOK'
  PROVE  DocsInv'
<1> DEFINE p == job[r].receipt
           row == job[r].row
<1>1. /\ p \in Receipts /\ receipts[p] \in Receipt
      /\ \/ /\ receipts[p].status = "TiepNhanMot" /\ receipts[p].next = None
            /\ row = [receipts[p] EXCEPT !.status = "DaDuyet"]
         \/ /\ receipts[p].status = "ChoDuyet"
            /\ row = [receipts[p] EXCEPT !.status = "TuChoi"]
  BY DEF SaveClosed, DocsInv, HeldIsCurrent, RowsTypeOK
<1>2. receipts[p].next = None
  BY <1>1, OpenReceipt
<1>3. /\ row.status \in {"DaDuyet", "TuChoi"} /\ row.next = receipts[p].next
      /\ row.status = "DaDuyet" <=> receipts[p].status = "TiepNhanMot"
  BY <1>1 DEF Receipt
<1>4. Saved(receipts[p], receipts[p], row) = [receipts[p] EXCEPT !.status = row.status]
  BY <1>1, <1>3 DEF Saved, Column, Receipt
<1>5. receipts' = [receipts EXCEPT ![p] = [receipts[p] EXCEPT !.status = row.status]]
  BY <1>1, <1>4 DEF SaveClosed, DocsInv, RowsTypeOK
<1>6. /\ \A q \in Receipts : /\ receipts'[q].prev = receipts[q].prev
                             /\ receipts'[q].next = receipts[q].next
                             /\ receipts'[q].expected = receipts[q].expected
                             /\ receipts'[q].good = receipts[q].good
                             /\ q # p => receipts'[q].status = receipts[q].status
      /\ receipts'[p].status = row.status
      /\ intake' = intake
  BY <1>1, <1>5 DEF DocsInv, RowsTypeOK, Receipt, SaveClosed
<1> HIDE DEF p, row
<1>7. \A q \in Receipts : receipts'[q].status \in Received <=> receipts[q].status \in Received
  BY <1>1, <1>3, <1>6 DEF Received
<1>8. \A q \in Receipts : receipts[q].prev \in Receipts \cup {None}
                         /\ receipts[q].next \in Receipts \cup {None}
  BY DEF DocsInv, RowsTypeOK, Receipt
<1>9. ReceiptTakenOnce'
  BY <1>6, <1>7 DEF DocsInv, DocsOK, ReceiptTakenOnce
<1>10. SupplementsOfReceived'
  BY <1>6, <1>7, <1>8 DEF DocsInv, DocsOK, SupplementsOfReceived
<1>11. ShortfallOrdered'
  BY <1>6 DEF DocsInv, DocsOK, ShortfallOrdered
<1>12. ClosedBySupplement'
  BY <1>2, <1>6, <1>7, <1>8 DEF DocsInv, DocsOK, ClosedBySupplement
<1>13. HeldIsCurrent'
  <2>1. pc'[r] = "idle"
    BY DEF SaveClosed, Finish, DocsInv, RowsTypeOK
  <2>2. QED
    BY <2>1 DEF OneAtATime, HeldIsCurrent
<1>14. QED
  BY <1>9, <1>10, <1>11, <1>12, <1>13 DEF DocsInv, DocsOK

\* Ordering a supplement: a fresh receipt and the two links between it and the
\* one it supplements.
LEMMA DocsResolve ==
  ASSUME DocsInv, OneAtATime, NEW r \in Requests, ResolveCommit(r), RowsTypeOK'
  PROVE  DocsInv'
<1> DEFINE p == job[r].receipt
<1>1. /\ p \in Receipts /\ receipts[p] \in Receipt /\ job[r].row = receipts[p]
      /\ receipts[p].status = "TiepNhanMot" /\ receipts[p].next = None
  BY DEF ResolveCommit, DocsInv, HeldIsCurrent, RowsTypeOK
<1>2. PICK q \in Receipts :
        /\ receipts[q] = NoReceipt
        /\ receipts' = [receipts EXCEPT
             ![q] = [NoReceipt EXCEPT !.status = "ChoDuyet", !.prev = p,
                                      !.expected = Shortfall(job[r].row)],
             ![p].next = q]
  BY DEF ResolveCommit
<1>3. /\ p # q /\ receipts[q].status = "Absent" /\ receipts[q].prev = None
      /\ receipts[q].good = NoUnits
  BY <1>1, <1>2 DEF NoReceipt
<1>4. /\ \A x \in Receipts : receipts[x].prev # q /\ receipts[x].next # q
      /\ receipts[q].next = None
      /\ \A x \in Receipts : receipts[x].prev # p
  <2>1. \A x \in Receipts : receipts[x].next # q
    BY <1>3, WarehouseConstants DEF DocsInv, DocsOK, ShortfallOrdered
  <2>2. \A x \in Receipts : receipts[x].prev # p
    BY <1>1, WarehouseConstants DEF DocsInv, DocsOK, ShortfallOrdered
  <2>3. QED
    BY <1>3, <2>1, <2>2, OpenReceipt
<1>5. /\ receipts'[q].status = "ChoDuyet" /\ receipts'[q].prev = p /\ receipts'[q].next = None
      /\ receipts'[q].expected = Shortfall(receipts[p]) /\ receipts'[q].good = NoUnits
  BY <1>1, <1>2, <1>3 DEF DocsInv, RowsTypeOK, NoReceipt
<1>6. /\ receipts'[p].next = q /\ receipts'[p].prev = receipts[p].prev
      /\ receipts'[p].status = "TiepNhanMot" /\ receipts'[p].good = receipts[p].good
      /\ receipts'[p].expected = receipts[p].expected
      /\ \A x \in Receipts \ {p, q} : receipts'[x] = receipts[x]
      /\ intake' = intake
  BY <1>1, <1>2, <1>3 DEF DocsInv, RowsTypeOK, Receipt, ResolveCommit, books
<1>7. \A x \in Receipts : receipts[x].prev \in Receipts \cup {None}
                         /\ receipts[x].next \in Receipts \cup {None}
  BY DEF DocsInv, RowsTypeOK, Receipt
<1> HIDE DEF p
<1>8. \A x \in Receipts : receipts'[x].status \in Received <=> receipts[x].status \in Received
  BY <1>1, <1>3, <1>5, <1>6 DEF Received
<1>9. ReceiptTakenOnce'
  BY <1>1, <1>3, <1>5, <1>6, <1>8 DEF DocsInv, DocsOK, ReceiptTakenOnce, Received
<1>10. SupplementsOfReceived'
  <2> SUFFICES ASSUME NEW x \in Receipts, receipts'[x].prev # None
               PROVE  receipts'[receipts'[x].prev].status \in Received
    BY DEF SupplementsOfReceived
  <2>1. CASE x = q
    BY <1>5, <1>6, <2>1 DEF Received
  <2>2. CASE x # q
    <3>1. receipts'[x].prev = receipts[x].prev /\ receipts[x].prev \in Receipts
      BY <1>6, <1>7, <2>2
    <3>2. receipts[receipts[x].prev].status \in Received
      BY <3>1, WarehouseConstants DEF DocsInv, DocsOK, SupplementsOfReceived
    <3>3. QED
      BY <1>8, <3>1, <3>2
  <2>3. QED
    BY <2>1, <2>2
<1>11. ShortfallOrdered'
  <2> SUFFICES ASSUME NEW x \in Receipts, NEW y \in Receipts
               PROVE  /\ receipts'[y].prev = x <=> receipts'[x].next = y
                      /\ receipts'[x].next = y =>
                           \A v \in Variants : receipts'[y].expected[v] =
                             IF receipts'[x].good[v] >= receipts'[x].expected[v] THEN 0
                             ELSE receipts'[x].expected[v] - receipts'[x].good[v]
    BY DEF ShortfallOrdered
  <2>1. CASE y = q /\ x = p
    <3>1. \A v \in Variants : receipts[p].good[v] \in Nat /\ receipts[p].expected[v] \in Nat
      BY <1>1 DEF Receipt, Units
    <3>2. \A v \in Variants : Shortfall(receipts[p])[v] =
             IF receipts[p].good[v] >= receipts[p].expected[v] THEN 0
             ELSE receipts[p].expected[v] - receipts[p].good[v]
      BY <3>1 DEF Shortfall
    <3>3. QED
      BY <1>5, <1>6, <2>1, <3>2
  <2>2. CASE y = q /\ x # p
    BY <1>3, <1>4, <1>5, <1>6, <2>2, WarehouseConstants
  <2>3. CASE y # q /\ x = p
    BY <1>3, <1>4, <1>6, <2>3
  <2>4. CASE y # q /\ x # p
    <3>1. receipts'[y].prev = receipts[y].prev /\ receipts'[y].expected = receipts[y].expected
      BY <1>6, <2>4
    <3>2. CASE x = q
      BY <1>4, <1>5, <2>4, <3>1, <3>2, WarehouseConstants
    <3>3. CASE x # q
      BY <1>6, <2>4, <3>1, <3>3 DEF DocsInv, DocsOK, ShortfallOrdered
    <3>4. QED
      BY <3>2, <3>3
  <2>5. QED
    BY <2>1, <2>2, <2>3, <2>4
<1>12. ClosedBySupplement'
  <2> SUFFICES ASSUME NEW x \in Receipts, receipts'[x].next # None
               PROVE  receipts'[x].status = "DaDuyet"
                        <=> receipts'[receipts'[x].next].status \in Received
    BY DEF ClosedBySupplement
  <2>1. CASE x = p
    BY <1>5, <1>6, <2>1 DEF Received
  <2>2. CASE x # p
    <3>1. x # q /\ receipts'[x] = receipts[x] /\ receipts[x].next \in Receipts
      BY <1>5, <1>6, <1>7, <2>2
    <3>2. QED
      BY <1>8, <3>1 DEF DocsInv, DocsOK, ClosedBySupplement
  <2>3. QED
    BY <2>1, <2>2
<1>13. HeldIsCurrent'
  <2>1. pc'[r] = "idle"
    BY DEF ResolveCommit, Finish, DocsInv, RowsTypeOK
  <2>2. QED
    BY <2>1 DEF OneAtATime, HeldIsCurrent
<1>14. QED
  BY <1>9, <1>10, <1>11, <1>12, <1>13 DEF DocsInv, DocsOK

\* Reading a receipt, or taking the snapshot of the transaction that approves it.
LEMMA DocsReads ==
  ASSUME DocsInv, OneAtATime, NEW r \in Requests, RowsTypeOK',
         \/ \E p \in Receipts : \/ ApproveRead(r, p) \/ CompleteRead(r, p)
                                \/ RejectRead(r, p) \/ ResolveRead(r, p)
         \/ ApproveBegin(r)
  PROVE  DocsInv'
<1>1. ASSUME NEW p \in Receipts, ApproveRead(r, p)
      PROVE  DocsInv'
  <2>1. PICK good \in [Variants -> 0..MaxUnits] :
          job' = [job EXCEPT ![r] = [NoJob EXCEPT !.receipt = p, !.row = receipts[p],
                                                  !.delta = good]]
    BY <1>1 DEF ApproveRead, Begin
  <2>2. UNCHANGED <<receipts, intake>> /\ pc'[r] = "approve" /\ receipts[p].status = "ChoDuyet"
    BY <1>1 DEF ApproveRead, Begin, DocsInv, RowsTypeOK
  <2>3. job'[r].receipt = p /\ job'[r].row = receipts[p]
    BY <2>1, NoJobType DEF DocsInv, RowsTypeOK, NoJob
  <2>4. HeldIsCurrent'
    BY <2>2, <2>3 DEF OneAtATime, HeldIsCurrent
  <2>5. QED
    BY <2>2, <2>4, DocsRead
<1>2. ASSUME NEW p \in Receipts, CompleteRead(r, p)
      PROVE  DocsInv'
  <2>1. job'[r] = [NoJob EXCEPT !.receipt = p, !.row = [receipts[p] EXCEPT !.status = "DaDuyet"]]
    BY <1>2 DEF CompleteRead, Begin, DocsInv, RowsTypeOK
  <2>2. /\ UNCHANGED <<receipts, intake>> /\ pc'[r] = "close"
        /\ receipts[p].status = "TiepNhanMot" /\ receipts[p].next = None
    BY <1>2 DEF CompleteRead, Begin, DocsInv, RowsTypeOK
  <2>3. job'[r].receipt = p /\ job'[r].row = [receipts[p] EXCEPT !.status = "DaDuyet"]
    BY <2>1 DEF NoJob
  <2>4. HeldIsCurrent'
    BY <2>2, <2>3 DEF OneAtATime, HeldIsCurrent
  <2>5. QED
    BY <2>2, <2>4, DocsRead
<1>3. ASSUME NEW p \in Receipts, RejectRead(r, p)
      PROVE  DocsInv'
  <2>1. job'[r] = [NoJob EXCEPT !.receipt = p, !.row = [receipts[p] EXCEPT !.status = "TuChoi"]]
    BY <1>3 DEF RejectRead, Begin, DocsInv, RowsTypeOK
  <2>2. /\ UNCHANGED <<receipts, intake>> /\ pc'[r] = "close"
        /\ receipts[p].status = "ChoDuyet"
    BY <1>3 DEF RejectRead, Begin, DocsInv, RowsTypeOK
  <2>3. job'[r].receipt = p /\ job'[r].row = [receipts[p] EXCEPT !.status = "TuChoi"]
    BY <2>1 DEF NoJob
  <2>4. HeldIsCurrent'
    BY <2>2, <2>3 DEF OneAtATime, HeldIsCurrent
  <2>5. QED
    BY <2>2, <2>4, DocsRead
<1>4. ASSUME NEW p \in Receipts, ResolveRead(r, p)
      PROVE  DocsInv'
  <2>1. job'[r] = [NoJob EXCEPT !.receipt = p, !.row = receipts[p]]
    BY <1>4 DEF ResolveRead, Begin, DocsInv, RowsTypeOK
  <2>2. /\ UNCHANGED <<receipts, intake>> /\ pc'[r] = "resolve"
        /\ receipts[p].status = "TiepNhanMot" /\ receipts[p].next = None
    BY <1>4 DEF ResolveRead, Begin, DocsInv, RowsTypeOK
  <2>3. job'[r].receipt = p /\ job'[r].row = receipts[p]
    BY <2>1 DEF NoJob
  <2>4. HeldIsCurrent'
    BY <2>2, <2>3 DEF OneAtATime, HeldIsCurrent
  <2>5. QED
    BY <2>2, <2>4, DocsRead
<1>5. CASE ApproveBegin(r)
  <2>1. /\ pc[r] = "approve" /\ pc'[r] = "approving" /\ UNCHANGED <<receipts, intake>>
        /\ job' = [job EXCEPT ![r].seen = receipts[job[r].receipt], ![r].stock = stock]
    BY <1>5 DEF ApproveBegin, DocsInv, RowsTypeOK
  <2>2. /\ job'[r].receipt = job[r].receipt /\ job'[r].row = job[r].row
        /\ job'[r].seen = receipts[job[r].receipt]
    BY <2>1 DEF DocsInv, RowsTypeOK, Job
  <2>3. receipts[job[r].receipt].status = "ChoDuyet" /\ job[r].row = receipts[job[r].receipt]
    BY <2>1 DEF DocsInv, HeldIsCurrent
  <2>4. HeldIsCurrent'
    BY <2>1, <2>2, <2>3 DEF OneAtATime, HeldIsCurrent
  <2>5. QED
    BY <2>1, <2>4, DocsRead
<1>6. QED
  BY <1>1, <1>2, <1>3, <1>4, <1>5

\* Every step of handlers that do not overlap keeps the documents right.
LEMMA DocsStep ==
  ASSUME DocsInv, OneAtATime, [Next]_vars
  PROVE  DocsInv'
<1>1. RowsTypeOK'
  BY RowsTypeStep DEF DocsInv
<1>2. CASE UNCHANGED vars
  BY <1>2 DEF vars, DocsInv, RowsTypeOK, DocsOK, ReceiptTakenOnce, SupplementsOfReceived,
              ShortfallOrdered, ClosedBySupplement, HeldIsCurrent
<1>3. ASSUME NEW p \in Receipts, CreateReceipt(p)
      PROVE  DocsInv'
  BY <1>1, <1>3, DocsCreate
<1>4. ASSUME NEW r \in Requests,
             \/ \E p \in Receipts : \/ ApproveRead(r, p) \/ CompleteRead(r, p)
                                    \/ RejectRead(r, p) \/ ResolveRead(r, p)
             \/ ApproveBegin(r)
      PROVE  DocsInv'
  BY <1>1, <1>4, DocsReads
<1>5. ASSUME NEW r \in Requests, ApproveCommit(r) \/ SaveClosed(r) \/ ResolveCommit(r)
      PROVE  DocsInv'
  BY <1>1, <1>5, DocsApprove, DocsClose, DocsResolve
<1>6. ASSUME NEW r \in Requests,
             \/ CreateExport(r) \/ CommitMove(r) \/ SaveThresholds(r) \/ PackCommit(r)
             \/ Abort(r)
             \/ \E v \in Variants, n \in Adjustments : AdjustStock(r, v, n)
             \/ \E v \in Variants : \/ ReadThresholds(r, v) \/ Reserve(r, v)
                                    \/ Release(r, v) \/ PackBegin(r, v)
      PROVE  DocsInv'
  <2>1. UNCHANGED <<receipts, intake>>
    BY <1>6 DEF CreateExport, BeginMove, CommitMove, SaveThresholds, PackCommit, Abort,
                AdjustStock, ReadThresholds, Reserve, Release, PackBegin
  <2>2. pc' \in {[pc EXCEPT ![r] = l] : l \in {"idle", "move", "thresholds", "pack"}}
    BY <1>6 DEF CreateExport, BeginMove, CommitMove, SaveThresholds, PackCommit, Abort,
                AdjustStock, ReadThresholds, Reserve, Release, PackBegin, Begin, Finish
  <2>3. pc'[r] \notin OnReceipt
    BY <2>2 DEF OnReceipt, DocsInv, RowsTypeOK
  <2>4. QED
    BY <1>1, <2>1, <2>3, DocsUntouched
<1>7. QED
  BY <1>2, <1>3, <1>4, <1>5, <1>6 DEF Next

\* Before the first request there is no document.
LEMMA DocsInit == Init => DocsInv
<1> SUFFICES ASSUME Init PROVE DocsInv
  OBVIOUS
<1>1. RowsTypeOK
  BY RowsTypeInit
<1>2. /\ \A p \in Receipts : /\ receipts[p].status = "Absent" /\ receipts[p].prev = None
                             /\ receipts[p].next = None /\ intake[p] = NoUnits
      /\ \A r \in Requests : pc[r] = "idle"
  BY DEF Init, NoReceipt
<1>3. DocsOK
  BY <1>2, WarehouseConstants DEF DocsOK, ReceiptTakenOnce, Received, SupplementsOfReceived,
     ShortfallOrdered, ClosedBySupplement
<1>4. HeldIsCurrent
  BY <1>2 DEF HeldIsCurrent
<1>5. QED
  BY <1>1, <1>3, <1>4 DEF DocsInv

\* The invariant of the documents, for handlers that do not overlap.
LEMMA DocsInvariant == ASSUME OneAtATime PROVE Spec => []DocsInv
<1>1. Init => DocsInv
  BY DocsInit
<1>2. DocsInv /\ [Next]_vars => DocsInv'
  BY DocsStep
<1>3. QED
  BY <1>1, <1>2, PTL DEF Spec

\* When handlers do not overlap a receipt enters the stock exactly once, with what
\* was counted, and only if it was received: the status check of approve suffices.
THEOREM ReceiptsTakenOnce == ASSUME OneAtATime PROVE Spec => []ReceiptTakenOnce
<1>1. DocsInv => ReceiptTakenOnce
  BY DEF DocsInv, DocsOK
<1>2. QED
  BY <1>1, DocsInvariant, PTL

\* When handlers do not overlap every supplement orders what its predecessor lacks,
\* the two links agree, and no receipt has two supplements.
THEOREM ShortfallsOrdered == ASSUME OneAtATime PROVE Spec => []ShortfallOrdered
<1>1. DocsInv => ShortfallOrdered
  BY DEF DocsInv, DocsOK
<1>2. QED
  BY <1>1, DocsInvariant, PTL

\* When handlers do not overlap a receipt with a supplement is closed when, and only
\* when, the supplement arrives.
THEOREM SupplementsClose == ASSUME OneAtATime PROVE Spec => []ClosedBySupplement
<1>1. DocsInv => ClosedBySupplement
  BY DEF DocsInv, DocsOK
<1>2. QED
  BY <1>1, DocsInvariant, PTL
-----------------------------------------------------------------------------
(* The two books: the counter and the lots *)

LotsTypeOK ==
  /\ lots \in [Variants -> Seq(Nat)]
  /\ snap \in [Requests -> [Variants -> Seq(Nat)]]

\* Taking units from the lots a snapshot shows, or adding one, leaves lots behind,
\* whatever other transactions did to them since.
LEMMA MoveLotsType ==
  ASSUME TypeOK, NEW r \in Requests, MoveLots(r)
  PROVE  lots' \in [Variants -> Seq(Nat)]
<1>1. ASSUME NEW v \in Variants
      PROVE  (IF job[r].delta[v] > 0 THEN Append(lots[v], job[r].delta[v])
              ELSE IF job[r].delta[v] < 0
                THEN Deducted(lots[v], snap[r][v], -job[r].delta[v])
              ELSE lots[v]) \in Seq(Nat)
  <2> DEFINE d == job[r].delta[v]
  <2>1. /\ d \in Int /\ lots[v] \in Seq(Nat) /\ snap[r][v] \in Seq(Nat)
        /\ (d > 0 => d \in Nat) /\ (d < 0 => -d \in Nat)
    BY DEF TypeOK, RowsTypeOK, Job
  <2> HIDE DEF d
  <2>2. (d > 0 => Append(lots[v], d) \in Seq(Nat))
        /\ (d < 0 => Deducted(lots[v], snap[r][v], -d) \in Seq(Nat))
    BY <2>1, AppendTotal, DeductedType
  <2>3. QED
    BY <2>1, <2>2 DEF d
<1>2. QED
  BY <1>1 DEF MoveLots

\* What each step does to the lots and to the snapshots.
LEMMA LotsSteps ==
  ASSUME Next
  PROVE  /\ lots' = lots \/ \E r \in Requests : MoveLots(r)
         /\ \/ snap' = snap
            \/ \E r \in Requests : snap' = [snap EXCEPT ![r] = lots]
            \/ \E r \in Requests : snap' = [snap EXCEPT ![r] = NoLots]
BY DEF Next, CreateReceipt, ApproveRead, CompleteRead, RejectRead, ResolveRead, ApproveBegin,
       ApproveCommit, SaveClosed, ResolveCommit, CreateExport, AdjustStock, BeginMove,
       CommitMove, ReadThresholds, Reserve, Release, PackBegin, SaveThresholds, PackCommit,
       Abort, Finish, books

\* Every handler keeps the types of all variables.
LEMMA TypeStep ==
  ASSUME TypeOK, [Next]_vars
  PROVE  TypeOK'
<1>1. RowsTypeOK'
  BY RowsTypeStep DEF TypeOK
<1>2. LotsTypeOK'
  <2>1. CASE UNCHANGED vars
    BY <2>1 DEF vars, TypeOK, LotsTypeOK
  <2>2. CASE Next
    <3>1. lots' \in [Variants -> Seq(Nat)]
      BY <2>2, LotsSteps, MoveLotsType DEF TypeOK
    <3>2. NoLots \in [Variants -> Seq(Nat)] /\ lots \in [Variants -> Seq(Nat)]
          /\ snap \in [Requests -> [Variants -> Seq(Nat)]]
      BY DEF NoLots, TypeOK
    <3>3. snap' \in [Requests -> [Variants -> Seq(Nat)]]
      BY <2>2, <3>2, LotsSteps
    <3>4. QED
      BY <3>1, <3>3 DEF LotsTypeOK
  <2>3. QED
    BY <2>1, <2>2
<1>3. QED
  BY <1>1, <1>2 DEF TypeOK, LotsTypeOK

\* Before the first request the warehouse is empty.
LEMMA TypeInit == Init => TypeOK
<1> SUFFICES ASSUME Init PROVE TypeOK
  OBVIOUS
<1>1. RowsTypeOK
  BY RowsTypeInit
<1>2. NoLots \in [Variants -> Seq(Nat)]
  BY DEF NoLots
<1>3. QED
  BY <1>1, <1>2 DEF Init, TypeOK

\* All variables keep their types under any interleaving of handlers: a lot never
\* goes below zero, even when two transactions write it from stale snapshots.
THEOREM WarehouseTyped == Spec => []TypeOK
<1>1. TypeOK /\ [Next]_vars => TypeOK'
  BY TypeStep
<1>2. QED
  BY <1>1, TypeInit, PTL DEF Spec

\* What a handler that nothing overlaps holds of the books is what they say, and
\* they cover what it takes out.
SeenIsCurrent ==
  \A r \in Requests :
    /\ pc[r] \in {"move", "approving", "thresholds"} => job[r].stock = stock
    /\ pc[r] \in {"move", "approving", "pack"} => snap[r] = lots
    /\ pc[r] = "move" => \A v \in Variants : stock[v] + job[r].delta[v] >= 0

BooksInv ==
  /\ TypeOK /\ BooksMatch
  /\ \A v \in Variants : stock[v] >= 0
  /\ SeenIsCurrent

\* When the snapshot is current and the lots cover what leaves, the lots change by
\* exactly the quantities moved.
LEMMA MovedTotal ==
  ASSUME TypeOK, NEW r \in Requests, MoveLots(r), snap[r] = lots,
         NEW v \in Variants, LotTotal(lots[v]) + job[r].delta[v] >= 0
  PROVE  LotTotal(lots'[v]) = LotTotal(lots[v]) + job[r].delta[v]
<1> DEFINE d == job[r].delta[v]
           ls == lots[v]
<1>1. d \in Int /\ ls \in Seq(Nat) /\ LotTotal(ls) \in Nat
      /\ (d > 0 => d \in Nat) /\ (d < 0 => -d \in Nat)
  BY LotTotalType DEF TypeOK, RowsTypeOK, Job
<1>2. lots'[v] = IF d > 0 THEN Append(ls, d)
                 ELSE IF d < 0 THEN Deducted(ls, ls, -d) ELSE ls
  BY DEF MoveLots
<1>3. LotTotal(ls) + d >= 0
  OBVIOUS
<1> SUFFICES LotTotal(lots'[v]) = LotTotal(ls) + d
  OBVIOUS
<1> HIDE DEF d, ls
<1>4. CASE d > 0
  BY <1>1, <1>2, <1>4, AppendTotal
<1>5. CASE d < 0
  <2>1. LotTotal(Deducted(ls, ls, -d)) = LotTotal(ls) - Smaller(-d, LotTotal(ls))
    BY <1>1, <1>5, DeductedTotal
  <2>2. Smaller(-d, LotTotal(ls)) = -d
    BY <1>1, <1>3 DEF Smaller
  <2>3. QED
    BY <1>1, <1>2, <1>5, <2>1, <2>2
<1>6. CASE d = 0
  BY <1>1, <1>2, <1>6
<1>7. QED
  BY <1>1, <1>4, <1>5, <1>6

\* A step that leaves the books alone and ends its handler, or begins one that holds
\* what they say, keeps the invariant.
LEMMA BooksRead ==
  ASSUME BooksInv, TypeOK', UNCHANGED books, SeenIsCurrent'
  PROVE  BooksInv'
BY DEF BooksInv, books, BooksMatch

\* When a handler ends and no other runs, nothing is held.
LEMMA NothingHeld ==
  ASSUME OneAtATime, TypeOK, NEW r \in Requests,
         Finish(r) \/ \E l \in {"idle", "approve", "close", "resolve"} : \E j : Begin(r, l, j)
  PROVE  SeenIsCurrent'
<1>1. pc'[r] \in {"idle", "approve", "close", "resolve"}
  BY DEF Finish, Begin, TypeOK, RowsTypeOK
<1>2. QED
  BY <1>1 DEF OneAtATime, SeenIsCurrent

\* The transaction of an export or an adjustment holds what the books say.
LEMMA BooksBeginMove ==
  ASSUME BooksInv, OneAtATime, TypeOK', NEW r \in Requests,
         NEW delta \in [Variants -> Int], BeginMove(r, delta)
  PROVE  BooksInv'
<1>1. /\ UNCHANGED books /\ pc'[r] = "move" /\ snap'[r] = lots
      /\ job'[r] = [NoJob EXCEPT !.delta = delta, !.stock = stock]
      /\ \A v \in Variants : delta[v] # 0 => stock[v] + delta[v] >= 0
  BY DEF BeginMove, Begin, BooksInv, TypeOK, RowsTypeOK
<1>2. job'[r].stock = stock /\ job'[r].delta = delta
  BY <1>1 DEF NoJob
<1>3. ASSUME NEW v \in Variants
      PROVE  stock[v] + delta[v] >= 0
  BY <1>1 DEF BooksInv, TypeOK, RowsTypeOK
<1>4. SeenIsCurrent'
  BY <1>1, <1>2, <1>3 DEF OneAtATime, SeenIsCurrent, books
<1>5. QED
  BY <1>1, <1>4, BooksRead

\* Each transaction that moves stock moves both books by the same quantities.
LEMMA BooksMove ==
  ASSUME BooksInv, OneAtATime, TypeOK', NEW r \in Requests,
         pc[r] \in {"move", "approving"}, UpsertStockLevel(r), MoveLots(r), Finish(r),
         UNCHANGED reserved
  PROVE  BooksInv'
<1>1. job[r].stock = stock /\ snap[r] = lots /\ job[r].delta \in [Variants -> Int]
  BY DEF BooksInv, SeenIsCurrent, TypeOK, RowsTypeOK, Job
<1>2. ASSUME NEW v \in Variants
      PROVE  /\ stock'[v] = stock[v] + job[r].delta[v] /\ stock'[v] >= 0
             /\ LotTotal(lots'[v]) = stock'[v] + reserved'[v]
  <2>1. stock[v] \in Int /\ reserved[v] \in Nat /\ job[r].delta[v] \in Int
        /\ LotTotal(lots[v]) = stock[v] + reserved[v]
    BY <1>1 DEF BooksInv, TypeOK, RowsTypeOK, Units, BooksMatch
  <2>2. stock[v] + job[r].delta[v] >= 0
    BY <2>1 DEF BooksInv, SeenIsCurrent, TypeOK, RowsTypeOK, Units
  <2>3. stock'[v] = stock[v] + job[r].delta[v]
    BY <1>1, <2>1 DEF UpsertStockLevel
  <2>4. LotTotal(lots[v]) + job[r].delta[v] >= 0
    BY <2>1, <2>2
  <2>5. LotTotal(lots'[v]) = LotTotal(lots[v]) + job[r].delta[v]
    BY <1>1, <2>4, MovedTotal DEF BooksInv
  <2>6. QED
    BY <2>1, <2>2, <2>3, <2>5
<1>3. SeenIsCurrent'
  BY NothingHeld DEF BooksInv
<1>4. QED
  BY <1>2, <1>3 DEF BooksInv, BooksMatch

\* Packing an order takes from the lots what it takes from the reserved units.
LEMMA BooksPack ==
  ASSUME BooksInv, OneAtATime, TypeOK', NEW r \in Requests, PackCommit(r)
  PROVE  BooksInv'
<1>1. /\ snap[r] = lots /\ job[r].delta \in [Variants -> Int]
      /\ MoveLots(r) /\ Finish(r) /\ UNCHANGED stock
  BY DEF PackCommit, BooksInv, SeenIsCurrent, TypeOK, RowsTypeOK, Job
<1>2. ASSUME NEW v \in Variants
      PROVE  LotTotal(lots'[v]) = stock'[v] + reserved'[v]
  <2>1. /\ stock[v] \in Int /\ stock[v] >= 0 /\ reserved[v] \in Nat
        /\ job[r].delta[v] \in Int /\ LotTotal(lots[v]) = stock[v] + reserved[v]
        /\ reserved'[v] = reserved[v] + job[r].delta[v] /\ reserved'[v] >= 0
    BY <1>1 DEF PackCommit, BooksInv, TypeOK, RowsTypeOK, Units, BooksMatch
  <2>2. LotTotal(lots[v]) + job[r].delta[v] >= 0
    BY <2>1
  <2>3. LotTotal(lots'[v]) = LotTotal(lots[v]) + job[r].delta[v]
    BY <1>1, <2>2, MovedTotal DEF BooksInv
  <2>4. QED
    BY <1>1, <2>1, <2>3
<1>3. SeenIsCurrent'
  BY <1>1, NothingHeld DEF BooksInv
<1>4. QED
  BY <1>1, <1>2, <1>3 DEF BooksInv, BooksMatch

\* A checkout or a cancellation moves a unit between the counter and the reserved.
LEMMA BooksOneUnit ==
  ASSUME BooksInv, OneAtATime, TypeOK', NEW r \in Requests, NEW v \in Variants,
         Reserve(r, v) \/ Release(r, v)
  PROVE  BooksInv'
<1>1. lots' = lots /\ Begin(r, "idle", NoJob)
  BY DEF Reserve, Release
<1>2. ASSUME NEW w \in Variants
      PROVE  stock'[w] >= 0 /\ LotTotal(lots'[w]) = stock'[w] + reserved'[w]
  <2>1. /\ stock[w] \in Int /\ stock[w] >= 0 /\ reserved[w] \in Nat
        /\ LotTotal(lots[w]) = stock[w] + reserved[w]
    BY DEF BooksInv, TypeOK, RowsTypeOK, Units, BooksMatch
  <2>2. /\ stock' = [stock EXCEPT ![v] = @ - 1] /\ reserved' = [reserved EXCEPT ![v] = @ + 1]
           /\ stock[v] > 0
        \/ /\ stock' = [stock EXCEPT ![v] = @ + 1] /\ reserved' = [reserved EXCEPT ![v] = @ - 1]
    BY DEF Reserve, Release
  <2>3. stock \in [Variants -> Int] /\ reserved \in [Variants -> Nat]
    BY DEF BooksInv, TypeOK, RowsTypeOK, Units
  <2>4. stock'[w] >= 0 /\ stock'[w] + reserved'[w] = stock[w] + reserved[w]
    <3>1. CASE w = v
      BY <2>1, <2>2, <2>3, <3>1
    <3>2. CASE w # v
      BY <2>1, <2>2, <2>3, <3>2
    <3>3. QED
      BY <3>1, <3>2
  <2>5. QED
    BY <1>1, <2>1, <2>4
<1>3. SeenIsCurrent'
  BY <1>1, NothingHeld DEF BooksInv
<1>4. QED
  BY <1>2, <1>3 DEF BooksInv, BooksMatch

\* Every step of handlers that do not overlap keeps the two books in agreement.
LEMMA BooksStep ==
  ASSUME BooksInv, OneAtATime, [Next]_vars
  PROVE  BooksInv'
<1>1. TypeOK'
  BY TypeStep DEF BooksInv
<1>2. CASE UNCHANGED vars
  BY <1>1, <1>2 DEF vars, BooksInv, BooksMatch, SeenIsCurrent
<1>3. ASSUME NEW p \in Receipts, CreateReceipt(p)
      PROVE  BooksInv'
  BY <1>1, <1>3 DEF CreateReceipt, books, BooksInv, BooksMatch, SeenIsCurrent
<1>4. ASSUME NEW r \in Requests,
             \/ \E p \in Receipts : \/ ApproveRead(r, p) \/ CompleteRead(r, p)
                                    \/ RejectRead(r, p) \/ ResolveRead(r, p)
             \/ SaveClosed(r) \/ ResolveCommit(r) \/ Abort(r)
      PROVE  BooksInv'
  <2>1. /\ UNCHANGED books
        /\ Finish(r) \/ \E l \in {"idle", "approve", "close", "resolve"} : \E j : Begin(r, l, j)
    BY <1>4 DEF ApproveRead, CompleteRead, RejectRead, ResolveRead, SaveClosed,
                ResolveCommit, Abort
  <2>2. QED
    BY <1>1, <2>1, NothingHeld, BooksRead DEF BooksInv
<1>5. ASSUME NEW r \in Requests, ApproveBegin(r)
      PROVE  BooksInv'
  <2>1. /\ UNCHANGED books /\ pc'[r] = "approving" /\ snap'[r] = lots
        /\ job' = [job EXCEPT ![r].seen = receipts[job[r].receipt], ![r].stock = stock]
    BY <1>5 DEF ApproveBegin, BooksInv, TypeOK, RowsTypeOK
  <2>2. job'[r].stock = stock
    BY <2>1 DEF BooksInv, TypeOK, RowsTypeOK, Job
  <2>3. SeenIsCurrent'
    BY <2>1, <2>2 DEF OneAtATime, SeenIsCurrent, books
  <2>4. QED
    BY <1>1, <2>1, <2>3, BooksRead
<1>6. ASSUME NEW r \in Requests, ApproveCommit(r) \/ CommitMove(r)
      PROVE  BooksInv'
  BY <1>1, <1>6, BooksMove DEF ApproveCommit, CommitMove
<1>7. ASSUME NEW r \in Requests, CreateExport(r)
      PROVE  BooksInv'
  <2>1. PICK units \in [Variants -> 0..MaxUnits] :
          BeginMove(r, [v \in Variants |-> -units[v]])
    BY <1>7 DEF CreateExport
  <2>2. [v \in Variants |-> -units[v]] \in [Variants -> Int]
    BY WarehouseConstants
  <2>3. QED
    BY <1>1, <2>1, <2>2, BooksBeginMove
<1>8. ASSUME NEW r \in Requests, NEW v \in Variants, NEW n \in Adjustments,
             AdjustStock(r, v, n)
      PROVE  BooksInv'
  <2>1. [NoUnits EXCEPT ![v] = n] \in [Variants -> Int]
    BY WarehouseConstants, OneUnitType
  <2>2. QED
    BY <1>1, <1>8, <2>1, BooksBeginMove DEF AdjustStock
<1>9. ASSUME NEW r \in Requests, NEW v \in Variants, ReadThresholds(r, v)
      PROVE  BooksInv'
  <2>1. /\ UNCHANGED books /\ pc'[r] = "thresholds"
        /\ job'[r] = [NoJob EXCEPT !.delta = [NoUnits EXCEPT ![v] = 1], !.stock = stock]
    BY <1>9 DEF ReadThresholds, Begin, BooksInv, TypeOK, RowsTypeOK
  <2>2. job'[r].stock = stock
    BY <2>1 DEF NoJob
  <2>3. SeenIsCurrent'
    BY <2>1, <2>2 DEF OneAtATime, SeenIsCurrent, books
  <2>4. QED
    BY <1>1, <2>1, <2>3, BooksRead
<1>10. ASSUME NEW r \in Requests, SaveThresholds(r)
       PROVE  BooksInv'
  <2>1. job[r].stock = stock /\ stock \in [Variants -> Int]
    BY <1>10 DEF SaveThresholds, BooksInv, SeenIsCurrent, TypeOK, RowsTypeOK
  <2>2. UNCHANGED books /\ Finish(r)
    BY <1>10, <2>1 DEF SaveThresholds, books
  <2>3. QED
    BY <1>1, <2>2, NothingHeld, BooksRead DEF BooksInv
<1>11. ASSUME NEW r \in Requests, NEW v \in Variants, Reserve(r, v) \/ Release(r, v)
       PROVE  BooksInv'
  BY <1>1, <1>11, BooksOneUnit
<1>12. ASSUME NEW r \in Requests, NEW v \in Variants, PackBegin(r, v)
       PROVE  BooksInv'
  <2>1. UNCHANGED books /\ pc'[r] = "pack" /\ snap'[r] = lots
    BY <1>12 DEF PackBegin, Begin, BooksInv, TypeOK, RowsTypeOK
  <2>2. SeenIsCurrent'
    BY <2>1 DEF OneAtATime, SeenIsCurrent, books
  <2>3. QED
    BY <1>1, <2>1, <2>2, BooksRead
<1>13. ASSUME NEW r \in Requests, PackCommit(r)
       PROVE  BooksInv'
  BY <1>1, <1>13, BooksPack
<1>14. QED
  BY <1>2, <1>3, <1>4, <1>5, <1>6, <1>7, <1>8, <1>9, <1>10, <1>11, <1>12, <1>13 DEF Next

\* The empty warehouse: no units, no lots.
LEMMA BooksInit == Init => BooksInv
<1> SUFFICES ASSUME Init PROVE BooksInv
  OBVIOUS
<1>1. TypeOK
  BY TypeInit
<1>2. ASSUME NEW v \in Variants
      PROVE  stock[v] = 0 /\ reserved[v] = 0 /\ LotTotal(lots[v]) = 0
  <2>1. stock[v] = 0 /\ reserved[v] = 0 /\ lots[v] = <<>>
    BY DEF Init, NoUnits, NoLots
  <2>2. LotTotal(<<>>) = 0
    BY SumEmpty DEF LotTotal
  <2>3. QED
    BY <2>1, <2>2
<1>3. BooksMatch /\ \A v \in Variants : stock[v] >= 0
  BY <1>2 DEF BooksMatch
<1>4. SeenIsCurrent
  BY DEF Init, SeenIsCurrent
<1>5. QED
  BY <1>1, <1>3, <1>4 DEF BooksInv

\* When handlers do not overlap the counter and the lots never part: imports, exports,
\* adjustments, threshold edits and orders keep both books, for any number of variants
\* and lots.
THEOREM BooksAlwaysMatch == ASSUME OneAtATime PROVE Spec => []BooksMatch
<1>1. BooksInv /\ [Next]_vars => BooksInv'
  BY BooksStep
<1>2. BooksInv => BooksMatch
  BY DEF BooksInv
<1>3. QED
  BY <1>1, <1>2, BooksInit, PTL DEF Spec
=============================================================================

----------------------------- MODULE Warehouse -----------------------------
(***************************************************************************)
(* The documents of the warehouse: import receipts and their supplements,  *)
(* exports, manual adjustments, and what each does to the stock counter    *)
(* (ton_kho) and the lots (lo_hang).                                       *)
(*                                                                         *)
(* Every handler is a process, cut where it reads outside a transaction,   *)
(* where its transaction takes its REPEATABLE READ snapshot, and where it  *)
(* commits.  What orders do to the same rows is here one unit at a time;   *)
(* OrderFlow has it in full.                                               *)
(***************************************************************************)
EXTENDS FifoLots, Sequences

CONSTANTS
  Variants,    \* phien_ban_san_pham, each with its ton_kho row
  Receipts,    \* the phieu_nhap_kho rows that may be inserted
  None,        \* no receipt
  Requests,    \* the requests served at the same time
  Adjustments, \* the quantities an adjustment may have, negative ones included
  MaxUnits,    \* bound: units per line of a receipt or an export, and counted on arrival
  MaxServed    \* bound: the requests served in all

Units == [Variants -> Nat]
NoUnits == [v \in Variants |-> 0]

ASSUME WarehouseConstants ==
  /\ None \notin Receipts
  /\ Adjustments \subseteq Int
  /\ MaxUnits \in Nat /\ MaxServed \in Nat

VARIABLES
  stock,     \* [Variants -> Int]       ton_kho.so_luong_ton
  lots,      \* [Variants -> Seq(Nat)]  lo_hang.so_luong_con_lai, by ngay_nhap
  reserved,  \* [Variants -> Nat]       units of orders checked out and not packed
  receipts,  \* [Receipts -> Receipt]   phieu_nhap_kho with its chi_tiet_phieu_nhap
  intake,    \* [Receipts -> Units]     the receipt's 'Nhap' rows in the stock history
  pc, job,   \* where each request is, and what it has read
  snap,      \* [Requests -> lots]      the lots in the snapshot of its transaction
  served     \* the requests begun so far

vars == <<stock, lots, reserved, receipts, intake, pc, job, snap, served>>

books == <<stock, lots, reserved>>

-----------------------------------------------------------------------------
(* Rows, and the values a request carries *)

Status == {"ChoDuyet", "DaDuyet", "TiepNhanMot", "TuChoi"}
Received == {"DaDuyet", "TiepNhanMot"}

\* expected: so_luong_du_kien; good: so_luong_thuc_nhap - so_luong_hu_hong;
\* prev and next: the receipt it supplements, and its own supplement.
Receipt == [status : Status \cup {"Absent"}, expected : Units, good : Units,
            prev : Receipts \cup {None}, next : Receipts \cup {None}]

NoReceipt == [status |-> "Absent", expected |-> NoUnits, good |-> NoUnits,
              prev |-> None, next |-> None]

\* row: the entity as the handler holds it; seen, stock: the receipt and the counter
\* it has read, or its transaction sees; delta: the units it puts in (or, negative,
\* takes out) per variant.
Job == [receipt : Receipts \cup {None}, row : Receipt, seen : Receipt,
        delta : [Variants -> Int], stock : [Variants -> Int]]

NoJob == [receipt |-> None, row |-> NoReceipt, seen |-> NoReceipt,
          delta |-> NoUnits, stock |-> NoUnits]

NoLots == [v \in Variants |-> <<>>]

Begin(r, l, j) ==
  /\ pc[r] = "idle" /\ served < MaxServed /\ served' = served + 1
  /\ pc' = [pc EXCEPT ![r] = l] /\ job' = [job EXCEPT ![r] = j]

Finish(r) ==
  /\ pc' = [pc EXCEPT ![r] = "idle"] /\ job' = [job EXCEPT ![r] = NoJob]
  /\ snap' = [snap EXCEPT ![r] = NoLots]
  /\ UNCHANGED served

Init ==
  /\ stock = NoUnits
  /\ lots = NoLots
  /\ reserved = NoUnits
  /\ receipts = [p \in Receipts |-> NoReceipt]
  /\ intake = [p \in Receipts |-> NoUnits]
  /\ pc = [r \in Requests |-> "idle"]
  /\ job = [r \in Requests |-> NoJob]
  /\ snap = [r \in Requests |-> NoLots]
  /\ served = 0

-----------------------------------------------------------------------------
(* Counter and lots *)

\* upsertStockLevel: the counter is set to the value seen plus the quantity.
UpsertStockLevel(r) ==
  stock' = [v \in Variants |-> IF job[r].delta[v] = 0 THEN stock[v]
                               ELSE job[r].stock[v] + job[r].delta[v]]

\* Mutant of MoveLots: whatever moves becomes a lot.
MoveLotsAppendAll(r) ==
  lots' = [v \in Variants |->
     IF job[r].delta[v] = 0 THEN lots[v] ELSE Append(lots[v], job[r].delta[v])]

\* Mutant of MoveLots: what comes in gets no lot.
MoveLotsNoNewLot(r) ==
  lots' = [v \in Variants |->
     IF job[r].delta[v] < 0 THEN Deducted(lots[v], snap[r][v], -job[r].delta[v])
     ELSE lots[v]]

\* What comes in is a lot of its own; what goes out is taken oldest first.
MoveLots(r) ==
  lots' = [v \in Variants |->
     IF job[r].delta[v] > 0 THEN Append(lots[v], job[r].delta[v])
     ELSE IF job[r].delta[v] < 0
       THEN Deducted(lots[v], snap[r][v], -job[r].delta[v])
     ELSE lots[v]]

\* An export or an adjustment: the transaction takes its snapshot and is refused
\* when the counter does not cover what goes out.
BeginMove(r, delta) ==
  /\ \A v \in Variants : delta[v] # 0 => stock[v] + delta[v] >= 0
  /\ Begin(r, "move", [NoJob EXCEPT !.delta = delta, !.stock = stock])
  /\ snap' = [snap EXCEPT ![r] = lots]
  /\ UNCHANGED <<books, receipts, intake>>

CreateExport(r) ==
  \E units \in [Variants -> 0..MaxUnits] \ {NoUnits} :
    BeginMove(r, [v \in Variants |-> -units[v]])

AdjustStock(r, v, n) ==
  BeginMove(r, [NoUnits EXCEPT ![v] = n])

CommitMove(r) ==
  /\ pc[r] = "move"
  /\ UpsertStockLevel(r) /\ MoveLots(r) /\ Finish(r)
  /\ UNCHANGED <<reserved, receipts, intake>>

\* The alert thresholds of a variant are edited: the whole row is read, and later
\* saved, the counter included.
ReadThresholds(r, v) ==
  /\ Begin(r, "thresholds",
           [NoJob EXCEPT !.delta = [NoUnits EXCEPT ![v] = 1], !.stock = stock])
  /\ UNCHANGED <<books, receipts, intake, snap>>

SaveThresholds(r) ==
  /\ pc[r] = "thresholds"
  /\ stock' = [v \in Variants |-> IF job[r].delta[v] = 0 THEN stock[v] ELSE job[r].stock[v]]
  /\ Finish(r)
  /\ UNCHANGED <<lots, reserved, receipts, intake>>

-----------------------------------------------------------------------------
(* Import receipts *)

CreateReceipt(p) ==
  /\ served < MaxServed /\ served' = served + 1
  /\ receipts[p] = NoReceipt
  /\ \E units \in [Variants -> 0..MaxUnits] \ {NoUnits} :
       receipts' = [receipts EXCEPT ![p] =
         [NoReceipt EXCEPT !.status = "ChoDuyet", !.expected = units]]
  /\ UNCHANGED <<books, intake, pc, job, snap>>

\* Mutant of ApproveRead: a partly received receipt may be approved again.
ApproveReadPartial(r, p) ==
  /\ receipts[p].status \in {"ChoDuyet", "TiepNhanMot"}
  /\ \E good \in [Variants -> 0..MaxUnits] :
       /\ \A v \in Variants : receipts[p].expected[v] = 0 => good[v] = 0
       /\ Begin(r, "approve", [NoJob EXCEPT !.receipt = p, !.row = receipts[p],
                                            !.delta = good])
  /\ UNCHANGED <<books, receipts, intake, snap>>

\* approve: the receipt is read and its status checked before the transaction; the
\* employee counted `good` usable units per line, more or fewer than expected.
ApproveRead(r, p) ==
  /\ receipts[p].status = "ChoDuyet"
  /\ \E good \in [Variants -> 0..MaxUnits] :
       /\ \A v \in Variants : receipts[p].expected[v] = 0 => good[v] = 0
       /\ Begin(r, "approve", [NoJob EXCEPT !.receipt = p, !.row = receipts[p],
                                            !.delta = good])
  /\ UNCHANGED <<books, receipts, intake, snap>>

\* The snapshot of its transaction.
ApproveBegin(r) ==
  /\ pc[r] = "approve"
  /\ pc' = [pc EXCEPT ![r] = "approving"]
  /\ job' = [job EXCEPT ![r].seen = receipts[job[r].receipt],
                        ![r].stock = stock]
  /\ snap' = [snap EXCEPT ![r] = lots]
  /\ UNCHANGED <<books, receipts, intake, served>>

\* save() writes the columns in which the entity differs from the row it read.
Column(current, seen, new) == IF new = seen THEN current ELSE new

Saved(current, seen, new) ==
  [current EXCEPT !.status = Column(@, seen.status, new.status),
                  !.next = Column(@, seen.next, new.next)]

Fulfilled(row, good) == \A v \in Variants : good[v] >= row.expected[v]

\* Every line enters the stock, the receipt is saved, and the receipt that it
\* supplements is closed.
ApproveCommit(r) ==
  LET p == job[r].receipt
      new == [job[r].row EXCEPT
                !.status = IF Fulfilled(job[r].row, job[r].delta)
                           THEN "DaDuyet" ELSE "TiepNhanMot"]
      approved == [receipts EXCEPT ![p] =
                     [Saved(@, job[r].seen, new) EXCEPT !.good = job[r].delta]]
  IN
  /\ pc[r] = "approving"
  /\ receipts' = [q \in Receipts |->
       IF q = job[r].row.prev THEN [approved[q] EXCEPT !.status = "DaDuyet"]
       ELSE approved[q]]
  /\ intake' = [intake EXCEPT ![p] = [v \in Variants |-> @[v] + job[r].delta[v]]]
  /\ UpsertStockLevel(r) /\ MoveLots(r) /\ Finish(r)
  /\ UNCHANGED reserved

\* Mutant of CompleteRead: a receipt whose supplement is on its way is completed.
CompleteReadAnyway(r, p) ==
  /\ receipts[p].status = "TiepNhanMot"
  /\ Begin(r, "close", [NoJob EXCEPT !.receipt = p,
                          !.row = [receipts[p] EXCEPT !.status = "DaDuyet"]])
  /\ UNCHANGED <<books, receipts, intake, snap>>

\* complete: the rest is not expected any more.
CompleteRead(r, p) ==
  /\ receipts[p].status = "TiepNhanMot" /\ receipts[p].next = None
  /\ Begin(r, "close", [NoJob EXCEPT !.receipt = p,
                          !.row = [receipts[p] EXCEPT !.status = "DaDuyet"]])
  /\ UNCHANGED <<books, receipts, intake, snap>>

RejectRead(r, p) ==
  /\ receipts[p].status = "ChoDuyet"
  /\ Begin(r, "close", [NoJob EXCEPT !.receipt = p,
                          !.row = [receipts[p] EXCEPT !.status = "TuChoi"]])
  /\ UNCHANGED <<books, receipts, intake, snap>>

\* complete and reject save the whole entity they have read.
SaveClosed(r) ==
  LET p == job[r].receipt IN
  /\ pc[r] = "close"
  /\ receipts' = [receipts EXCEPT ![p] = Saved(@, @, job[r].row)]
  /\ Finish(r)
  /\ UNCHANGED <<books, intake>>

\* Mutant of Shortfall: the supplement orders every line again.
ShortfallInFull(row) == row.expected

Shortfall(row) ==
  [v \in Variants |-> IF row.good[v] < row.expected[v]
                      THEN row.expected[v] - row.good[v] ELSE 0]

\* resolve: a supplement is ordered for what a partly received receipt lacks.
ResolveRead(r, p) ==
  /\ receipts[p].status = "TiepNhanMot" /\ receipts[p].next = None
  /\ Shortfall(receipts[p]) # NoUnits
  /\ Begin(r, "resolve", [NoJob EXCEPT !.receipt = p, !.row = receipts[p]])
  /\ UNCHANGED <<books, receipts, intake, snap>>

\* manager.update writes the link alone.
ResolveCommit(r) ==
  LET p == job[r].receipt IN
  /\ pc[r] = "resolve"
  /\ \E q \in Receipts :
       /\ receipts[q] = NoReceipt
       /\ receipts' = [receipts EXCEPT
            ![q] = [NoReceipt EXCEPT !.status = "ChoDuyet", !.prev = p,
                                     !.expected = Shortfall(job[r].row)],
            ![p].next = q]
  /\ Finish(r)
  /\ UNCHANGED <<books, intake>>

-----------------------------------------------------------------------------
(* Orders, one unit at a time *)

\* checkout: an UPDATE relative to the current counter.
Reserve(r, v) ==
  /\ stock[v] > 0
  /\ Begin(r, "idle", NoJob) /\ UNCHANGED snap
  /\ stock' = [stock EXCEPT ![v] = @ - 1] /\ reserved' = [reserved EXCEPT ![v] = @ + 1]
  /\ UNCHANGED <<lots, receipts, intake>>

\* A cancellation.
Release(r, v) ==
  /\ reserved[v] > 0
  /\ Begin(r, "idle", NoJob) /\ UNCHANGED snap
  /\ stock' = [stock EXCEPT ![v] = @ + 1] /\ reserved' = [reserved EXCEPT ![v] = @ - 1]
  /\ UNCHANGED <<lots, receipts, intake>>

\* Packing takes the unit from the lots of its snapshot.
PackBegin(r, v) ==
  /\ reserved[v] > 0
  /\ Begin(r, "pack", [NoJob EXCEPT !.delta = [NoUnits EXCEPT ![v] = -1]])
  /\ snap' = [snap EXCEPT ![r] = lots]
  /\ UNCHANGED <<books, receipts, intake>>

PackCommit(r) ==
  /\ pc[r] = "pack" /\ \A v \in Variants : reserved[v] + job[r].delta[v] >= 0
  /\ reserved' = [v \in Variants |-> reserved[v] + job[r].delta[v]]
  /\ MoveLots(r) /\ Finish(r)
  /\ UNCHANGED <<stock, receipts, intake>>

\* The transaction is rolled back, or the process is lost.
Abort(r) ==
  /\ pc[r] # "idle"
  /\ Finish(r)
  /\ UNCHANGED <<books, receipts, intake>>

-----------------------------------------------------------------------------
Next ==
  \/ \E p \in Receipts : CreateReceipt(p)
  \/ \E r \in Requests :
       \/ \E p \in Receipts : \/ ApproveRead(r, p) \/ CompleteRead(r, p)
                              \/ RejectRead(r, p) \/ ResolveRead(r, p)
       \/ ApproveBegin(r) \/ ApproveCommit(r)
       \/ SaveClosed(r) \/ ResolveCommit(r)
       \/ CreateExport(r)
       \/ \E v \in Variants, n \in Adjustments : AdjustStock(r, v, n)
       \/ CommitMove(r)
       \/ \E v \in Variants : \/ ReadThresholds(r, v) \/ Reserve(r, v)
                              \/ Release(r, v) \/ PackBegin(r, v)
       \/ SaveThresholds(r) \/ PackCommit(r)
       \/ Abort(r)

Spec == Init /\ [][Next]_vars

-----------------------------------------------------------------------------
RowsTypeOK ==
  /\ stock \in [Variants -> Int]
  /\ reserved \in Units
  /\ receipts \in [Receipts -> Receipt]
  /\ intake \in [Receipts -> Units]
  /\ pc \in [Requests -> {"idle", "move", "thresholds", "approve", "approving",
                          "close", "resolve", "pack"}]
  /\ job \in [Requests -> Job]
  /\ served \in Nat
  /\ \A r \in Requests : pc[r] \in {"approve", "approving", "close", "resolve"}
                           => job[r].receipt \in Receipts
  /\ \A r \in Requests : pc[r] \in {"approve", "approving"} => job[r].delta \in Units

\* The type of every variable.
TypeOK ==
  /\ RowsTypeOK
  /\ lots \in [Variants -> Seq(Nat)]
  /\ snap \in [Requests -> [Variants -> Seq(Nat)]]

-----------------------------------------------------------------------------
(* Properties of handlers that do not overlap *)

\* What lies in the lots is what the counter says is for sale plus what is
\* reserved for orders: imports, exports, adjustments and orders keep both books.
BooksMatch == \A v \in Variants : LotTotal(lots[v]) = stock[v] + reserved[v]

\* A receipt enters the stock once, with what was counted, and only if received.
ReceiptTakenOnce ==
  \A p \in Receipts :
    intake[p] = IF receipts[p].status \in Received THEN receipts[p].good ELSE NoUnits

\* A supplement orders exactly what its predecessor lacks, and no receipt has two.
ShortfallOrdered ==
  \A p, q \in Receipts :
    /\ receipts[q].prev = p <=> receipts[p].next = q
    /\ receipts[p].next = q =>
         \A v \in Variants : receipts[q].expected[v] =
             IF receipts[p].good[v] >= receipts[p].expected[v] THEN 0
             ELSE receipts[p].expected[v] - receipts[p].good[v]

\* A receipt with a supplement is closed when, and only when, that one arrives.
ClosedBySupplement ==
  \A p \in Receipts :
    receipts[p].next # None =>
      (receipts[p].status = "DaDuyet" <=> receipts[receipts[p].next].status \in Received)
=============================================================================

------------------------------ MODULE Returns ------------------------------
(***************************************************************************)
(* ReturnsWorkflowService, ReturnsResolutionService and                    *)
(* ReturnsWarrantyService: a delivered order is sent back, refunded,       *)
(* exchanged or repaired.                                                  *)
(*                                                                         *)
(* Every handler loads the request or the resolution with findOne, checks  *)
(* it, and writes later.  save() writes every column of the entity that    *)
(* differs from the row by then, so a stale entity takes newer columns     *)
(* back with it.  One product; quantity 0 is a request without items.      *)
(***************************************************************************)
EXTENDS Handlers, FiniteSetsExt, SequencesExt

CONSTANTS
  Receipts,      \* approved goods receipts of the kind NhapHoanTra
  NoReceipt,
  Quantity,      \* chi_tiet_don_hang.so_luong of the first order
  InitialStock,  \* ton_kho.so_luong_ton
  Earned,        \* the points the first order earned
  InitialPoints,
  Warranted,     \* BOOLEAN: the warranty of the product is not over
  Decisions,     \* the values of huong_xu_ly tried by processReturn
  Asked,         \* the quantities tried by submitReturn
  MaxRequests    \* bound: the return requests

VARIABLES
  orders,        \* Seq(Order): don_hang, the exchange orders included
  requests,      \* Seq(ReturnRequest): yeu_cau_doi_tra
  resolutions,   \* Seq(Resolution): doi_tra_xu_ly
  stock,         \* ton_kho.so_luong_ton
  points         \* khach_hang.diem_hien_tai

returnVars == <<orders, requests, resolutions, stock, points>>

Order == [status : {"DaXacNhan", "DaGiao"}, refunded : BOOLEAN,
          quantity : Nat, fresh : BOOLEAN]   \* fresh: updated within the window

ReturnRequest ==
  [order : Nat \ {0}, type : {"DoiHang", "TraHang", "BaoHanh"}, quantity : Nat,
   status : {"ChoDuyet", "DaDuyet", "TuChoi", "DaNhanHang", "DaKiemTra",
             "TuChoiNhanHang", "DangXuLy", "HoanThanh"},
   decision : {"none", "GiaoHangMoi", "HoanTien", "BaoHanh"},
   inspected : BOOLEAN]      \* ket_qua_kiem_tra is written

Resolution ==
  [request : Nat \ {0}, way : {"HoanTien", "GiaoHangMoi", "BaoHanh"},
   status : {"DangXuLy", "HoanThanh"}, receipt : Receipts \cup {NoReceipt},
   arrived : BOOLEAN,        \* auxiliary: a receipt was linked when the row was written
   order : Nat,              \* don_hang_doi_id
   handling : {"none", "TraNhaCungCap", "TieuHuy", "TaiSuDung"}]

NewRequest(o, type, q) ==
  [order |-> o, type |-> type, quantity |-> q, status |-> "ChoDuyet",
   decision |-> "none", inspected |-> FALSE]

\* A delivered order, and perhaps an approved request for it.
ReturnsInit ==
  /\ orders = <<[status |-> "DaGiao", refunded |-> FALSE,
                 quantity |-> Quantity, fresh |-> TRUE]>>
  /\ requests \in {<<>>} \cup
       {<<[NewRequest(1, type, q) EXCEPT !.status = "DaDuyet"]>> :
          type \in {"DoiHang", "TraHang", "BaoHanh"}, q \in Asked \ {0}}
  /\ resolutions = <<>>
  /\ stock = InitialStock /\ points = InitialPoints

-----------------------------------------------------------------------------
(* submitReturn *)

NoneWaiting(o) ==
  \A i \in DOMAIN requests : requests[i].order = o => requests[i].status # "ChoDuyet"

\* Each check is a query of its own; the window is counted from ngay_cap_nhat.
\* Quantities of earlier requests for the order are not counted.
SubmitRead(r, o, type, q) ==
  /\ orders[o].status = "DaGiao" /\ orders[o].fresh
  /\ NoneWaiting(o)
  /\ type = "TraHang" => q > 0
  /\ type = "BaoHanh" /\ q > 0 => Warranted
  /\ q <= orders[o].quantity
  /\ Begin(r, "submit", NewRequest(o, type, q))
  /\ UNCHANGED returnVars

SubmitInsert(r) ==
  /\ pc[r] = "submit" /\ Len(requests) < MaxRequests
  /\ requests' = Append(requests, job[r])
  /\ Finish(r) /\ UNCHANGED <<orders, resolutions, stock, points>>

\* The return window of an order ends.
WindowEnds(o) ==
  /\ orders[o].fresh
  /\ orders' = [orders EXCEPT ![o].fresh = FALSE]
  /\ UNCHANGED <<handling, requests, resolutions, stock, points>>

-----------------------------------------------------------------------------
(* The handlers that load a request, change some columns and save it *)

Edit(r, i, new) ==
  Begin(r, "save", [request |-> i, new |-> new]) /\ UNCHANGED returnVars

\* processReturn: no status is required of the request.
ProcessReturn(r, i) ==
  \E s \in {"DaDuyet", "TuChoi", "DangXuLy", "HoanThanh"}, t \in {requests[i].inspected, TRUE},
     d \in {requests[i].decision} \cup Decisions :
    Edit(r, i, [requests[i] EXCEPT !.status = s, !.inspected = t, !.decision = d])

ConfirmGoodsReceived(r, i) ==
  /\ requests[i].status \in {"ChoDuyet", "DaDuyet"}
  /\ Edit(r, i, [requests[i] EXCEPT !.status = "DaNhanHang"])

UpdateInspectionResult(r, i) ==
  /\ requests[i].status \in {"DaNhanHang", "DaKiemTra", "DangXuLy"}
  /\ Edit(r, i, [requests[i] EXCEPT !.inspected = TRUE])

\* The evidence that addReturnAsset adds is taken to be there.
CompleteInspection(r, i) ==
  /\ requests[i].status = "DaNhanHang" /\ requests[i].inspected
  /\ Edit(r, i, [requests[i] EXCEPT !.status = "DaKiemTra"])

RejectAfterInspection(r, i) ==
  /\ requests[i].status = "DaKiemTra"
  /\ Edit(r, i, [requests[i] EXCEPT !.status = "TuChoiNhanHang"])

ChangeResolution(r, i) ==
  /\ requests[i].status \in {"DaDuyet", "DaNhanHang", "DaKiemTra"}
  /\ requests[i].type # "BaoHanh"
  /\ \E d \in {"GiaoHangMoi", "HoanTien"} : Edit(r, i, [requests[i] EXCEPT !.decision = d])

SaveRequest(r) ==
  /\ pc[r] = "save"
  /\ requests' = [requests EXCEPT ![job[r].request] = job[r].new]
  /\ Finish(r) /\ UNCHANGED <<orders, resolutions, stock, points>>

-----------------------------------------------------------------------------
(* processRefund and processExchange *)

Processable(i) ==
  /\ requests[i].status \in {"DaDuyet", "DaNhanHang", "DaKiemTra", "DangXuLy"}
  /\ requests[i].type # "BaoHanh" /\ requests[i].quantity > 0

Linked == {resolutions[k].receipt : k \in DOMAIN resolutions} \ {NoReceipt}

\* validateImportReceipt, with the links that the caller's SELECT shows.
ReceiptUsable(receipt, linked) == receipt = NoReceipt \/ receipt \in Receipts \ linked

\* An exchange holds the row of the product's stock until it commits.
StockFree == \A q \in Requests : pc[q] # "exchange 2"

\* Goods that no receipt brought in are put back by the handler itself.
PutBack(receipt, n) == IF receipt = NoReceipt THEN n ELSE 0

\* deductPointsForReturn: the points of the order, as far as they are there.
TakePointsBack(o) == IF o # 1 THEN 0 ELSE Min({Earned, points})

\* The UPDATE refreshes ngay_cap_nhat when it changes something.
MarkRefunded(o) ==
  orders' = [orders EXCEPT ![o].refunded = TRUE, ![o].fresh = @ \/ ~orders[o].refunded]

AddResolution(i, way, status, receipt, o) ==
  resolutions' = Append(resolutions, [request |-> i, way |-> way, status |-> status,
                          receipt |-> receipt, order |-> o, handling |-> "none",
                          arrived |-> receipt # NoReceipt])

RefundRead(r, i, receipt) ==
  /\ Processable(i)
  /\ Begin(r, "refund", [request |-> i, receipt |-> receipt])
  /\ UNCHANGED returnVars

\* The first SELECT of the transaction fixes what its later SELECTs see.
RefundSnapshot(r) ==
  /\ pc[r] = "refund"
  /\ Continue(r, "refund 2", [request |-> job[r].request, receipt |-> job[r].receipt,
                              linked |-> Linked])
  /\ UNCHANGED returnVars

RefundCommit(r) ==
  LET i == job[r].request  o == requests[i].order IN
  /\ pc[r] = "refund 2" /\ (job[r].receipt = NoReceipt => StockFree)
  /\ ReceiptUsable(job[r].receipt, job[r].linked)
  /\ MarkRefunded(o)
  /\ stock' = stock + PutBack(job[r].receipt, requests[i].quantity)
  /\ AddResolution(i, "HoanTien", "HoanThanh", job[r].receipt, 0)
  /\ requests' = [requests EXCEPT ![i].status = "HoanThanh"]
  /\ points' = points - TakePointsBack(o)
  /\ Finish(r)

ExchangeRead(r, i, receipt) ==
  /\ Processable(i) /\ stock >= requests[i].quantity
  /\ Begin(r, "exchange", [request |-> i, receipt |-> receipt])
  /\ UNCHANGED returnVars

\* The stock is updated, and its row locked, before the first SELECT.
ExchangeSnapshot(r) ==
  /\ pc[r] = "exchange" /\ StockFree
  /\ Continue(r, "exchange 2", [request |-> job[r].request, receipt |-> job[r].receipt,
                                linked |-> Linked])
  /\ UNCHANGED returnVars

ExchangeCommit(r) ==
  LET i == job[r].request  n == requests[i].quantity IN
  /\ pc[r] = "exchange 2" /\ ReceiptUsable(job[r].receipt, job[r].linked)
  /\ orders' = Append(orders, [status |-> "DaXacNhan", refunded |-> FALSE,
                               quantity |-> n, fresh |-> TRUE])
  /\ stock' = stock - n + PutBack(job[r].receipt, n)
  /\ AddResolution(i, "GiaoHangMoi", "DangXuLy", job[r].receipt, Len(orders) + 1)
  /\ requests' = [requests EXCEPT ![i].status = "DangXuLy"]
  /\ Finish(r) /\ UNCHANGED points

DeliverRead(r, k) ==
  /\ resolutions[k].way = "GiaoHangMoi" /\ resolutions[k].status # "HoanThanh"
  /\ Begin(r, "deliver", [resolution |-> k])
  /\ UNCHANGED returnVars

\* Mutant of MarkDelivered: the exchange order is left as it is.
MarkDeliveredNot(o) == UNCHANGED orders

MarkDelivered(o) == orders' = [orders EXCEPT ![o].status = "DaGiao", ![o].fresh = TRUE]

\* confirmExchangeDelivered
DeliverCommit(r) ==
  LET k == job[r].resolution IN
  /\ pc[r] = "deliver"
  /\ MarkDelivered(resolutions[k].order)
  /\ resolutions' = [resolutions EXCEPT ![k].status = "HoanThanh"]
  /\ requests' = [requests EXCEPT ![resolutions[k].request].status = "HoanThanh"]
  /\ Finish(r) /\ UNCHANGED <<stock, points>>

-----------------------------------------------------------------------------
(* ReturnsWarrantyService *)

OfRequest(i) == {k \in DOMAIN resolutions : resolutions[k].request = i}

\* initWarrantyResolution: three statements, each committed by itself.  The
\* receipt is not validated; a resolution that exists is answered as it is.
WarrantyInit(r, i, receipt) ==
  /\ requests[i].status \in {"DaDuyet", "DaNhanHang", "DaKiemTra", "DangXuLy"}
  /\ requests[i].type = "BaoHanh" /\ OfRequest(i) = {}
  /\ Begin(r, "warranty", [request |-> i, receipt |-> receipt])
  /\ UNCHANGED returnVars

WarrantyInsert(r) ==
  /\ pc[r] = "warranty"
  /\ AddResolution(job[r].request, "BaoHanh", "DangXuLy", job[r].receipt, 0)
  /\ Continue(r, "warranty 2", job[r])
  /\ UNCHANGED <<orders, requests, stock, points>>

WarrantyMark(r) ==
  /\ pc[r] = "warranty 2"
  /\ requests' = [requests EXCEPT ![job[r].request].status = "DangXuLy"]
  /\ Finish(r) /\ UNCHANGED <<orders, resolutions, stock, points>>

Unfinished(k) == resolutions[k].status # "HoanThanh"

\* processWarranty: findOne takes the first resolution of the request.
WarrantyRead(r, i) ==
  /\ requests[i].quantity > 0
  /\ \E k \in OfRequest(i) :
       /\ \A m \in OfRequest(i) : k <= m
       /\ resolutions[k].way = "BaoHanh" /\ Unfinished(k)
       /\ Begin(r, "hand out", [request |-> i, resolution |-> k])
  /\ UNCHANGED returnVars

WarrantyCommit(r) ==
  /\ pc[r] = "hand out" /\ StockFree
  /\ stock' = stock - requests[job[r].request].quantity
  /\ resolutions' = [resolutions EXCEPT ![job[r].resolution].status = "HoanThanh"]
  /\ requests' = [requests EXCEPT ![job[r].request].status = "HoanThanh"]
  /\ Finish(r) /\ UNCHANGED <<orders, points>>

\* The handlers that load a resolution, change some columns and save it.
EditResolution(r, k, new) ==
  Begin(r, "save resolution", [resolution |-> k, new |-> new]) /\ UNCHANGED returnVars

\* The dates and codes of the repair are not told apart.
UpdateWarrantyStatus(r, k) ==
  resolutions[k].way = "BaoHanh" /\ EditResolution(r, k, resolutions[k])

UpdateDefectiveHandling(r, k) ==
  /\ resolutions[k].status = "HoanThanh"
  /\ \E h \in {"TraNhaCungCap", "TieuHuy", "TaiSuDung"} :
       EditResolution(r, k, [resolutions[k] EXCEPT !.handling = h])

CompleteDefectiveReuse(r, k, receipt) ==
  /\ resolutions[k].handling = "TaiSuDung" /\ resolutions[k].receipt = NoReceipt
  /\ receipt # NoReceipt /\ ReceiptUsable(receipt, Linked)
  /\ EditResolution(r, k, [resolutions[k] EXCEPT !.receipt = receipt])

SaveResolution(r) ==
  /\ pc[r] = "save resolution"
  /\ resolutions' = [resolutions EXCEPT ![job[r].resolution] = job[r].new]
  /\ Finish(r) /\ UNCHANGED <<orders, requests, stock, points>>

-----------------------------------------------------------------------------
Workflow(r) ==
  \/ \E o \in DOMAIN orders, type \in {"DoiHang", "TraHang", "BaoHanh"}, q \in Asked :
       SubmitRead(r, o, type, q)
  \/ SubmitInsert(r)
  \/ \E i \in DOMAIN requests :
       \/ ProcessReturn(r, i) \/ ConfirmGoodsReceived(r, i) \/ UpdateInspectionResult(r, i)
       \/ CompleteInspection(r, i) \/ RejectAfterInspection(r, i) \/ ChangeResolution(r, i)
  \/ SaveRequest(r)

Settlement(r) ==
  \/ \E i \in DOMAIN requests, receipt \in Receipts \cup {NoReceipt} :
       RefundRead(r, i, receipt) \/ ExchangeRead(r, i, receipt)
  \/ RefundSnapshot(r) \/ RefundCommit(r) \/ ExchangeSnapshot(r) \/ ExchangeCommit(r)
  \/ \E k \in DOMAIN resolutions : DeliverRead(r, k)
  \/ DeliverCommit(r)

Warranty(r) ==
  \/ \E i \in DOMAIN requests, receipt \in Receipts \cup {NoReceipt} : WarrantyInit(r, i, receipt)
  \/ WarrantyInsert(r) \/ WarrantyMark(r)
  \/ \E i \in DOMAIN requests : WarrantyRead(r, i)
  \/ WarrantyCommit(r)
  \/ \E k \in DOMAIN resolutions :
       \/ UpdateWarrantyStatus(r, k) \/ UpdateDefectiveHandling(r, k)
       \/ \E receipt \in Receipts : CompleteDefectiveReuse(r, k, receipt)
  \/ SaveResolution(r)

Next ==
  \/ \E r \in Requests :
       Workflow(r) \/ Settlement(r) \/ Warranty(r) \/ (GiveUp(r) /\ UNCHANGED returnVars)
  \/ \E o \in DOMAIN orders : WindowEnds(o)

-----------------------------------------------------------------------------
\* The type of every variable.
TypeOK ==
  /\ HandlersTypeOK
  /\ orders \in Seq(Order) /\ requests \in Seq(ReturnRequest)
  /\ resolutions \in Seq(Resolution) /\ stock \in Int /\ points \in Int

Quantities(S) ==
  SumFunctionOnSet([k \in DOMAIN resolutions |-> requests[resolutions[k].request].quantity], S)

Refunds == {k \in DOMAIN resolutions : resolutions[k].way = "HoanTien"}
Exchanges == {k \in DOMAIN resolutions : resolutions[k].way = "GiaoHangMoi"}
HandedOut == {k \in DOMAIN resolutions : resolutions[k].way = "BaoHanh" /\ ~Unfinished(k)}
Arrived == {k \in DOMAIN resolutions : resolutions[k].arrived}

\* While handlers do not overlap, the resolutions explain the stock: a refund put
\* back what no receipt had brought in, an exchange whose old goods came by a receipt
\* took new ones out, and a repaired product that was handed out left, once.
StockIsExplained ==
  stock = InitialStock + Quantities(Refunds \ Arrived)
            - Quantities(Exchanges \cap Arrived) - Quantities(HandedOut)

\* While handlers do not overlap, an approved goods receipt settles one resolution.
ReceiptSettlesOne ==
  \A k, m \in DOMAIN resolutions :
    k # m /\ resolutions[k].way # "BaoHanh" /\ resolutions[k].receipt # NoReceipt
      /\ resolutions[m].way # "BaoHanh"
      => resolutions[k].receipt # resolutions[m].receipt

\* While handlers do not overlap, one request per order waits for approval.
OneWaiting ==
  \A i, j \in DOMAIN requests :
    i # j /\ requests[i].status = "ChoDuyet" /\ requests[j].status = "ChoDuyet"
      => requests[i].order # requests[j].order

\* Under any interleaving, a refund goes with the payment status of its order and a
\* finished exchange with a delivered order of the same quantity, although request,
\* resolution and order are saved by handlers that overwrite each other.
SettlementsTieUp ==
  \A k \in DOMAIN resolutions : LET i == resolutions[k].request IN
    /\ resolutions[k].way = "HoanTien" => orders[requests[i].order].refunded
    /\ resolutions[k].way = "GiaoHangMoi" =>
         /\ orders[resolutions[k].order].quantity = requests[i].quantity
         /\ resolutions[k].status = "HoanThanh" => orders[resolutions[k].order].status = "DaGiao"
         /\ \A m \in DOMAIN resolutions :
              m # k => resolutions[m].order # resolutions[k].order

\* Under any interleaving, refunds of the order take its points back as far as there
\* are any, and never leave the customer in debt.
PointsTakenBack ==
  LET n == Cardinality({k \in Refunds : requests[resolutions[k].request].order = 1})
  IN points = Max({0, InitialPoints - n * Earned})
=============================================================================

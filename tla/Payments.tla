------------------------------ MODULE Payments ------------------------------
(***************************************************************************)
(* PaymentsService: what a gateway tells the shop about one order, by the  *)
(* IPN or callback of VNPay, ZaloPay and MoMo and by the browser's return  *)
(* from VNPay.  Messages are lost, repeated and overtake each other.       *)
(* Transactions are looked up by their id, whatever their gateway.  The    *)
(* handlers of VNPay and ZaloPay check who signed a message and for what   *)
(* amount; the return is saved as failed when it is not signed, and MoMo's *)
(* callback checks neither.                                                *)
(*                                                                         *)
(* A handler saves the row of giao_dich, and then changes the status of    *)
(* the order in a transaction of its own.  createTransaction never inserts *)
(* a row (see the README): the row is there from the start.                *)
(***************************************************************************)
EXTENDS Handlers

VARIABLES
  gateway,     \* "VNPay", "ZaloPay", "MoMo" or "COD"
  payment,     \* giao_dich.trang_thai_giao_dich
  paidBy,      \* auxiliary: the payment handler that saved it last, by message
  orderStatus, \* don_hang.trang_thai_don
  captured,    \* the gateway has the customer's money
  sent,        \* the signed messages of the gateway; any may arrive, at any time, again
  confirmedBy  \* auxiliary: the payment handlers that confirmed the order, by message

paymentVars == <<gateway, payment, paidBy, orderStatus, captured, sent, confirmedBy>>

Message == [kind : {"ipn", "return", "zalopay"}, ok : BOOLEAN]
Handler == {"ipn", "return", "zalopay", "momo", "cod"}

PaymentsInit ==
  /\ gateway \in {"VNPay", "ZaloPay", "MoMo", "COD"}
  /\ payment = "Cho" /\ paidBy = "nobody" /\ orderStatus = "ChoTT" /\ captured = FALSE
  /\ sent = {} /\ confirmedBy = {}

-----------------------------------------------------------------------------
(* The gateways and the rest of the shop *)

Kinds == CASE gateway = "VNPay" -> {"ipn", "return"} [] gateway = "ZaloPay" -> {"zalopay"}
           [] OTHER -> {}

Messages(ok) == {[kind |-> k, ok |-> ok] : k \in Kinds}

GatewayTakesMoney ==
  /\ gateway # "COD" /\ ~captured
  /\ captured' = TRUE /\ sent' = sent \cup Messages(TRUE)
  /\ UNCHANGED <<gateway, payment, paidBy, orderStatus, confirmedBy, handling>>

\* ZaloPay calls back for successful payments only.
GatewayDeclines ==
  /\ gateway = "VNPay" /\ ~captured
  /\ sent' = sent \cup Messages(FALSE)
  /\ UNCHANGED <<gateway, payment, paidBy, orderStatus, captured, confirmedBy, handling>>

Allowed == {<<"ChoTT", "DaXacNhan">>, <<"ChoTT", "DaHuy">>, <<"DaXacNhan", "DongGoi">>,
            <<"DaXacNhan", "DaHuy">>, <<"DongGoi", "DangGiao">>, <<"DangGiao", "DaGiao">>,
            <<"DaGiao", "HoanTra">>}

\* updateStatus and cancelOrder, called by employees and customers.
ShopMovesOrder(r) ==
  /\ AtOnce(r)
  /\ \E next \in {"DaXacNhan", "DongGoi", "DangGiao", "DaGiao", "DaHuy", "HoanTra"} :
       <<orderStatus, next>> \in Allowed /\ orderStatus' = next
  /\ UNCHANGED <<gateway, payment, paidBy, captured, sent, confirmedBy>>

-----------------------------------------------------------------------------
(* The handlers: check the row, save it, read the order, change the order *)

\* Mutant of Open: an IPN for a transaction that is decided is not answered at once.
OpenAlways == TRUE

\* handleVNPayIpn answers '02' for a decided transaction.
Open == payment \notin {"ThanhCong", "ThatBai"}

\* Mutant of Verdict: the response code is not looked at.
VerdictPaid(m) == "ThanhCong"

Verdict(m) == IF m.ok THEN "ThanhCong" ELSE "ThatBai"

Receive(r, m) ==
  Begin(r, "save", [kind |-> m.kind, verdict |-> Verdict(m), next |-> "DaXacNhan"])
    /\ UNCHANGED paymentVars

HandleVNPayIpn(r) == Open /\ \E m \in sent : m.kind = "ipn" /\ Receive(r, m)

HandleZaloPayCallback(r) ==
  payment # "ThanhCong" /\ \E m \in sent : m.kind = "zalopay" /\ Receive(r, m)

\* The transaction is saved whatever it says by now, as failed if the return is not signed.
HandleVNPayReturn(r) ==
  \/ \E m \in sent : m.kind = "return" /\ Receive(r, m)
  \/ Receive(r, [kind |-> "return", ok |-> FALSE])

\* Whatever the call says is saved, for a transaction of any gateway.
HandleMoMoCallback(r) == \E ok \in BOOLEAN : Receive(r, [kind |-> "momo", ok |-> ok])

ConfirmCOD(r) ==
  /\ gateway = "COD"
  /\ Begin(r, "save", [kind |-> "cod", verdict |-> "ThanhCong", next |-> "DaGiao"])
  /\ UNCHANGED paymentVars

SavePayment(r) ==
  /\ pc[r] = "save"
  /\ payment' = job[r].verdict /\ paidBy' = job[r].kind
  /\ IF job[r].verdict = "ThanhCong" THEN Continue(r, "read order", job[r]) ELSE Finish(r)
  /\ UNCHANGED <<gateway, orderStatus, captured, sent, confirmedBy>>

\* OrdersService.updateStatus loads the order and validates the transition ...
ReadOrder(r) ==
  /\ pc[r] = "read order"
  /\ <<orderStatus, job[r].next>> \in Allowed
  /\ Continue(r, "change order", job[r])
  /\ UNCHANGED paymentVars

\* ... and changeStatus saves it in its transaction.
ChangeOrder(r) ==
  /\ pc[r] = "change order"
  /\ orderStatus' = job[r].next
  /\ confirmedBy' = confirmedBy \cup {job[r].kind}
  /\ Finish(r) /\ UNCHANGED <<gateway, payment, paidBy, captured, sent>>

Next ==
  \/ GatewayTakesMoney \/ GatewayDeclines
  \/ \E r \in Requests :
       \/ ShopMovesOrder(r)
       \/ HandleVNPayIpn(r) \/ HandleZaloPayCallback(r) \/ HandleVNPayReturn(r)
       \/ HandleMoMoCallback(r) \/ ConfirmCOD(r)
       \/ SavePayment(r) \/ ReadOrder(r) \/ ChangeOrder(r)
       \/ GiveUp(r) /\ UNCHANGED paymentVars

-----------------------------------------------------------------------------
\* The type of every variable.
TypeOK ==
  /\ HandlersTypeOK
  /\ gateway \in {"VNPay", "ZaloPay", "MoMo", "COD"}
  /\ payment \in {"Cho", "ThanhCong", "ThatBai"} /\ paidBy \in Handler \cup {"nobody"}
  /\ orderStatus \in {"ChoTT", "DaXacNhan", "DongGoi", "DangGiao", "DaGiao", "DaHuy", "HoanTra"}
  /\ captured \in BOOLEAN /\ sent \subseteq Message /\ confirmedBy \subseteq Handler

\* However the messages of VNPay and ZaloPay are lost, repeated or reordered, and whatever
\* arrives at MoMo's callback in between: their handlers show a transaction as paid, and
\* confirm its order, only when the gateway has the money.  What MoMo's callback writes is
\* not covered, nor is the cash an employee confirms.
PaidMeansCaptured ==
  \/ payment = "ThanhCong" /\ paidBy \notin {"momo", "cod"}
  \/ confirmedBy \ {"momo", "cod"} # {}
  => captured

\* While handlers do not overlap, the verdict of a transaction stands against repeated
\* IPNs: only the browser's return, which is saved without a check, overturns it.
IpnKeepsVerdict ==
  \A r \in Requests :
    pc[r] = "save" /\ pc'[r] # "save" /\ job[r].kind = "ipn"
      /\ payment \in {"ThanhCong", "ThatBai"} => payment' = payment

\* While handlers do not overlap, a late payment never brings a cancelled or shipped
\* order back: the status of an order moves along the arrows only.
AlongTheArrows ==
  orderStatus' # orderStatus => <<orderStatus, orderStatus'>> \in Allowed
=============================================================================

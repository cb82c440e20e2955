----------------------------- MODULE OrderFlow -----------------------------
(***************************************************************************)
(* The life of an order: checkout, the status changes made by customers    *)
(* and staff, and what each of them does to the stock counter (ton_kho),   *)
(* the lots (lo_hang), the flash-sale counter and the coupon usageCount.        *)
(*                                                                         *)
(* Every HTTP request is a process.  A handler is cut where it reads the   *)
(* database outside a transaction, where its transaction takes its         *)
(* REPEATABLE READ snapshot, and where it commits; what a transaction has  *)
(* written is invisible to the others until then, except for the           *)
(* statements the code sends over a second connection.                     *)
(***************************************************************************)
EXTENDS FifoLots, Sequences, FiniteSets

CONSTANTS
  Customers,    \* khach_hang
  Variants,     \* phien_ban_san_pham, each with one ton_kho row
  Orders,       \* the don_hang rows that checkouts may insert
  Requests,     \* the requests served at the same time, by the slot they occupy
  NoOrder,      \* a request that has no order yet
  InitLots,     \* [Variants -> Seq(Nat)]: the lots on the shelf at first, oldest first
  FlashLimit,   \* [Variants -> Nat]: so_luong_gioi_han of the active flash sale
  UsageLimit,   \* total_usage_limit of the coupon
  GiftOffers,   \* what a Buy-X-Get-Y promotion may add to an order
  MaxQty,       \* bound: the quantity of one variant in a cart
  MaxServed     \* bound: the requests served in all

Units == [Variants -> Nat]
NoUnits == [v \in Variants |-> 0]

ASSUME ConstantsAssumption ==
  /\ NoOrder \notin Orders
  /\ IsFiniteSet(Orders)
  /\ InitLots \in [Variants -> Seq(Nat)]
  /\ FlashLimit \in Units
  /\ UsageLimit \in Nat
  /\ GiftOffers \subseteq Units
  /\ MaxQty \in Nat /\ MaxServed \in Nat

VARIABLES
  cart,        \* [Customers -> Units]  chi_tiet_gio_hang
  stock,       \* [Variants -> Int]     ton_kho.so_luong_ton
  lots,        \* [Variants -> lots]    lo_hang.so_luong_con_lai, by ngay_nhap
  flashSold,   \* [Variants -> Nat]     flash_sale_item.so_luong_da_ban
  usageCount,  \* promotion.usage_count of the coupon
  orders,      \* [Orders -> Row]       don_hang with its chi_tiet_don_hang
  picks,       \* [Orders -> Nat]       FIFO passes in the order's activity log
  restores,    \* [Orders -> Nat]       'HoanTra' passes in its stock history
  picked,      \* [Variants -> Nat]     units of the 'Xuat' rows of the history
  pc, job,     \* where each request is, and the values it has read
  snap,        \* [Requests -> lots]     the lots in the snapshot of its transaction
  served       \* the requests begun so far

vars == <<cart, stock, lots, flashSold, usageCount, orders,
          picks, restores, picked, pc, job, snap, served>>

warehouse == <<stock, lots, picked, picks, restores>>

-----------------------------------------------------------------------------
(* Rows, and the values a request carries *)

Status == {"ChoTT", "DaXacNhan", "DongGoi", "DangGiao", "DaGiao", "DaHuy", "HoanTra"}

\* The table of validateStatusTransition.
Transitions ==
  { <<"ChoTT", "DaXacNhan">>,    <<"ChoTT", "DaHuy">>,
    <<"DaXacNhan", "DongGoi">>,  <<"DaXacNhan", "DaHuy">>,
    <<"DongGoi", "DangGiao">>,   <<"DangGiao", "DaGiao">>,
    <<"DaGiao", "HoanTra">> }

Row == [status : Status \cup {"Absent"}, lines : Units, gift : Units,
        coupon : BOOLEAN, tracked : BOOLEAN]

NoRow == [status |-> "Absent", lines |-> NoUnits, gift |-> NoUnits,
          coupon |-> FALSE, tracked |-> FALSE]

\* row: the entity as the handler holds it; seen: the row in the snapshot of its
\* transaction; target: the status asked for; flash: the units at flash price;
\* buyer: the customers whose cart a COD checkout will empty.
Job == [order : Orders \cup {NoOrder}, row : Row, seen : Row,
        target : Status \cup {"Absent"}, flash : Units, buyer : SUBSET Customers]

NoJob == [order |-> NoOrder, row |-> NoRow, seen |-> NoRow, target |-> "Absent",
          flash |-> NoUnits, buyer |-> {}]

Start(r) == pc[r] = "idle" /\ served < MaxServed /\ served' = served + 1
Goto(r, l) == pc' = [pc EXCEPT ![r] = l]

\* The answer is sent, or the error thrown.
Finish(r) ==
  /\ Goto(r, "idle")
  /\ job' = [job EXCEPT ![r] = NoJob] /\ snap' = [snap EXCEPT ![r] = InitLots]

-----------------------------------------------------------------------------
Init ==
  /\ cart = [c \in Customers |-> NoUnits]
  /\ stock = [v \in Variants |-> LotTotal(InitLots[v])]
  /\ lots = InitLots
  /\ flashSold = NoUnits
  /\ usageCount = 0
  /\ orders = [o \in Orders |-> NoRow]
  /\ picks = [o \in Orders |-> 0]
  /\ restores = [o \in Orders |-> 0]
  /\ picked = NoUnits
  /\ pc = [r \in Requests |-> "idle"]
  /\ job = [r \in Requests |-> NoJob]
  /\ snap = [r \in Requests |-> InitLots]
  /\ served = 0

-----------------------------------------------------------------------------
(* Cart and checkout *)

\* CartService.addItem, one unit at a time.
AddItem(c, v) ==
  /\ cart[c][v] < MaxQty
  /\ stock[v] >= cart[c][v] + 1
  /\ cart' = [cart EXCEPT ![c][v] = @ + 1]
  /\ UNCHANGED <<orders, flashSold, usageCount, warehouse, pc, job, snap, served>>

\* Mutant of Covered: the cart is taken at its word.
CoveredUnchecked(units) == TRUE

Covered(units) == \A v \in Variants : units[v] > 0 => units[v] <= stock[v]

\* The flash price is used for a line when all of it fits under the limit.
FlashUnits(units) ==
  [v \in Variants |-> IF /\ flashSold[v] < FlashLimit[v]
                         /\ FlashLimit[v] - flashSold[v] >= units[v]
                      THEN units[v] ELSE 0]

\* Bound: every checkout under way finds a row of Orders to insert.
OrderRowsLeft ==
  Cardinality({q \in Requests : pc[q] = "checkout"})
    < Cardinality({o \in Orders : orders[o] = NoRow})

\* The first half of checkout: the cart, the stock, the flash sale, the coupon
\* and the promotions are read with plain queries, and every error is thrown.
CheckoutRead(r, c) ==
  /\ Start(r) /\ OrderRowsLeft
  /\ cart[c] # NoUnits
  /\ Covered(cart[c])
  /\ \E coupon \in BOOLEAN, cod \in BOOLEAN, offer \in GiftOffers \cup {NoUnits} :
       /\ coupon => usageCount < UsageLimit
       /\ job' = [job EXCEPT ![r] =
            [NoJob EXCEPT !.row = [NoRow EXCEPT !.status = "ChoTT", !.lines = cart[c],
                                     !.gift = IF Covered(offer) THEN offer ELSE NoUnits,
                                     !.coupon = coupon],
                          !.flash = FlashUnits(cart[c]),
                          !.buyer = IF cod THEN {c} ELSE {}]]
  /\ Goto(r, "checkout")
  /\ UNCHANGED <<cart, orders, flashSold, usageCount, warehouse, snap>>

\* Inside the transaction clearCart runs on its own connection: it is committed
\* whatever becomes of the transaction.
CheckoutClearCart(r) ==
  /\ pc[r] = "checkout" /\ job[r].buyer # {}
  /\ cart' = [c \in Customers |-> IF c \in job[r].buyer THEN NoUnits ELSE cart[c]]
  /\ job' = [job EXCEPT ![r].buyer = {}]
  /\ UNCHANGED <<orders, flashSold, usageCount, warehouse, pc, snap, served>>

\* The transaction commits: the order, the flash-sale counter and the stock.
\* Neither UPDATE is guarded, and gifts are not taken from the stock.
CheckoutCommit(r) ==
  /\ pc[r] = "checkout" /\ job[r].buyer = {}
  /\ \E o \in Orders : /\ orders[o] = NoRow
                       /\ orders' = [orders EXCEPT ![o] = job[r].row]
  /\ flashSold' = [v \in Variants |-> flashSold[v] + job[r].flash[v]]
  /\ stock' = [v \in Variants |-> stock[v] - job[r].row.lines[v]]
  /\ Finish(r)
  /\ UNCHANGED <<cart, usageCount, lots, picked, picks, restores, served>>

-----------------------------------------------------------------------------
(* Status changes *)

\* The order is read, and the transition checked, before the transaction.
ReadOrder(r, o, target) ==
  /\ Start(r)
  /\ job' = [job EXCEPT ![r] = [NoJob EXCEPT !.order = o, !.row = orders[o],
                                             !.target = target]]
  /\ UNCHANGED <<cart, orders, flashSold, usageCount, warehouse, snap>>

\* Mutant of CancelOrder: a customer may cancel at any status.
CancelOrderAnytime(r, o) ==
  /\ orders[o].status \in Status
  /\ ReadOrder(r, o, "DaHuy")
  /\ Goto(r, "read")

CancelOrder(r, o) ==
  /\ orders[o].status = "ChoTT"
  /\ ReadOrder(r, o, "DaHuy")
  /\ Goto(r, "read")

\* Mutant of UpdateStatus: the table is not consulted.
UpdateStatusUnchecked(r, o, target) ==
  /\ orders[o].status \in Status
  /\ ReadOrder(r, o, target)
  /\ Goto(r, "read")

UpdateStatus(r, o, target) ==
  /\ <<orders[o].status, target>> \in Transitions
  /\ ReadOrder(r, o, target)
  /\ Goto(r, "read")

\* changeStatus opens its transaction: save() reads the row to find what differs.
BeginChange(r) ==
  /\ pc[r] = "read"
  /\ job' = [job EXCEPT ![r].seen = orders[job[r].order]]
  /\ snap' = [snap EXCEPT ![r] = lots]
  /\ Goto(r, "begun")
  /\ UNCHANGED <<cart, orders, flashSold, usageCount, warehouse, served>>

\* save() writes the columns in which the entity differs from the row it read.
Column(current, seen, new) == IF new = seen THEN current ELSE new

Saved(current, seen, new) ==
  [current EXCEPT !.status  = Column(@, seen.status, new.status),
                  !.tracked = Column(@, seen.tracked, new.tracked)]

ConsumesCoupon(r) == job[r].target = "DaXacNhan" /\ job[r].row.coupon

\* A transaction that waits in the middle holds the row of its order in X mode.
Locked(o) == \E r \in Requests : pc[r] = "slot" /\ job[r].order = o

\* The row has been updated, hence locked, and recordCouponConsumption takes a
\* slot of the quota on another connection: that UPDATE is committed at once.
\* Its second statement, the INSERT into promotion_usage, has a foreign key to
\* the very row: it waits for a lock that its own caller holds.
TakeCouponSlot(r) ==
  /\ pc[r] = "begun" /\ ConsumesCoupon(r) /\ ~Locked(job[r].order)
  /\ usageCount < UsageLimit
  /\ usageCount' = usageCount + 1
  /\ Goto(r, "slot")
  /\ UNCHANGED <<cart, orders, flashSold, warehouse, job, snap, served>>

\* The coupon is exhausted: the confirmation is refused and rolled back.
NoCouponSlot(r) ==
  /\ pc[r] = "begun" /\ ConsumesCoupon(r) /\ ~Locked(job[r].order)
  /\ usageCount >= UsageLimit
  /\ Finish(r)
  /\ UNCHANGED <<cart, orders, flashSold, usageCount, warehouse, served>>

\* Mutant of Pack: the lots are taken when the order is delivered.
PackOnDelivery(r) ==
  LET o == job[r].order
  IN IF job[r].target = "DaGiao"
     THEN /\ lots' = [v \in Variants |-> Deducted(lots[v], snap[r][v], orders[o].lines[v])]
          /\ picked' = [v \in Variants |->
                          picked[v] + LotTotal(Taken(snap[r][v], orders[o].lines[v]))]
          /\ picks' = [picks EXCEPT ![o] = @ + 1]
     ELSE UNCHANGED <<lots, picked, picks>>

\* Packing takes the lines and the gifts of the order from the snapshot's lots.
Pack(r) ==
  LET o == job[r].order
      need == [v \in Variants |-> orders[o].lines[v] + orders[o].gift[v]]
  IN IF job[r].target = "DongGoi"
     THEN /\ lots' = [v \in Variants |-> Deducted(lots[v], snap[r][v], need[v])]
          /\ picked' = [v \in Variants |->
                          picked[v] + LotTotal(Taken(snap[r][v], need[v]))]
          /\ picks' = [picks EXCEPT ![o] = @ + 1]
     ELSE UNCHANGED <<lots, picked, picks>>

\* Mutant of Restore: only orders cancelled before they were confirmed are restored.
RestoreUnconfirmed(r) ==
  LET o == job[r].order
  IN IF job[r].target = "DaHuy" /\ job[r].row.status = "ChoTT"
     THEN /\ stock' = [v \in Variants |-> stock[v] + orders[o].lines[v] + orders[o].gift[v]]
          /\ restores' = [restores EXCEPT ![o] = @ + 1]
     ELSE UNCHANGED <<stock, restores>>

\* A cancellation adds every line of the order back, the gifts included.
Restore(r) ==
  LET o == job[r].order
  IN IF job[r].target = "DaHuy"
     THEN /\ stock' = [v \in Variants |-> stock[v] + orders[o].lines[v] + orders[o].gift[v]]
          /\ restores' = [restores EXCEPT ![o] = @ + 1]
     ELSE UNCHANGED <<stock, restores>>

CommitChange(r) ==
  LET o == job[r].order
      new == [job[r].row EXCEPT !.status = job[r].target]
  IN
  /\ pc[r] = "begun" /\ ~ConsumesCoupon(r) /\ ~Locked(o)
  /\ orders' = [orders EXCEPT ![o] = Saved(@, job[r].seen, new)]
  /\ Pack(r)
  /\ Restore(r)
  /\ Finish(r)
  /\ UNCHANGED <<cart, flashSold, usageCount, served>>

-----------------------------------------------------------------------------
(* The shipping details of an order: read, then saved with all its columns *)

UpdateShipping(r, o) ==
  /\ orders[o].status \in Status
  /\ ReadOrder(r, o, orders[o].status)
  /\ Goto(r, "shipping")

SaveShipping(r) ==
  LET o == job[r].order IN
  /\ pc[r] = "shipping" /\ ~Locked(o)
  /\ orders' = [orders EXCEPT ![o] = Saved(@, @, [job[r].row EXCEPT !.tracked = TRUE])]
  /\ Finish(r)
  /\ UNCHANGED <<cart, flashSold, usageCount, warehouse, served>>

-----------------------------------------------------------------------------
(* Failures *)

\* Mutant of LockWaitTimeout: the wait of the coupon's own INSERT never times out.
LockWaitWithoutTimeout(r) ==
  /\ pc[r] \in {"begun", "shipping"} /\ Locked(job[r].order)
  /\ Finish(r)
  /\ UNCHANGED <<cart, orders, flashSold, usageCount, warehouse, served>>

\* innodb_lock_wait_timeout: a statement that waits for the row of an order is
\* answered with an error, and the transaction of its request is rolled back.
LockWaitTimeout(r) ==
  /\ \/ pc[r] = "slot"
     \/ pc[r] \in {"begun", "shipping"} /\ Locked(job[r].order)
  /\ Finish(r)
  /\ UNCHANGED <<cart, orders, flashSold, usageCount, warehouse, served>>

\* The process dies or loses its connection: an open transaction is rolled back.
Abort(r) ==
  /\ pc[r] # "idle"
  /\ Finish(r)
  /\ UNCHANGED <<cart, orders, flashSold, usageCount, warehouse, served>>

-----------------------------------------------------------------------------
\* What the server does next for a request it has begun.
Serve(r) ==
  \/ CheckoutClearCart(r) \/ CheckoutCommit(r)
  \/ BeginChange(r) \/ TakeCouponSlot(r) \/ NoCouponSlot(r)
  \/ CommitChange(r) \/ SaveShipping(r) \/ LockWaitTimeout(r)

Next ==
  \/ \E c \in Customers, v \in Variants : AddItem(c, v)
  \/ \E r \in Requests :
       \/ \E c \in Customers : CheckoutRead(r, c)
       \/ \E o \in Orders : \/ CancelOrder(r, o)
                            \/ \E t \in Status : UpdateStatus(r, o, t)
                            \/ UpdateShipping(r, o)
       \/ Serve(r)
       \/ Abort(r)

Spec == Init /\ [][Next]_vars

\* Node runs a handler to its end: every step of a request that stays possible
\* is taken.  Nothing obliges a customer or an employee to send a request.
FairSpec == Spec /\ \A r \in Requests : WF_vars(Serve(r))
-----------------------------------------------------------------------------
(* Type invariant *)

RowsTypeOK ==
  /\ cart \in [Customers -> Units]
  /\ stock \in [Variants -> Int]
  /\ flashSold \in Units
  /\ usageCount \in Nat
  /\ orders \in [Orders -> Row]
  /\ picks \in [Orders -> Nat]
  /\ restores \in [Orders -> Nat]
  /\ pc \in [Requests -> {"idle", "checkout", "read", "begun", "slot", "shipping"}]
  /\ job \in [Requests -> Job]
  /\ served \in Nat
  /\ \A r \in Requests : pc[r] \in {"read", "begun", "slot", "shipping"}
                           => job[r].order \in Orders

\* Orders neither add nor drop a lot.
Shelves == {ls \in [Variants -> Seq(Nat)] :
              \A v \in Variants : Len(ls[v]) = Len(InitLots[v])}

LotsTypeOK == picked \in Units /\ lots \in Shelves /\ snap \in [Requests -> Shelves]

\* The type of every variable.
TypeOK == RowsTypeOK /\ LotsTypeOK

-----------------------------------------------------------------------------
(* Properties that survive any interleaving of the handlers *)

\* However stale the rows that handlers hold, and whatever save() writes back,
\* goods are handed to the carrier only after their lots have been taken.
ShippedWasPacked ==
  \A o \in Orders :
    orders[o].status \in {"DongGoi", "DangGiao", "DaGiao", "HoanTra"} => picks[o] > 0

\* What must have happened to an order before it can show a status.
Justified(o, status) ==
  /\ status \in {"DongGoi", "DangGiao", "DaGiao", "HoanTra"} => picks[o] > 0
  /\ status = "DaHuy" => restores[o] > 0

\* The row a handler holds may be stale but never invented: the order did have
\* that status, and the change asked for is one the table allows from it.
HeldRowsWereReal ==
  \A r \in Requests :
    /\ pc[r] = "checkout" => job[r].row.status = "ChoTT"
    /\ pc[r] \in {"read", "begun", "slot", "shipping"}
         => Justified(job[r].order, job[r].row.status)
    /\ pc[r] \in {"read", "begun", "slot"}
         => <<job[r].row.status, job[r].target>> \in Transitions

\* A cancelled order has given its units back: the status never commits, nor is
\* copied from one save to another, without the restore.
CancelledWasRestored ==
  \A o \in Orders : orders[o].status = "DaHuy" => restores[o] > 0

\* Every request is answered, the ones that wait for the lock of an order
\* included: no set of handlers blocks itself for ever.
EveryRequestEnds == \A r \in Requests : pc[r] # "idle" ~> pc[r] = "idle"

-----------------------------------------------------------------------------
(* Properties of handlers that do not overlap *)

\* The units of v that an order keeps reserved: until it is packed or cancelled.
Reserves(row, v) ==
  IF row.status \in {"ChoTT", "DaXacNhan"} THEN row.lines[v] + row.gift[v] ELSE 0

Reserved(rows, v) == SumFunction([o \in Orders |-> Reserves(rows[o], v)])

\* What lies in the lots is what the counter says is for sale plus what is
\* reserved for the orders not yet packed: reserving, restoring and picking
\* agree on the units of an order and each happens once.
ShelfMatchesBooks ==
  \A v \in Variants : LotTotal(lots[v]) = stock[v] + Reserved(orders, v)

\* When every order that was placed is cancelled, the shop has for sale what it had at
\* first: a cancellation puts back what the checkout took, neither less nor more.
CancellationUndoesCheckout ==
  (\A o \in Orders : orders[o].status \in {"Absent", "DaHuy"})
    => \A v \in Variants : stock[v] = LotTotal(InitLots[v])

\* Every unit missing from the lots has its 'Xuat' rows in the stock history.
PicksAreRecorded ==
  \A v \in Variants : LotTotal(lots[v]) + picked[v] = LotTotal(InitLots[v])

\* Nothing is sold that is not there, and no flash price beyond its limit.
NeverOversold ==
  \A v \in Variants : stock[v] >= 0 /\ flashSold[v] <= FlashLimit[v]

\* An order changes status along the arrows of validateStatusTransition.
StatusFollowsTable ==
  [][\A o \in Orders :
       orders'[o].status # orders[o].status =>
         \/ orders[o].status = "Absent" /\ orders'[o].status = "ChoTT"
         \/ <<orders[o].status, orders'[o].status>> \in Transitions]_orders

\* Orders that were never confirmed do not eat into the coupon's quota.
QuotaForConfirmedOnly ==
  /\ \A o \in Orders : orders[o].status \in {"Absent", "ChoTT"}
  /\ \A r \in Requests : pc[r] = "idle"
  => usageCount = 0

-----------------------------------------------------------------------------
(* The abstract order: its status and what became of its units *)

UnitsState(o) ==
  IF orders[o].status = "Absent" THEN "none"
  ELSE IF picks[o] = 0 /\ restores[o] = 0 THEN "reserved"
  ELSE IF picks[o] = 1 /\ restores[o] = 0 THEN "picked"
  ELSE IF picks[o] = 0 /\ restores[o] = 1 THEN "released"
  ELSE "wrong"

Promise == INSTANCE OrderPromise
  WITH Orders <- Orders, Arrows <- Transitions,
       status <- [o \in Orders |-> orders[o].status],
       units <- [o \in Orders |-> UnitsState(o)]

\* Handlers that do not overlap implement the abstract order.
PromiseKept == Promise!Spec
=============================================================================

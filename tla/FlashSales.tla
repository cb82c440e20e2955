----------------------------- MODULE FlashSales -----------------------------
(***************************************************************************)
(* FlashSalesService, with the checkout that charges its prices.  A sale   *)
(* is shown while it is active and its window is open; its items are       *)
(* replaced by a DELETE and an INSERT, each committed by itself.           *)
(***************************************************************************)
EXTENDS Handlers, FiniteSetsExt

CONSTANTS
  Sales,      \* bound: the flash sales there can be
  Items,      \* variants of products
  MaxEdits    \* bound: the edits that write items

VARIABLES
  sales,      \* flash_sale by id
  items,      \* flash_sale_item by sale: a function on the variants on sale
  entered,    \* auxiliary: the variants on sale, as the last edit entered them
  edits,      \* the edits so far
  torn        \* auxiliary: sales with an edit that ended half way

saleVars == <<sales, items, entered, edits, torn>>

Window == {"ahead", "open", "over"}

FlashSale == [status : {"absent", "active", "paused"}, window : Window]
FlashSaleItem == [price : Nat, left : Int]   \* gia_flash, so_luong_gioi_han - so_luong_da_ban

NoSale == [status |-> "absent", window |-> "ahead"]
NoItems == [v \in {} |-> 0]

There == {s \in Sales : sales[s].status # "absent"}
Visible == {s \in There : sales[s].status = "active" /\ sales[s].window = "open"}

\* Price 1 of a sale is below price 2, that of the shop.
ItemRows(S) == [v \in S |-> [price |-> 1, left |-> 1]]

SalesInit ==
  /\ sales \in [Sales -> {NoSale, [status |-> "active", window |-> "open"]}]
  /\ items = [s \in Sales |-> IF sales[s] = NoSale THEN NoItems ELSE ItemRows(Items)]
  /\ entered = [s \in Sales |-> DOMAIN items[s]] /\ edits = 0 /\ torn = {}

-----------------------------------------------------------------------------
(* The administration *)

TimePasses(s) ==
  /\ s \in There /\ sales[s].window # "over"
  /\ sales' = [sales EXCEPT ![s].window = IF @ = "ahead" THEN "open" ELSE "over"]
  /\ UNCHANGED <<handling, items, entered, edits, torn>>

\* create: the sale is saved, and shown, before its items are.
CreateSale(r, s) ==
  /\ s \notin There /\ edits < MaxEdits
  /\ \E status \in {"active", "paused"}, window \in {"ahead", "open"}, S \in SUBSET Items \ {{}} :
       /\ sales' = [sales EXCEPT ![s] = [status |-> status, window |-> window]]
       /\ Begin(r, "items", [sale |-> s, items |-> ItemRows(S)])
       /\ entered' = [entered EXCEPT ![s] = S]
  /\ edits' = edits + 1 /\ UNCHANGED <<items, torn>>

Editable(s) == s \notin Visible

\* update: the fields of the sale, and the items unless the sale is shown.
UpdateRead(r, s) ==
  /\ s \in There /\ edits < MaxEdits /\ edits' = edits + 1
  /\ \/ Begin(r, "fields", [sale |-> s, row |-> sales[s]])
     \/ Editable(s) /\ \E S \in SUBSET Items \ {{}} :
          Begin(r, "save sale", [sale |-> s, row |-> sales[s], items |-> ItemRows(S)])
  /\ UNCHANGED <<sales, items, entered, torn>>

\* save() writes the status that was read back, with the one asked for.
UpdateFields(r) ==
  /\ pc[r] = "fields"
  /\ \E status \in {job[r].row.status, "active"} :
       sales' = [sales EXCEPT ![job[r].sale].status = status]
  /\ Finish(r) /\ UNCHANGED <<items, entered, edits, torn>>

UpdateSale(r) ==
  /\ pc[r] = "save sale"
  /\ \E status \in {job[r].row.status, "active"} :
       sales' = [sales EXCEPT ![job[r].sale].status = status]
  /\ entered' = [entered EXCEPT ![job[r].sale] = DOMAIN job[r].items]
  /\ Continue(r, "delete items", [sale |-> job[r].sale, items |-> job[r].items])
  /\ UNCHANGED <<items, edits, torn>>

Cleared(s) == [items EXCEPT ![s] = NoItems]

DeleteItems(r) ==
  /\ pc[r] = "delete items"
  /\ items' = Cleared(job[r].sale)
  /\ Continue(r, "items", job[r])
  /\ UNCHANGED <<sales, entered, edits, torn>>

\* The new items have sold nothing yet.  One that is there already (uq_fsi_sale_variant)
\* makes the INSERT fail.
InsertItems(r) ==
  /\ pc[r] = "items" /\ DOMAIN items[job[r].sale] \cap DOMAIN job[r].items = {}
  /\ items' = [items EXCEPT ![job[r].sale] =
                 [v \in DOMAIN @ \cup DOMAIN job[r].items |->
                    IF v \in DOMAIN @ THEN @[v] ELSE job[r].items[v]]]
  /\ Finish(r) /\ UNCHANGED <<sales, entered, edits, torn>>

Pause(r, s) ==
  /\ s \in There /\ sales[s].status # "paused" /\ AtOnce(r)
  /\ sales' = [sales EXCEPT ![s].status = "paused"]
  /\ UNCHANGED <<items, entered, edits, torn>>

Activate(r, s) ==
  /\ s \in There /\ sales[s].status # "active" /\ AtOnce(r)
  /\ sales' = [sales EXCEPT ![s].status = "active"]
  /\ UNCHANGED <<items, entered, edits, torn>>

-----------------------------------------------------------------------------
(* Shoppers *)

\* Mutant of TakesSale: the sale is not looked up for what is left of it.
TakesSaleSoldOut(v) == {s \in Visible : v \in DOMAIN items[s]}

\* The rows that a checkout reads; findActiveItemForVariant has the same conditions.
TakesSale(v) == {s \in Visible : v \in DOMAIN items[s] /\ items[s][v].left > 0}

\* A checkout of one unit reads the price; with several sales, any of their rows wins.
Buy(r, v) ==
  /\ IF TakesSale(v) = {} THEN Begin(r, "buy", [item |-> v, sale |-> {}, price |-> 2])
     ELSE \E s \in TakesSale(v) :
            Begin(r, "buy", [item |-> v, sale |-> {s}, price |-> items[s][v].price])
  /\ UNCHANGED saleVars

\* The counter moves without a check; the row may be gone, and then nothing moves.
BuyCommit(r) ==
  LET v == job[r].item IN
  /\ pc[r] = "buy"
  /\ items' = [s \in Sales |-> IF s \in job[r].sale /\ v \in DOMAIN items[s]
                 THEN [items[s] EXCEPT ![v].left = @ - 1] ELSE items[s]]
  /\ Finish(r) /\ UNCHANGED <<sales, entered, edits, torn>>

Abandon(r) ==
  /\ GiveUp(r)
  /\ torn' = IF pc[r] \in {"items", "delete items"} THEN torn \cup {job[r].sale} ELSE torn
  /\ UNCHANGED <<sales, items, entered, edits>>

Next ==
  \/ \E r \in Requests :
       \/ \E s \in Sales : CreateSale(r, s) \/ UpdateRead(r, s) \/ Pause(r, s) \/ Activate(r, s)
       \/ UpdateFields(r) \/ UpdateSale(r) \/ DeleteItems(r) \/ InsertItems(r)
       \/ \E v \in Items : Buy(r, v)
       \/ BuyCommit(r) \/ Abandon(r)
  \/ \E s \in Sales : TimePasses(s)

-----------------------------------------------------------------------------
\* The type of every variable.
TypeOK ==
  /\ HandlersTypeOK
  /\ sales \in [Sales -> FlashSale] /\ edits \in 0..MaxEdits /\ torn \subseteq Sales
  /\ \A s \in Sales : /\ DOMAIN items[s] \subseteq Items /\ entered[s] \subseteq Items
                      /\ \A v \in DOMAIN items[s] : items[s][v] \in FlashSaleItem

\* While handlers do not overlap, a sale that shoppers see offers the variants that
\* were entered for it, unless the process failed between the DELETE and the INSERT
\* of its items: then it is shown without any.
OffersWhatWasEntered ==
  \A s \in Visible \ torn :
    (\A r \in Requests : pc[r] \notin {"items", "delete items"}) => DOMAIN items[s] = entered[s]

\* While handlers do not overlap, no item is sold past its limit, however often its sale
\* is paused, edited and activated: the counter itself moves without a check.
NeverPastLimit == \A s \in Sales : \A v \in DOMAIN items[s] : items[s][v].left >= 0
=============================================================================

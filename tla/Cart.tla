-------------------------------- MODULE Cart --------------------------------
(***************************************************************************)
(* CartService: the cart of one customer, its preview and what a checkout  *)
(* at this moment would charge.  Adding an item reads the variant, the     *)
(* stock and the line, and saves a new quantity; a line that was removed   *)
(* meanwhile is inserted again by the save.                                *)
(***************************************************************************)
EXTENDS Handlers

CONSTANTS
  Variants, ProductOf(_), CategoryOf(_), BrandsOf(_),
  Offers,        \* the promotions that may run: records [autos, coupon]
  MaxQuantity    \* bound: the stock of a variant

VARIABLES
  made,      \* gio_hang has a row for the customer
  coupon,    \* gio_hang.coupon_code is set
  lines,     \* chi_tiet_gio_hang by variant; id tells its rows apart, 0: none
  nextLine,
  price, stock, hidden,  \* of each variant: gia_ban, so_luong_ton, trang_thai = 'An'
  offers,    \* the automatic promotions by falling priority, and the one with the code
  running,   \* the coupon is active and within its dates
  usedUp     \* its quota is exhausted

shop == <<price, stock, hidden, offers, running, usedUp>>
cartVars == <<made, coupon, lines, nextLine, shop>>

INSTANCE PromotionRules

Line == [id : Nat, quantity : Nat, price : Nat]
NoLine == [id |-> 0, quantity |-> 0, price |-> 0]

CartInit ==
  /\ coupon \in BOOLEAN /\ nextLine = 2
  /\ lines \in [Variants -> {NoLine} \cup {[id |-> 1, quantity |-> n, price |-> 40] : n \in {2}}]
  /\ made = (coupon \/ \E v \in Variants : lines[v] # NoLine)
  /\ price = [v \in Variants |-> 40] /\ stock = [v \in Variants |-> MaxQuantity]
  /\ hidden = {} /\ offers \in Offers /\ running = TRUE /\ usedUp = FALSE

-----------------------------------------------------------------------------
(* The shop around the cart *)

ChangeProduct(r, v) ==
  /\ AtOnce(r)
  /\ \/ price' = [price EXCEPT ![v] = IF @ = 40 THEN 25 ELSE 40] /\ UNCHANGED <<stock, hidden>>
     \/ stock' = [stock EXCEPT ![v] = 1] /\ UNCHANGED <<price, hidden>>
     \/ hidden' = hidden \cup {v} /\ UNCHANGED <<price, stock>>
  /\ UNCHANGED <<made, coupon, lines, nextLine, offers, running, usedUp>>

CouponEnds(r) ==
  /\ AtOnce(r)
  /\ \/ running' = FALSE /\ UNCHANGED usedUp
     \/ usedUp' = TRUE /\ UNCHANGED running
  /\ UNCHANGED <<made, coupon, lines, nextLine, price, stock, hidden, offers>>

-----------------------------------------------------------------------------
(* Lines *)

\* getMyCart, and every handler that finds no cart, inserts one.
GetMyCart(r) ==
  AtOnce(r) /\ made' = TRUE /\ UNCHANGED <<coupon, lines, nextLine, shop>>

\* The new quantity of a line, if the stock has it.
Grown(v, n) == {lines[v].quantity + n} \cap 0..stock[v]

AddRead(r, v, n) ==
  /\ v \notin hidden
  /\ \E q \in Grown(v, n) :
       Begin(r, "save line", [variant |-> v, line |->
         [id |-> lines[v].id, quantity |-> q, price |-> price[v]]])
  /\ made' = TRUE /\ UNCHANGED <<coupon, lines, nextLine, shop>>

UpdateRead(r, v, n) ==
  /\ lines[v].id # 0 /\ n <= stock[v]
  /\ Begin(r, "save line", [variant |-> v, line |-> [lines[v] EXCEPT !.quantity = n]])
  /\ UNCHANGED cartVars

Saved(line) == IF line.id = 0 THEN [line EXCEPT !.id = nextLine] ELSE line

\* A new line collides with one that was added meanwhile (uq_ctgh_phienban), and so
\* does an old one that was removed and added again; a removed one comes back.
SaveLine(r) ==
  LET v == job[r].variant  line == Saved(job[r].line) IN
  /\ pc[r] = "save line"
  /\ IF lines[v].id \in {0, line.id}
     THEN /\ lines' = [lines EXCEPT ![v] = line]
          /\ nextLine' = IF job[r].line.id = 0 THEN nextLine + 1 ELSE nextLine
     ELSE UNCHANGED <<lines, nextLine>>
  /\ Finish(r) /\ UNCHANGED <<made, coupon, shop>>

RemoveItem(r, v) ==
  /\ lines[v].id # 0 /\ AtOnce(r)
  /\ lines' = [lines EXCEPT ![v] = NoLine]
  /\ UNCHANGED <<made, coupon, nextLine, shop>>

\* Called by a checkout that is paid on delivery, too.
ClearCart(r) ==
  /\ AtOnce(r) /\ lines' = [v \in Variants |-> NoLine]
  /\ UNCHANGED <<made, coupon, nextLine, shop>>

-----------------------------------------------------------------------------
(* Prices *)

Units == [v \in Variants |-> lines[v].quantity]
PriceAtTime == [v \in Variants |-> lines[v].price]

\* What the cart shows: its own prices, no shipping fee, never a first order.
CartContext == Context(Units, PriceAtTime, FALSE, 0, TRUE)
ShownAutos == IF InCart(CartContext) = {} THEN <<>> ELSE Preview(offers.autos, CartContext)
ShownCoupon == PreviewCoupon(offers.coupon, running, usedUp, CartContext)
ShownPrices == IF coupon THEN Append(ShownAutos, ShownCoupon) ELSE ShownAutos

\* What the checkout of this cart would charge, and whether it would take the coupon.
CheckoutContext(fee) == Context(Units, PriceAtTime, FALSE, fee, TRUE)
CouponContext == Context(Units, PriceAtTime, FALSE, 0, FALSE)
CouponTaken == running /\ CouponApplies(offers.coupon, usedUp, 0, CouponContext)
ChargedTotal(fee) ==
  Charged(Effects(offers.autos, CheckoutContext(fee)),
          IF coupon THEN Discount(offers.coupon, CouponContext) ELSE 0, CheckoutContext(fee))

\* setCoupon tries the coupon on the cart, and saves the code.
SetCouponRead(r) ==
  /\ made /\ InCart(CartContext) # {}
  /\ running /\ CouponApplies(offers.coupon, usedUp, 0, CartContext)
  /\ Begin(r, "set coupon", [code |-> TRUE]) /\ UNCHANGED cartVars

SetCoupon(r) ==
  /\ pc[r] = "set coupon" /\ coupon' = TRUE
  /\ Finish(r) /\ UNCHANGED <<made, lines, nextLine, shop>>

ClearCoupon(r) ==
  /\ coupon /\ AtOnce(r) /\ coupon' = FALSE /\ UNCHANGED <<made, lines, nextLine, shop>>

Next ==
  \E r \in Requests :
    \/ \E v \in Variants :
         \/ ChangeProduct(r, v) \/ RemoveItem(r, v)
         \/ \E n \in 1..2 : AddRead(r, v, n) \/ UpdateRead(r, v, n)
    \/ CouponEnds(r) \/ GetMyCart(r) \/ SaveLine(r) \/ ClearCart(r)
    \/ SetCouponRead(r) \/ SetCoupon(r) \/ ClearCoupon(r)
    \/ GiveUp(r) /\ UNCHANGED cartVars

-----------------------------------------------------------------------------
\* The type of every variable.
TypeOK ==
  /\ HandlersTypeOK
  /\ made \in BOOLEAN /\ coupon \in BOOLEAN /\ nextLine \in Nat \ {0}
  /\ lines \in [Variants -> Line]
  /\ \A v \in Variants : lines[v].id = 0 <=> lines[v] = NoLine
  /\ price \in [Variants -> Nat] /\ stock \in [Variants -> 0..MaxQuantity]
  /\ hidden \subseteq Variants /\ offers \in Offers
  /\ running \in BOOLEAN /\ usedUp \in BOOLEAN

\* The cart and the checkout mean the same by a coupon: it runs, covers the whole shop,
\* and is worth the same without the products of the variants and without a fee.
CouponComparable ==
  /\ CouponTaken /\ offers.coupon.scopes = {}
  /\ offers.coupon.action.type \in {"percentage_discount", "fixed_discount_cart", "bulk_discount"}

\* Under any interleaving: while prices stand and the discounts leave something to pay,
\* the total that the cart shows, with the shipping fee it announces, is what the
\* checkout would charge, whatever promotions run.  Gifts are priced as lines of the
\* order and are left out, and so is a fee of 0, which disarms free shipping.
PreviewIsCharged ==
  (/\ InCart(CartContext) # {}
   /\ \A v \in Variants : lines[v].id # 0 => lines[v].price = price[v]
   /\ coupon => CouponComparable
   /\ \A i \in DOMAIN offers.autos : offers.autos[i].action.type # "bxgy"
   /\ ChargedTotal(25) >= 25)
  => LET fee == 25 IN
       ChargedTotal(fee) = ShownTotal(ShownPrices, CartContext)
         + IF \E i \in DOMAIN ShownAutos : /\ ShownAutos[i].status = "active"
                                           /\ ShownAutos[i].promotion.action.type = "free_shipping"
           THEN 0 ELSE fee

\* The combos that a bundle pays for are there: their components can be taken out of
\* the cart together (any of them find their units), and one combo more cannot.  Components that share a variant are
\* counted twice by the code and are left out.
BundlesFit ==
  \A i \in DOMAIN offers.autos : LET a == offers.autos[i].action IN
    (/\ a.type = "bundle_discount"
     /\ \A c, d \in a.components : c # d => Matching(c, CartContext) \cap Matching(d, CartContext) = {})
    => LET Fit(n) == \A C \in SUBSET a.components :
             n * MapThenSumSet(LAMBDA c : c.min, C)
               <= UnitsIn(UNION {Matching(c, CartContext) : c \in C}, CartContext)
       IN Fit(Bundles(a, CartContext)) /\ ~Fit(Bundles(a, CartContext) + 1)

\* While handlers do not overlap, a line grows only as far as the stock.
GrowthIsCovered ==
  \A v \in Variants : lines'[v].quantity > lines[v].quantity => lines'[v].quantity <= stock[v]
=============================================================================

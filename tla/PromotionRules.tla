--------------------------- MODULE PromotionRules ---------------------------
(***************************************************************************)
(* PromotionEvaluatorService, and the two callers that price a cart with   *)
(* it: the preview of GET /cart and the checkout of OrdersService.         *)
(*                                                                         *)
(* Amounts are in thousands of dong.  Labels and texts are left out.       *)
(***************************************************************************)
EXTENDS Integers, Sequences, FiniteSets, FiniteSetsExt, SequencesExt

CONSTANTS Variants, ProductOf(_), CategoryOf(_), BrandsOf(_)

NoLimit == -1

\* What a promotion is evaluated against.  products is FALSE where the caller does
\* not pass the products of the variants.
Context(units, price, first, fee, products) ==
  [units |-> units, price |-> price, first |-> first, fee |-> fee, products |-> products,
   subtotal |-> MapThenSumSet(LAMBDA v : units[v] * price[v], Variants)]

InCart(ctx) == {v \in Variants : ctx.units[v] > 0}
UnitsIn(S, ctx) == MapThenSumSet(LAMBDA v : ctx.units[v], S)
Categories(ctx) == {CategoryOf(v) : v \in InCart(ctx)}
Brands(ctx) == UNION {BrandsOf(v) : v \in InCart(ctx)}

\* Math.round(n * p / 100)
Percent(n, p) == (2 * n * p + 100) \div 200

-----------------------------------------------------------------------------
(* When a promotion applies *)

\* checkScope: one matching scope is enough; a scope of kind "product" matches nothing.
InScope(scopes, ctx) ==
  scopes = {} \/ \E s \in scopes :
    \/ s.kind = "global"
    \/ s.kind = "category" /\ s.ref \in Categories(ctx)
    \/ s.kind = "brand" /\ s.ref \in Brands(ctx)
    \/ s.kind = "variant" /\ s.ref \in InCart(ctx)

Compare(op, actual, expected) ==
  CASE op = "gte" -> actual >= expected [] op = "lte" -> actual <= expected
    [] op = "eq" -> actual = expected [] OTHER -> TRUE

Found(op, wanted, there) ==
  CASE op = "any_in_cart" -> wanted \cap there # {} [] op = "all_in_cart" -> wanted \subseteq there
    [] OTHER -> TRUE

\* evaluateCondition.  No caller passes a payment method or a platform.
Holds(c, ctx) ==
  CASE c.type = "min_order_value" -> Compare(c.operator, ctx.subtotal, c.value)
    [] c.type = "min_item_quantity" -> Compare(c.operator, UnitsIn(Variants, ctx), c.value)
    [] c.type = "first_order_only" -> ctx.first
    [] c.type \in {"payment_method", "platform"} -> FALSE
    [] c.type = "required_categories" -> Found(c.operator, c.value, Categories(ctx))
    [] c.type = "required_products" -> Found(c.operator, c.value, InCart(ctx))
    [] OTHER -> TRUE

Met(conditions, ctx) == \A c \in conditions : Holds(c, ctx)

-----------------------------------------------------------------------------
(* What a promotion is worth *)

Matching(c, ctx) ==
  CASE c.scope = "variant" -> {v \in InCart(ctx) : v = c.ref}
    [] c.scope = "product" -> {v \in InCart(ctx) : ctx.products /\ ProductOf(v) = c.ref}
    [] c.scope = "category" -> {v \in InCart(ctx) : ctx.products /\ CategoryOf(v) = c.ref}
    [] OTHER -> {}

\* How many whole combos the cart holds.
Bundles(a, ctx) ==
  IF a.components = {} THEN 0
  ELSE Min({UnitsIn(Matching(c, ctx), ctx) \div Max({1, c.min}) : c \in a.components})

\* The price of one combo, each component at its cheapest match.
ComboBase(a, ctx) ==
  MapThenSumSet(LAMBDA c : c.min * Min({ctx.price[v] : v \in Matching(c, ctx)}), a.components)

BundleDiscount(a, ctx) ==
  IF Bundles(a, ctx) = 0 THEN 0
  ELSE Min({ctx.subtotal,
            CASE a.kind = "percentage" -> Percent(ComboBase(a, ctx) * Bundles(a, ctx), a.value)
              [] a.kind = "fixed" -> a.value * Bundles(a, ctx) [] OTHER -> 0})

\* countBxgyApplications; buy is the product to buy, or the list of those that count.
Applications(a, ctx) ==
  LET bought == IF a.buy = {} THEN InCart(ctx)
                ELSE {v \in InCart(ctx) : ctx.products /\ ProductOf(v) \in a.buy}
      times == UnitsIn(bought, ctx) \div Max({1, a.buyQuantity})
  IN IF a.most = NoLimit THEN times ELSE Max({0, Min({times, a.most})})

\* applyBxgy: worth nothing while the gift is not in the cart.
GiftDiscount(a, ctx) ==
  LET gifts == {v \in InCart(ctx) : ctx.products /\ ProductOf(v) = a.gift} IN
  IF gifts = {} THEN 0
  ELSE Percent(ctx.price[CHOOSE v \in gifts : TRUE] * a.giftQuantity * Applications(a, ctx),
               a.percent)

\* The tiers that fit the cart, and the one with the highest threshold.
Tiers(a, ctx) ==
  LET n == UnitsIn(Variants, ctx) IN
  {t \in a.tiers : n >= t.min /\ (t.max = NoLimit \/ n <= t.max)}

TierOf(a, ctx) == CHOOSE t \in Tiers(a, ctx) : \A u \in Tiers(a, ctx) : u.min <= t.min

BulkDiscount(a, ctx) ==
  IF Tiers(a, ctx) = {} THEN 0
  ELSE LET t == TierOf(a, ctx) IN
       IF t.kind = "percentage" THEN Percent(ctx.subtotal, t.value)
       ELSE Min({t.value, ctx.subtotal})

\* applyAction, of the first action of the promotion.
Discount(p, ctx) == LET a == p.action IN
  CASE a.type = "percentage_discount" ->
         IF a.most # 0 THEN Min({Percent(ctx.subtotal, a.value), a.most})
         ELSE Percent(ctx.subtotal, a.value)
    [] a.type = "fixed_discount_cart" -> Min({a.value, ctx.subtotal})
    [] a.type = "free_shipping" -> ctx.fee
    [] a.type = "bulk_discount" -> BulkDiscount(a, ctx)
    [] a.type = "bundle_discount" -> BundleDiscount(a, ctx)
    [] a.type = "bxgy" -> GiftDiscount(a, ctx)
    [] OTHER -> 0

-----------------------------------------------------------------------------
(* The preview of the cart *)

Shown(p, status, amount) == [promotion |-> p, status |-> status, amount |-> amount]

\* evaluateForCart, for the automatic promotions by falling priority: one that is met
\* but worth nothing is not shown, unless it frees the shipping.
PreviewOne(shown, p, ctx) ==
  LET met == Met(p.conditions, ctx)
      amount == IF met THEN Discount(p, ctx) ELSE 0
      closed == \E i \in DOMAIN shown :
                  shown[i].status = "active" /\ shown[i].promotion.exclusive
  IN IF closed \/ ~InScope(p.scopes, ctx)
          \/ (met /\ amount <= 0 /\ p.action.type # "free_shipping")
     THEN shown
     ELSE Append(shown, Shown(p, IF met THEN "active" ELSE "unmet", amount))

\* The coupon that is saved in the cart.  found is FALSE when no promotion that runs
\* has this code; usedUp says that its quota is exhausted.
PreviewCoupon(p, found, usedUp, ctx) ==
  IF ~found THEN Shown(p, "exhausted", 0)
  ELSE IF usedUp THEN Shown(p, "exhausted", 0)
  ELSE IF InScope(p.scopes, ctx) /\ Met(p.conditions, ctx)
  THEN Shown(p, "active", Discount(p, ctx))
  ELSE Shown(p, "unmet", 0)

Preview(autos, ctx) == FoldLeft(LAMBDA shown, p : PreviewOne(shown, p, ctx), <<>>, autos)

Sum(s) == FoldLeft(LAMBDA n, x : n + x.amount, 0, s)

\* buildCartDto: free shipping does not reduce the goods' total.
ShownTotal(shown, ctx) ==
  LET active == SelectSeq(shown, LAMBDA x : x.status = "active"
                                     /\ x.promotion.action.type # "free_shipping")
  IN Max({0, ctx.subtotal - Sum(active)})

-----------------------------------------------------------------------------
(* The checkout *)

\* evaluateSinglePromotion: no effect is <<>>; a gift is priced as a line of its own.
Effect(p, ctx) ==
  LET worth == IF p.action.type = "bxgy" THEN 0 ELSE Discount(p, ctx)
      gives == IF p.action.type = "bxgy" THEN Applications(p.action, ctx) > 0 ELSE worth > 0
  IN IF InScope(p.scopes, ctx) /\ Met(p.conditions, ctx) /\ gives
     THEN <<[promotion |-> p, amount |-> worth]>> ELSE <<>>

\* Mutant of ChargeOne: an exclusive promotion does not end the list.
ChargeOneMore(effects, p, ctx) == effects \o Effect(p, ctx)

\* evaluateAutoPromotionsForCheckout
ChargeOne(effects, p, ctx) ==
  IF \E i \in DOMAIN effects : effects[i].amount > 0 /\ effects[i].promotion.exclusive
  THEN effects ELSE effects \o Effect(p, ctx)

Effects(autos, ctx) == FoldLeft(LAMBDA es, p : ChargeOne(es, p, ctx), <<>>, autos)

\* applyCoupon: the scopes of the coupon are not checked.
CouponApplies(p, usedUp, used, ctx) ==
  /\ ~usedUp /\ (p.perCustomer = NoLimit \/ used < p.perCustomer)
  /\ Met(p.conditions, ctx)

\* The goods of the order and its shipping, after all discounts; no lower bound.
Charged(effects, coupon, ctx) ==
  LET free == \E i \in DOMAIN effects : effects[i].promotion.action.type = "free_shipping"
      goods == SelectSeq(effects, LAMBDA e : e.promotion.action.type # "free_shipping")
  IN ctx.subtotal + (IF free THEN 0 ELSE ctx.fee) - Sum(goods) - coupon
=============================================================================

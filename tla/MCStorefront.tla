--------------------------- MODULE MCStorefront -----------------------------
(***************************************************************************)
(* What customers do in the storefront, and what follows a sale. The       *)
(* components below share no rows with each other, so each is explored     *)
(* alone: desk says whose requests are served, one at a time or            *)
(* overlapping, and the state of the others stays off.                     *)
(***************************************************************************)
EXTENDS Integers, Sequences, FiniteSets, TLC

VARIABLES
  desk, pc, job, served,
  \* Cart
  made, coupon, lines, nextLine, price, stock, hidden, offers, running, usedUp,
  \* Promotions
  rows, parts, entered, usages, rewards, edits, torn,
  \* FlashSales
  sales, items, onSale, saleEdits, tornSales,
  \* Sessions
  account, sessions, expired, tokens, links, staff, nextId, revoked, barred,
  exchanged,
  \* CustomerProfile
  addresses, nextAddress, mailsOn, avatar, uploads, changed, uncounted,
  \* MembershipTiers
  tiers, nextTier, tierPoints,
  \* BuildRules
  slots, rules, picked,
  \* SavedBuilds
  builds, details, nextBuild, counted, enteredParts, tornBuilds,
  \* Returns
  orders, requests, resolutions, returnStock, returnPoints,
  \* Payments
  gateway, payment, paidBy, orderStatus, captured, sent, confirmedBy,
  \* Reviews
  delivered, reviews, messages, rating, tornReviews,
  \* SupportTickets
  tickets, log, aged, late, tornTickets

\* Cart: the instance that is explored.
\* Two variants of one product, and a third of another.
ShopVariants == {"a", "b", "c"}
ProductOf(v) == IF v = "c" THEN "Q" ELSE "P"
CategoryOf(v) == IF v = "c" THEN "K2" ELSE "K1"
BrandsOf(v) == IF v = "c" THEN {"B"} ELSE {}

Promo(exclusive, scopes, conditions, action) ==
  [exclusive |-> exclusive, scopes |-> scopes, conditions |-> conditions, action |-> action,
   perCustomer |-> 1]
PercentOff(p, most) == [type |-> "percentage_discount", value |-> p, most |-> most]
AmountOff(n) == [type |-> "fixed_discount_cart", value |-> n]
FreeShipping == [type |-> "free_shipping"]
Bundle(kind, n, components) ==
  [type |-> "bundle_discount", kind |-> kind, value |-> n, components |-> components]
Part(scope, ref, n) == [scope |-> scope, ref |-> ref, min |-> n]
Bulk == [type |-> "bulk_discount",
         tiers |-> {[min |-> 2, max |-> 3, kind |-> "percentage", value |-> 10],
                    [min |-> 3, max |-> -1, kind |-> "fixed", value |-> 30]}]
Gift == [type |-> "bxgy", buy |-> {"P"}, buyQuantity |-> 2, most |-> 1, gift |-> "Q",
         giftQuantity |-> 1, percent |-> 50]
Least(type, n) == [type |-> type, operator |-> "gte", value |-> n]
Wants(type, op, refs) == [type |-> type, operator |-> op, value |-> refs]
Scope(kind, ref) == [kind |-> kind, ref |-> ref]


Code == Promo(TRUE, {}, {Least("min_order_value", 60)}, PercentOff(15, 10))
OffersHere == {
  [autos |-> <<Promo(FALSE, {Scope("brand", "B")}, {}, PercentOff(33, 0)),
               Promo(TRUE, {}, {Least("min_item_quantity", 2)}, AmountOff(20)),
               Promo(FALSE, {}, {}, FreeShipping)>>, coupon |-> Code],
  [autos |-> <<Promo(FALSE, {}, {Wants("required_products", "all_in_cart", {"a", "c"})}, FreeShipping),
               Promo(FALSE, {Scope("category", "K1")}, {}, Bulk)>>,
   coupon |-> Promo(TRUE, {}, {Wants("required_categories", "any_in_cart", {"K2"})}, AmountOff(35))],
  [autos |-> <<Promo(TRUE, {}, {},
                 Bundle("percentage", 15, {Part("variant", "a", 2), Part("product", "Q", 1)})),
               Promo(FALSE, {Scope("variant", "c")}, {}, PercentOff(5, 0))>>, coupon |-> Code],
  [autos |-> <<Promo(FALSE, {}, {[type |-> "payment_method"]}, AmountOff(40)),
               Promo(FALSE, {Scope("global", "")}, {},
                 Bundle("fixed", 10, {Part("category", "K1", 1), Part("category", "K2", 1)}))>>,
   coupon |-> Promo(TRUE, {}, {[type |-> "first_order_only"]}, Bulk)],
  [autos |-> <<Promo(FALSE, {}, {}, Gift)>>, coupon |-> Promo(TRUE, {}, {}, Bulk)]}

\* BuildRules: the instance that is explored.
\* A processor p, a board and a power supply; the others are below K2 in the tree.
BuildCategory(v) == IF v = "p" THEN "K1" ELSE IF v = "board" THEN "K22" ELSE "K21"
BuildParent(c) == IF c = "K22" THEN "K21" ELSE IF c = "K21" THEN "K2" ELSE "none"
BuildText(v, key) ==
  IF key = "socket" THEN (IF v = "p" THEN "AM5" ELSE IF v = "board" THEN "LGA" ELSE "")
  ELSE IF v = "board" THEN "" ELSE "w"
BuildNumber(v, key) ==
  IF key # "watt" THEN -1 ELSE IF v = "p" THEN 2 ELSE IF v = "board" THEN -1 ELSE 3
BuildList(v, key) == {BuildText(v, key), "AM4"}
BuildRule(source, key, dest, destKey, type, fallback, mandatory) ==
  [source |-> source, key |-> key, dest |-> dest, destKey |-> destKey, type |-> type,
   factor |-> 0, fallback |-> fallback, mandatory |-> mandatory, isActive |-> TRUE]
BuildRuleRequests == {
  BuildRule(1, "socket", 2, "socket", "exact_match", "", TRUE),
  BuildRule(1, "socket", 0, "", "contains", "AM5", FALSE),
  BuildRule(2, "socket", 1, "socket", "contains", "", TRUE),
  BuildRule(2, "watt", 1, "watt", "min_sum", "", TRUE),
  BuildRule(1, "watt", 2, "watt", "min_value", "", TRUE)}

\* Reviews: the instance that is explored.
RatedProduct(v) == IF v = "c" THEN "Q" ELSE "P"

One == {"r1"}
Two == {"r1", "r2"}

CartAlone == INSTANCE Cart WITH Requests <- One, MaxServed <- 2,
  Variants <- ShopVariants, Offers <- OffersHere, MaxQuantity <- 3
CartTogether == INSTANCE Cart WITH Requests <- Two, MaxServed <- 2,
  Variants <- ShopVariants, Offers <- OffersHere, MaxQuantity <- 3
PromotionsAlone == INSTANCE Promotions WITH Requests <- One, MaxServed <- 2,
  Promotions <- 1..2, Codes <- {"code", "code-copy"}, UsageLimit <- 1, MaxEdits <- 2
PromotionsTogether == INSTANCE Promotions WITH Requests <- Two, MaxServed <- 2,
  Promotions <- 1..2, Codes <- {"code", "code-copy"}, UsageLimit <- 1, MaxEdits <- 2
FlashSalesAlone == INSTANCE FlashSales WITH Requests <- One, MaxServed <- 4,
  Sales <- 1..2, Items <- {"a", "b"}, MaxEdits <- 2, entered <- onSale,
  edits <- saleEdits, torn <- tornSales
FlashSalesTogether == INSTANCE FlashSales WITH Requests <- Two, MaxServed <- 2,
  Sales <- 1..2, Items <- {"a", "b"}, MaxEdits <- 2, entered <- onSale,
  edits <- saleEdits, torn <- tornSales
SessionsAlone == INSTANCE Sessions WITH Requests <- One, MaxServed <- 4,
  Cap <- 2, MaxIds <- 4
SessionsTogether == INSTANCE Sessions WITH Requests <- Two, MaxServed <- 3,
  Cap <- 2, MaxIds <- 4
CustomerProfileAlone == INSTANCE CustomerProfile WITH Requests <- One, MaxServed <- 6,
  MaxAddresses <- 2, MaxAvatars <- 2, AddressIds <- 1..3
CustomerProfileTogether == INSTANCE CustomerProfile WITH Requests <- Two, MaxServed <- 2,
  MaxAddresses <- 2, MaxAvatars <- 2, AddressIds <- 1..3
MembershipTiersAlone == INSTANCE MembershipTiers WITH Requests <- One, MaxServed <- 3,
  points <- tierPoints, TierIds <- 1..2, Names <- {"Bronze", "Silver"},
  Customers <- {"k1"}, MaxPoints <- 2
MembershipTiersTogether == INSTANCE MembershipTiers WITH Requests <- Two, MaxServed <- 2,
  points <- tierPoints, TierIds <- 1..2, Names <- {"Bronze", "Silver"},
  Customers <- {"k1"}, MaxPoints <- 2
BuildRulesAlone == INSTANCE BuildRules WITH Requests <- One, MaxServed <- 4,
  Parts <- {"p", "board", "psu"}, Categories <- {"K1", "K2", "K21", "K22", "K3"},
  CategoryOf <- BuildCategory, ParentOf <- BuildParent, TextOf <- BuildText,
  NumberOf <- BuildNumber, ListOf <- BuildList, SlotIds <- 1..2, RuleIds <- 1..1,
  RuleRequests <- BuildRuleRequests, MaxQuantity <- 2
SavedBuildsAlone == INSTANCE SavedBuilds WITH Requests <- One, MaxServed <- 4,
  Customers <- {"k1", "k2"}, Parts <- {"p"}, BuildIds <- 1..3, MaxBuilds <- 1,
  entered <- enteredParts, torn <- tornBuilds
ReturnsAlone == INSTANCE Returns WITH Requests <- One, MaxServed <- 3,
  Receipts <- {"receipt"}, NoReceipt <- "none", Quantity <- 1, InitialStock <- 1,
  Earned <- 2, InitialPoints <- 3, Warranted <- TRUE, Decisions <- {}, Asked <- {1},
  MaxRequests <- 2, stock <- returnStock, points <- returnPoints
ReturnsTogether == INSTANCE Returns WITH Requests <- Two, MaxServed <- 3,
  Receipts <- {"receipt"}, NoReceipt <- "none", Quantity <- 1, InitialStock <- 1,
  Earned <- 2, InitialPoints <- 3, Warranted <- TRUE, Decisions <- {}, Asked <- {1},
  MaxRequests <- 2, stock <- returnStock, points <- returnPoints
PaymentsAlone == INSTANCE Payments WITH Requests <- One, MaxServed <- 6
PaymentsTogether == INSTANCE Payments WITH Requests <- Two, MaxServed <- 4
ReviewsAlone == INSTANCE Reviews WITH Requests <- One, MaxServed <- 4,
  Orders <- {"o1", "o2"}, Variants <- {"a", "b", "c"}, ProductOf <- RatedProduct,
  Ids <- 1..2, Stars <- {1, 4}, torn <- tornReviews
ReviewsTogether == INSTANCE Reviews WITH Requests <- Two, MaxServed <- 2,
  Orders <- {"o1", "o2"}, Variants <- {"a", "b", "c"}, ProductOf <- RatedProduct,
  Ids <- 1..2, Stars <- {1, 4}, torn <- tornReviews
SupportTicketsAlone == INSTANCE SupportTickets WITH Requests <- One, MaxServed <- 4,
  Tickets <- 1..1, Staff <- {"e1", "e2"}, Editors <- {"e2"}, torn <- tornTickets

cartRows == <<made, coupon, lines, nextLine, price, stock, hidden, offers,
    running, usedUp>>
promotionsRows == <<rows, parts, entered, usages, rewards, edits, torn>>
flashSalesRows == <<sales, items, onSale, saleEdits, tornSales>>
sessionsRows == <<account, sessions, expired, tokens, links, staff, nextId,
    revoked, barred, exchanged>>
customerProfileRows == <<addresses, nextAddress, mailsOn, avatar, uploads,
    changed, uncounted>>
membershipTiersRows == <<tiers, nextTier, tierPoints>>
buildRulesRows == <<slots, rules, picked>>
savedBuildsRows == <<builds, details, nextBuild, counted, enteredParts,
    tornBuilds>>
returnsRows == <<orders, requests, resolutions, returnStock, returnPoints>>
paymentsRows == <<gateway, payment, paidBy, orderStatus, captured, sent,
    confirmedBy>>
reviewsRows == <<delivered, reviews, messages, rating, tornReviews>>
supportTicketsRows == <<tickets, log, aged, late, tornTickets>>

\* The state of a component that is not explored.
CartOff == made = 0 /\ coupon = 0 /\ lines = 0 /\ nextLine = 0 /\ price = 0 /\
  stock = 0 /\ hidden = 0 /\ offers = 0 /\ running = 0 /\ usedUp = 0
PromotionsOff == rows = 0 /\ parts = 0 /\ entered = 0 /\ usages = 0 /\ rewards =
  0 /\ edits = 0 /\ torn = 0
FlashSalesOff == sales = 0 /\ items = 0 /\ onSale = 0 /\ saleEdits = 0 /\
  tornSales = 0
SessionsOff == account = 0 /\ sessions = 0 /\ expired = 0 /\ tokens = 0 /\ links
  = 0 /\ staff = 0 /\ nextId = 0 /\ revoked = 0 /\ barred = 0 /\ exchanged = 0
CustomerProfileOff == addresses = 0 /\ nextAddress = 0 /\ mailsOn = 0 /\ avatar
  = 0 /\ uploads = 0 /\ changed = 0 /\ uncounted = 0
MembershipTiersOff == tiers = 0 /\ nextTier = 0 /\ tierPoints = 0
BuildRulesOff == slots = 0 /\ rules = 0 /\ picked = 0
SavedBuildsOff == builds = 0 /\ details = 0 /\ nextBuild = 0 /\ counted = 0 /\
  enteredParts = 0 /\ tornBuilds = 0
ReturnsOff == orders = 0 /\ requests = 0 /\ resolutions = 0 /\ returnStock = 0
  /\ returnPoints = 0
PaymentsOff == gateway = 0 /\ payment = 0 /\ paidBy = 0 /\ orderStatus = 0 /\
  captured = 0 /\ sent = 0 /\ confirmedBy = 0
ReviewsOff == delivered = 0 /\ reviews = 0 /\ messages = 0 /\ rating = 0 /\
  tornReviews = 0
SupportTicketsOff == tickets = 0 /\ log = 0 /\ aged = 0 /\ late = 0 /\
  tornTickets = 0

Overlapping == {"cart, overlapping", "promotions, overlapping",
    "flash sales, overlapping", "sessions, overlapping", "profile, overlapping",
    "tiers, overlapping", "returns, overlapping", "payments, overlapping",
    "reviews, overlapping"}
Slots == IF desk \in Overlapping THEN Two ELSE One

Init ==
  /\ desk \in Overlapping \cup {"cart", "promotions", "flash sales", "sessions",
       "profile", "tiers", "build rules", "saved builds", "returns", "payments",
       "reviews", "support"}
  /\ IF desk \in {"cart", "cart, overlapping"}
       THEN CartAlone!CartInit ELSE CartOff
  /\ IF desk \in {"promotions", "promotions, overlapping"}
       THEN PromotionsAlone!PromotionsInit ELSE PromotionsOff
  /\ IF desk \in {"flash sales", "flash sales, overlapping"}
       THEN FlashSalesAlone!SalesInit ELSE FlashSalesOff
  /\ IF desk \in {"sessions", "sessions, overlapping"}
       THEN SessionsAlone!SessionsInit ELSE SessionsOff
  /\ IF desk \in {"profile", "profile, overlapping"}
       THEN CustomerProfileAlone!ProfileInit ELSE CustomerProfileOff
  /\ IF desk \in {"tiers", "tiers, overlapping"}
       THEN MembershipTiersAlone!TiersInit ELSE MembershipTiersOff
  /\ IF desk \in {"build rules"}
       THEN BuildRulesAlone!RulesInit ELSE BuildRulesOff
  /\ IF desk \in {"saved builds"}
       THEN SavedBuildsAlone!BuildsInit ELSE SavedBuildsOff
  /\ IF desk \in {"returns", "returns, overlapping"}
       THEN ReturnsAlone!ReturnsInit ELSE ReturnsOff
  /\ IF desk \in {"payments", "payments, overlapping"}
       THEN PaymentsAlone!PaymentsInit ELSE PaymentsOff
  /\ IF desk \in {"reviews", "reviews, overlapping"}
       THEN ReviewsAlone!ReviewsInit ELSE ReviewsOff
  /\ IF desk \in {"support"}
       THEN SupportTicketsAlone!TicketsInit ELSE SupportTicketsOff
  /\ pc = [r \in Slots |-> "idle"] /\ job = [r \in Slots |-> <<>>] /\ served = 0

Next ==
  \/ /\ desk = "cart" /\ CartAlone!Next
     /\ UNCHANGED <<desk, promotionsRows, flashSalesRows, sessionsRows,
          customerProfileRows, membershipTiersRows, buildRulesRows,
          savedBuildsRows, returnsRows, paymentsRows, reviewsRows,
          supportTicketsRows>>
  \/ /\ desk = "cart, overlapping" /\ CartTogether!Next
     /\ UNCHANGED <<desk, promotionsRows, flashSalesRows, sessionsRows,
          customerProfileRows, membershipTiersRows, buildRulesRows,
          savedBuildsRows, returnsRows, paymentsRows, reviewsRows,
          supportTicketsRows>>
  \/ /\ desk = "promotions" /\ PromotionsAlone!Next
     /\ UNCHANGED <<desk, cartRows, flashSalesRows, sessionsRows,
          customerProfileRows, membershipTiersRows, buildRulesRows,
          savedBuildsRows, returnsRows, paymentsRows, reviewsRows,
          supportTicketsRows>>
  \/ /\ desk = "promotions, overlapping" /\ PromotionsTogether!Next
     /\ UNCHANGED <<desk, cartRows, flashSalesRows, sessionsRows,
          customerProfileRows, membershipTiersRows, buildRulesRows,
          savedBuildsRows, returnsRows, paymentsRows, reviewsRows,
          supportTicketsRows>>
  \/ /\ desk = "flash sales" /\ FlashSalesAlone!Next
     /\ UNCHANGED <<desk, cartRows, promotionsRows, sessionsRows,
          customerProfileRows, membershipTiersRows, buildRulesRows,
          savedBuildsRows, returnsRows, paymentsRows, reviewsRows,
          supportTicketsRows>>
  \/ /\ desk = "flash sales, overlapping" /\ FlashSalesTogether!Next
     /\ UNCHANGED <<desk, cartRows, promotionsRows, sessionsRows,
          customerProfileRows, membershipTiersRows, buildRulesRows,
          savedBuildsRows, returnsRows, paymentsRows, reviewsRows,
          supportTicketsRows>>
  \/ /\ desk = "sessions" /\ SessionsAlone!Next
     /\ UNCHANGED <<desk, cartRows, promotionsRows, flashSalesRows,
          customerProfileRows, membershipTiersRows, buildRulesRows,
          savedBuildsRows, returnsRows, paymentsRows, reviewsRows,
          supportTicketsRows>>
  \/ /\ desk = "sessions, overlapping" /\ SessionsTogether!Next
     /\ UNCHANGED <<desk, cartRows, promotionsRows, flashSalesRows,
          customerProfileRows, membershipTiersRows, buildRulesRows,
          savedBuildsRows, returnsRows, paymentsRows, reviewsRows,
          supportTicketsRows>>
  \/ /\ desk = "profile" /\ CustomerProfileAlone!Next
     /\ UNCHANGED <<desk, cartRows, promotionsRows, flashSalesRows,
          sessionsRows, membershipTiersRows, buildRulesRows, savedBuildsRows,
          returnsRows, paymentsRows, reviewsRows, supportTicketsRows>>
  \/ /\ desk = "profile, overlapping" /\ CustomerProfileTogether!Next
     /\ UNCHANGED <<desk, cartRows, promotionsRows, flashSalesRows,
          sessionsRows, membershipTiersRows, buildRulesRows, savedBuildsRows,
          returnsRows, paymentsRows, reviewsRows, supportTicketsRows>>
  \/ /\ desk = "tiers" /\ MembershipTiersAlone!Next
     /\ UNCHANGED <<desk, cartRows, promotionsRows, flashSalesRows,
          sessionsRows, customerProfileRows, buildRulesRows, savedBuildsRows,
          returnsRows, paymentsRows, reviewsRows, supportTicketsRows>>
  \/ /\ desk = "tiers, overlapping" /\ MembershipTiersTogether!Next
     /\ UNCHANGED <<desk, cartRows, promotionsRows, flashSalesRows,
          sessionsRows, customerProfileRows, buildRulesRows, savedBuildsRows,
          returnsRows, paymentsRows, reviewsRows, supportTicketsRows>>
  \/ /\ desk = "build rules" /\ BuildRulesAlone!Next
     /\ UNCHANGED <<desk, cartRows, promotionsRows, flashSalesRows,
          sessionsRows, customerProfileRows, membershipTiersRows,
          savedBuildsRows, returnsRows, paymentsRows, reviewsRows,
          supportTicketsRows>>
  \/ /\ desk = "saved builds" /\ SavedBuildsAlone!Next
     /\ UNCHANGED <<desk, cartRows, promotionsRows, flashSalesRows,
          sessionsRows, customerProfileRows, membershipTiersRows,
          buildRulesRows, returnsRows, paymentsRows, reviewsRows,
          supportTicketsRows>>
  \/ /\ desk = "returns" /\ ReturnsAlone!Next
     /\ UNCHANGED <<desk, cartRows, promotionsRows, flashSalesRows,
          sessionsRows, customerProfileRows, membershipTiersRows,
          buildRulesRows, savedBuildsRows, paymentsRows, reviewsRows,
          supportTicketsRows>>
  \/ /\ desk = "returns, overlapping" /\ ReturnsTogether!Next
     /\ UNCHANGED <<desk, cartRows, promotionsRows, flashSalesRows,
          sessionsRows, customerProfileRows, membershipTiersRows,
          buildRulesRows, savedBuildsRows, paymentsRows, reviewsRows,
          supportTicketsRows>>
  \/ /\ desk = "payments" /\ PaymentsAlone!Next
     /\ UNCHANGED <<desk, cartRows, promotionsRows, flashSalesRows,
          sessionsRows, customerProfileRows, membershipTiersRows,
          buildRulesRows, savedBuildsRows, returnsRows, reviewsRows,
          supportTicketsRows>>
  \/ /\ desk = "payments, overlapping" /\ PaymentsTogether!Next
     /\ UNCHANGED <<desk, cartRows, promotionsRows, flashSalesRows,
          sessionsRows, customerProfileRows, membershipTiersRows,
          buildRulesRows, savedBuildsRows, returnsRows, reviewsRows,
          supportTicketsRows>>
  \/ /\ desk = "reviews" /\ ReviewsAlone!Next
     /\ UNCHANGED <<desk, cartRows, promotionsRows, flashSalesRows,
          sessionsRows, customerProfileRows, membershipTiersRows,
          buildRulesRows, savedBuildsRows, returnsRows, paymentsRows,
          supportTicketsRows>>
  \/ /\ desk = "reviews, overlapping" /\ ReviewsTogether!Next
     /\ UNCHANGED <<desk, cartRows, promotionsRows, flashSalesRows,
          sessionsRows, customerProfileRows, membershipTiersRows,
          buildRulesRows, savedBuildsRows, returnsRows, paymentsRows,
          supportTicketsRows>>
  \/ /\ desk = "support" /\ SupportTicketsAlone!Next
     /\ UNCHANGED <<desk, cartRows, promotionsRows, flashSalesRows,
          sessionsRows, customerProfileRows, membershipTiersRows,
          buildRulesRows, savedBuildsRows, returnsRows, paymentsRows,
          reviewsRows>>

vars == <<desk, pc, job, served, cartRows, promotionsRows, flashSalesRows,
    sessionsRows, customerProfileRows, membershipTiersRows, buildRulesRows,
    savedBuildsRows, returnsRows, paymentsRows, reviewsRows, supportTicketsRows>>

Spec == Init /\ [][Next]_vars

-----------------------------------------------------------------------------
\* The types of all that the components keep.
StorefrontTypeOK ==
  /\ desk = "cart" => CartAlone!TypeOK
  /\ desk = "cart, overlapping" => CartTogether!TypeOK
  /\ desk = "promotions" => PromotionsAlone!TypeOK
  /\ desk = "promotions, overlapping" => PromotionsTogether!TypeOK
  /\ desk = "flash sales" => FlashSalesAlone!TypeOK
  /\ desk = "flash sales, overlapping" => FlashSalesTogether!TypeOK
  /\ desk = "sessions" => SessionsAlone!TypeOK
  /\ desk = "sessions, overlapping" => SessionsTogether!TypeOK
  /\ desk = "profile" => CustomerProfileAlone!TypeOK
  /\ desk = "profile, overlapping" => CustomerProfileTogether!TypeOK
  /\ desk = "tiers" => MembershipTiersAlone!TypeOK
  /\ desk = "tiers, overlapping" => MembershipTiersTogether!TypeOK
  /\ desk = "build rules" => BuildRulesAlone!TypeOK
  /\ desk = "saved builds" => SavedBuildsAlone!TypeOK
  /\ desk = "returns" => ReturnsAlone!TypeOK
  /\ desk = "returns, overlapping" => ReturnsTogether!TypeOK
  /\ desk = "payments" => PaymentsAlone!TypeOK
  /\ desk = "payments, overlapping" => PaymentsTogether!TypeOK
  /\ desk = "reviews" => ReviewsAlone!TypeOK
  /\ desk = "reviews, overlapping" => ReviewsTogether!TypeOK
  /\ desk = "support" => SupportTicketsAlone!TypeOK

\* Under any interleaving, the total that the cart shows is the one that the
\* checkout charges; the combos that a bundle pays for are in the cart.
CartTellsTheCharge ==
  /\ desk = "cart" =>
       /\ CartAlone!PreviewIsCharged
       /\ CartAlone!BundlesFit
  /\ desk = "cart, overlapping" => CartTogether!PreviewIsCharged

\* Without overlap, an active promotion has all its parts, every recorded use of
\* a coupon has taken a slot of its quota, a visible flash sale offers what was
\* entered and none sells past its limit.
OffersTieUp ==
  /\ desk = "promotions" =>
       /\ PromotionsAlone!ActiveIsWhole
       /\ PromotionsAlone!SlotsCoverUses
  /\ desk = "flash sales" =>
       /\ FlashSalesAlone!OffersWhatWasEntered
       /\ FlashSalesAlone!NeverPastLimit

\* Under any interleaving, the access token of an ended session is refused;
\* without overlap, an ended session cannot be refreshed and a customer has few
\* sessions.
SessionsEnd ==
  /\ desk = "sessions" =>
       /\ SessionsAlone!RevokedStaysOut
       /\ SessionsAlone!RevokedCannotRefresh
       /\ SessionsAlone!FewSessions
  /\ desk = "sessions, overlapping" => SessionsTogether!RevokedStaysOut

\* Without overlap, a customer has one default address, within the limits of
\* addresses and avatars, and one membership tier at most.
ProfilesTieUp ==
  /\ desk = "profile" =>
       /\ CustomerProfileAlone!OneDefault
       /\ CustomerProfileAlone!AvatarLimit
  /\ desk = "tiers" => MembershipTiersAlone!OneTierEach

\* A part goes into the slots of all categories above its own; without overlap,
\* a customer has no more builds than the limit, a build has the parts that were
\* entered, and a visitor counts once.
BuildsTieUp ==
  /\ desk = "build rules" => BuildRulesAlone!PartsFindSlots
  /\ desk = "saved builds" =>
       /\ SavedBuildsAlone!BuildsWithinLimit
       /\ SavedBuildsAlone!BuildIsWhole
       /\ SavedBuildsAlone!ViewedOnce

\* Without overlap, goods receipts and resolutions explain every change of the
\* stock, a receipt settles one request and one request per order waits; under
\* any interleaving, refunds and exchanges refer to the transaction and the
\* order they made, and a refund takes points back.
ReturnsTieUp ==
  /\ desk = "returns" =>
       /\ ReturnsAlone!StockIsExplained
       /\ ReturnsAlone!ReceiptSettlesOne
       /\ ReturnsAlone!OneWaiting
       /\ ReturnsAlone!SettlementsTieUp
       /\ ReturnsAlone!PointsTakenBack
  /\ desk = "returns, overlapping" =>
       /\ ReturnsTogether!SettlementsTieUp
       /\ ReturnsTogether!PointsTakenBack

\* Under any interleaving of the messages, the handlers of VNPay and ZaloPay
\* show a transaction as paid, and confirm its order, only if the gateway
\* captured the money; the callback of MoMo believes what it is told, and the
\* clerk of a cash on delivery takes the money.
PaidMeansCaptured ==
  /\ desk = "payments" => PaymentsAlone!PaidMeansCaptured
  /\ desk = "payments, overlapping" => PaymentsTogether!PaidMeansCaptured

\* Without overlap, repeated messages of a gateway neither overturn its verdict
\* nor move the order against the arrows.
VerdictsLast ==
  [][/\ desk = "payments" =>
          /\ PaymentsAlone!IpnKeepsVerdict
          /\ PaymentsAlone!AlongTheArrows]_vars

\* Without overlap, one review for each purchase, a product's rating is the
\* average of its approved reviews, the unanswered are those that nobody
\* answered, and pages hold each row once.
ReviewsTieUp ==
  /\ desk = "reviews" =>
       /\ ReviewsAlone!OncePerPurchase
       /\ ReviewsAlone!RatingIsAverage
       /\ ReviewsAlone!UnansweredWait
       /\ ReviewsAlone!PagesTieUp

\* Without overlap, but with the hourly job between the steps of a handler and
\* wherever it ends, the times of a ticket agree with its status, a ticket that
\* someone took up is not new, and the log tells how it ended.
TicketsTieUp ==
  /\ desk = "support" =>
       /\ SupportTicketsAlone!TimesFitStatus
       /\ SupportTicketsAlone!TakenUpIsNotNew
       /\ SupportTicketsAlone!LogTellsEnd

\* Under any interleaving, the copy of a promotion waits; without overlap, a
\* line of the cart grows only within the stock, deleting a tier takes it from
\* nobody; adding a part to a build never makes an issue go away.
StorefrontSteps ==
  [][/\ desk = "cart" => CartAlone!GrowthIsCovered
     /\ desk = "promotions" => PromotionsAlone!CopiesWait
     /\ desk = "promotions, overlapping" => PromotionsTogether!CopiesWait
     /\ desk = "tiers" => MembershipTiersAlone!NobodyLosesTier
     /\ desk = "build rules" => BuildRulesAlone!AddingSolvesNothing]_vars

=============================================================================

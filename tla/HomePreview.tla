---------------------------- MODULE HomePreview ----------------------------
(***************************************************************************)
(* HomepagePreviewService: which variants a section of the home page shows *)
(* when employees did not list them.  The order of the rows (by date,      *)
(* price, sales or rating) only decides which of them LIMIT keeps; here it *)
(* keeps any.  Variants and products are numbers, as in the conditions of  *)
(* a promotion, which do not say which of the two they mean.               *)
(***************************************************************************)
EXTENDS Handlers, FiniteSetsExt

CONSTANTS
  ShelfVariants, ShelfProducts,      \* numbers
  ShelfProduct(_), ShelfCategory(_), \* the product of a variant, the category of a product
  ShelfBrands(_), ShelfParent(_),    \* the brands of a product, the parent of a category or 0
  Asks,                              \* what sections ask for
  MaxProducts                        \* maxProducts of a section

VARIABLES
  shelf,   \* which variants are shown, which are defaults, which products are on sale
  ask,     \* what a section asked for
  cards    \* what it shows: how many cards for a variant

previewVars == <<shelf, ask, cards>>

Shelf == [shown : SUBSET ShelfVariants, default : SUBSET ShelfVariants, onSale : SUBSET ShelfProducts]
NoAsk == [type |-> "none"]

PreviewInit == shelf \in Shelf /\ ask = NoAsk /\ cards = <<>>

ShownOf(p) == {v \in shelf.shown : ShelfProduct(v) = p}

\* The categories asked for and those directly below them.
InCategories(p, S) == {ShelfCategory(p), ShelfParent(ShelfCategory(p))} \cap S # {}

-----------------------------------------------------------------------------
(* Promotions *)

NonGlobal(a) == {s \in a.scopes : s.type # "global"}

\* applyNonGlobalScopes: any of the scopes; those without a reference count for nothing,
\* and when none has one, everything passes.
InScopes(v, S) ==
  LET p == ShelfProduct(v)  refs(t) == {s.ref : s \in {x \in S : x.type = t /\ x.ref # 0}} IN
  (\E s \in S : s.ref # 0) =>
    \/ p \in refs("product") \/ v \in refs("variant")
    \/ InCategories(p, refs("category")) \/ ShelfBrands(p) \cap refs("brand") # {}

\* applyConditionScope: the required products, by either number, or categories.
MeetsConditions(v, a) ==
  \/ {v, ShelfProduct(v)} \cap a.requiredProducts # {}
  \/ InCategories(ShelfProduct(v), a.requiredCategories)

\* applyPromotion
HasScope(a) ==
  a.type = "promotion" => NonGlobal(a) # {} \/ a.requiredProducts \cup a.requiredCategories # {}
HasVariantScope(a) == a.type = "promotion" /\ \E s \in NonGlobal(a) : s.type = "variant"

-----------------------------------------------------------------------------
(* The preview *)

\* applyCategory and applyCategoryFilter, applyBrand, applyPromotion
Matches(v, a) ==
  LET p == ShelfProduct(v) IN
  CASE a.type \in {"category", "new_arrivals", "best_selling"} ->
         a.categories = {} \/ InCategories(p, a.categories)
    [] a.type = "brand" -> a.brands = {} \/ ShelfBrands(p) \cap a.brands # {}
    [] a.type = "promotion" ->
         IF NonGlobal(a) # {} THEN InScopes(v, NonGlobal(a)) ELSE MeetsConditions(v, a)

\* The variant that stands for a product: a default one before the others, by number.
Preferred(p) ==
  LET defaults == ShownOf(p) \cap shelf.default IN
  Min(IF defaults # {} THEN defaults ELSE ShownOf(p))

Selected(a) ==
  {v \in shelf.shown :
     /\ HasScope(a) /\ ShelfProduct(v) \in shelf.onSale /\ Matches(v, a)
     /\ HasVariantScope(a) \/ v = Preferred(ShelfProduct(v))}

\* The join with the brands gives a row for each that is asked for.
RowsOf(v, a) ==
  IF a.type = "brand" /\ a.brands # {} THEN Cardinality(ShelfBrands(ShelfProduct(v)) \cap a.brands) ELSE 1

getPreview(r) ==
  \E a \in Asks :
    LET rows == Selected(a)
        size(c) == MapThenSumSet(LAMBDA v : c[v], rows)
        all == [v \in rows |-> RowsOf(v, a)] IN
    /\ AtOnce(r) /\ ask' = a
    /\ \E c \in [rows -> 0..MaxProducts] :
         /\ \A v \in rows : c[v] <= all[v]
         /\ size(c) = Min({size(all), MaxProducts})
         /\ cards' = c
    /\ UNCHANGED shelf

Next == \E r \in Requests : getPreview(r)

-----------------------------------------------------------------------------
TypeOK ==
  /\ shelf \in Shelf /\ ask \in Asks \cup {NoAsk}
  /\ DOMAIN cards \subseteq ShelfVariants /\ \A v \in DOMAIN cards : cards[v] \in 0..MaxProducts

CardsFor(p) == MapThenSumSet(LAMBDA v : cards[v], {v \in DOMAIN cards : ShelfProduct(v) = p})

\* A section shows a product on one card, unless it asks for two of its brands or for single
\* variants.
OneCardEachProduct ==
  \A p \in ShelfProducts :
    CardsFor(p) > 1 => \/ ask.type = "brand" /\ Cardinality(ShelfBrands(p) \cap ask.brands) > 1
                       \/ ask.type = "promotion" /\ \E s \in ask.scopes : s.type = "variant"

\* Nothing that is on sale and asked for by its category or its brand is left out while there
\* is room, whichever of its variants are shown, and a default or none is marked.
NothingIsMissed ==
  ask # NoAsk /\ MapThenSumSet(LAMBDA v : cards[v], DOMAIN cards) < MaxProducts =>
    \A p \in shelf.onSale :
      /\ ShownOf(p) # {}
      /\ \/ ask.type = "brand" /\ ShelfBrands(p) \cap ask.brands # {}
         \/ ask.type \in {"category", "new_arrivals", "best_selling"} /\ ShelfCategory(p) \in ask.categories
         \/ ask.type = "promotion" /\ [type |-> "product", ref |-> p] \in ask.scopes
      => CardsFor(p) > 0
=============================================================================

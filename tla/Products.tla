------------------------------ MODULE Products ------------------------------
(***************************************************************************)
(* Products, their variants with values and images, and their brands:      *)
(* ProductsService and BrandsService.  Names, codes, prices and texts are  *)
(* left out; slugs, codes and SKUs are unique in the database too.  Of the *)
(* content of a variant, one value and the number of main images are kept. *)
(***************************************************************************)
EXTENDS Handlers, FiniteSets, FiniteSetsExt, SequencesExt

CONSTANTS
  ProductIds, VariantIds, Brands   \* bounds: the rows there can be

VARIABLES
  products,          \* san_pham: trang_thai by id
  variants,          \* phien_ban_san_pham by id
  contents,          \* gia_tri_thong_so and hinh_anh_san_pham by variant
  brandRows,         \* thuong_hieu: trang_thai by brand
  productBrands,     \* san_pham_thuong_hieu: the brands by product
  referred,          \* variants an order, a cart or the stock refers to
  enteredContents,   \* auxiliary: the content that was last entered, or copied
  enteredBrands,     \* auxiliary: the brands likewise
  byHand,            \* auxiliary: products whose default variants a request has spelled out
  tornProducts       \* auxiliary: products with a handler that ended half way

auxiliary == <<enteredContents, enteredBrands, byHand, tornProducts>>
productVars == <<products, variants, contents, brandRows, productBrands, referred, auxiliary>>

Status == {"DangBan", "NgungBan", "Nhap"}
Variant == [product : ProductIds, isDefault : BOOLEAN, shown : BOOLEAN]
Content == [specs : 0..1, images : Nat]
NoContent == [specs |-> 0, images |-> 0]

VariantsOf(p) == {v \in DOMAIN variants : variants[v].product = p}
With(f, k, x) == [i \in DOMAIN f \cup {k} |-> IF i = k THEN x ELSE f[i]]
Without(f, S) == [i \in DOMAIN f \ S |-> f[i]]
Free(S, f) == S \ DOMAIN f
FirstFree(S, f) == Min(Free(S, f) \cup {Cardinality(S) + 1})

ProductsInit ==
  /\ products = [p \in {1} |-> "DangBan"]
  /\ variants = [v \in {1, 2} |-> [product |-> 1, isDefault |-> v = 1, shown |-> TRUE]]
  /\ contents \in [{1, 2} -> {[specs |-> 1, images |-> 1], NoContent}]
  /\ brandRows = [b \in Brands |-> "HienThi"] /\ productBrands \in [{1} -> SUBSET Brands]
  /\ referred \in {{}, {1}}
  /\ enteredContents = contents /\ enteredBrands = productBrands /\ byHand = {} /\ tornProducts = {}

-----------------------------------------------------------------------------
(* Products *)

\* The first variant becomes the default if the request names none.
Marked(flags) == IF flags # <<>> /\ \A n \in DOMAIN flags : ~flags[n] THEN [flags EXCEPT ![1] = TRUE] ELSE flags

\* create: the product and its variants in one transaction, then the brands.
Create(r) ==
  LET p == FirstFree(ProductIds, products)  first == FirstFree(VariantIds, variants) IN
  /\ Free(ProductIds, products) # {}
  /\ \E status \in Status, flags \in {<<>>} \cup [1..2 -> BOOLEAN], brands \in SUBSET Brands :
       LET new == {first + n - 1 : n \in DOMAIN flags} IN
       /\ new \subseteq Free(VariantIds, variants)
       /\ products' = With(products, p, status)
       /\ variants' = [v \in DOMAIN variants \cup new |->
            IF v \in new THEN [product |-> p, isDefault |-> Marked(flags)[v - first + 1], shown |-> TRUE]
            ELSE variants[v]]
       /\ contents' = [v \in DOMAIN variants' |-> IF v \in new THEN NoContent ELSE contents[v]]
       /\ enteredContents' = [v \in DOMAIN variants' |-> IF v \in new THEN NoContent ELSE enteredContents[v]]
       /\ byHand' = IF Cardinality({n \in DOMAIN flags : flags[n]}) > 1 THEN byHand \cup {p} ELSE byHand
       /\ productBrands' = With(productBrands, p, {}) /\ enteredBrands' = With(enteredBrands, p, {})
       /\ IF brands = {} THEN AtOnce(r)
          ELSE Begin(r, "clear brands", [product |-> p, brands |-> brands, copies |-> <<>>])
  /\ UNCHANGED <<brandRows, referred, tornProducts>>

\* update: an UPDATE of the columns that are given, then the brands if they are.
Update(r, p) ==
  /\ \E status \in Status : products' = With(products, p, status)
  /\ \/ AtOnce(r)
     \/ \E brands \in SUBSET Brands :
          Begin(r, "clear brands", [product |-> p, brands |-> brands, copies |-> <<>>])
  /\ UNCHANGED <<variants, contents, brandRows, productBrands, referred, auxiliary>>

\* What follows the brands: a copy goes on with the content of its variants.
AfterBrands(r) ==
  IF job[r].copies = <<>> THEN Finish(r) ELSE Continue(r, "read content", job[r])

OtherBrands(p) == {}

\* setProductBrands: the DELETE ...
ClearBrands(r) ==
  LET p == job[r].product IN
  /\ pc[r] = "clear brands"
  /\ IF p \in DOMAIN products THEN productBrands' = With(productBrands, p, OtherBrands(p))
     ELSE UNCHANGED productBrands
  /\ IF job[r].brands # {}
     THEN Continue(r, "add brands", job[r]) /\ UNCHANGED enteredBrands
     ELSE /\ AfterBrands(r)
          /\ enteredBrands' = IF p \in DOMAIN products THEN With(enteredBrands, p, {}) ELSE enteredBrands
  /\ UNCHANGED <<products, variants, contents, brandRows, referred, enteredContents, byHand, tornProducts>>

\* ... and the INSERT, which the unique key and the foreign keys may refuse.
AddBrands(r) ==
  LET p == job[r].product  brands == job[r].brands IN
  /\ pc[r] = "add brands" /\ p \in DOMAIN products /\ brands \subseteq DOMAIN brandRows
  /\ brands \cap productBrands[p] = {}
  /\ productBrands' = [productBrands EXCEPT ![p] = @ \cup brands]
  /\ enteredBrands' = With(enteredBrands, p, brands) /\ AfterBrands(r)
  /\ UNCHANGED <<products, variants, contents, brandRows, referred, enteredContents, byHand, tornProducts>>

\* remove: the values of the variants that were read go first.
RemoveProduct(r, p) ==
  /\ Begin(r, "delete product", [product |-> p])
  /\ contents' = [v \in DOMAIN contents |->
                    IF v \in VariantsOf(p) THEN [contents[v] EXCEPT !.specs = 0] ELSE contents[v]]
  /\ UNCHANGED <<products, variants, brandRows, productBrands, referred, auxiliary>>

\* The variants and their images go with the product; brands and whatever refers to a
\* variant refuse, and the values are gone.
DeleteProduct(r) ==
  LET p == job[r].product IN
  /\ pc[r] = "delete product" /\ Finish(r)
  /\ IF p \in DOMAIN products /\ productBrands[p] = {} /\ VariantsOf(p) \cap referred = {}
     THEN /\ products' = Without(products, {p}) /\ variants' = Without(variants, VariantsOf(p))
          /\ contents' = Without(contents, VariantsOf(p))
          /\ enteredContents' = Without(enteredContents, VariantsOf(p))
          /\ productBrands' = Without(productBrands, {p}) /\ enteredBrands' = Without(enteredBrands, {p})
          /\ byHand' = byHand \ {p} /\ tornProducts' = tornProducts \ {p}
     ELSE /\ tornProducts' = tornProducts \cup {p}
          /\ UNCHANGED <<products, variants, contents, productBrands, enteredContents, enteredBrands, byHand>>
  /\ UNCHANGED <<brandRows, referred>>

-----------------------------------------------------------------------------
(* Variants *)

\* addVariant: the default, if the request says so or there is no other.
AddVariant(r, p) ==
  /\ Free(VariantIds, variants) # {}
  /\ \E isDefault \in BOOLEAN \cup {VariantsOf(p) = {}} :
       Begin(r, IF isDefault THEN "clear default" ELSE "save variant",
         [product |-> p, variant |-> FirstFree(VariantIds, variants), settles |-> isDefault,
          row |-> [product |-> p, isDefault |-> isDefault, shown |-> TRUE]])
  /\ UNCHANGED productVars

SetDefaultVariant(r, v) ==
  /\ Begin(r, "clear default",
       [product |-> variants[v].product, variant |-> v, settles |-> TRUE,
        row |-> [variants[v] EXCEPT !.isDefault = TRUE]])
  /\ UNCHANGED productVars

NotDefault(p) ==
  [v \in DOMAIN variants |->
     IF v \in VariantsOf(p) THEN [variants[v] EXCEPT !.isDefault = FALSE] ELSE variants[v]]

ClearDefault(r) ==
  /\ pc[r] = "clear default" /\ variants' = NotDefault(job[r].product)
  /\ Continue(r, "save variant", job[r])
  /\ UNCHANGED <<products, contents, brandRows, productBrands, referred, auxiliary>>

\* updateVariant, whose request may say whether it is the default.
UpdateVariant(r, v) ==
  /\ \E isDefault, shown \in BOOLEAN :
       /\ Begin(r, "save variant",
            [product |-> variants[v].product, variant |-> v, settles |-> FALSE,
             row |-> [variants[v] EXCEPT !.isDefault = isDefault, !.shown = shown]])
       /\ byHand' = IF isDefault # variants[v].isDefault THEN byHand \cup {variants[v].product} ELSE byHand
  /\ UNCHANGED <<products, variants, contents, brandRows, productBrands, referred,
                 enteredContents, enteredBrands, tornProducts>>

\* save(): the row as it was read, inserted again if it is gone.
SaveVariant(r) ==
  LET v == job[r].variant  p == job[r].product IN
  /\ pc[r] = "save variant" /\ p \in DOMAIN products /\ Finish(r)
  /\ variants' = With(variants, v, job[r].row)
  /\ contents' = With(contents, v, IF v \in DOMAIN variants THEN contents[v] ELSE NoContent)
  /\ enteredContents' = With(enteredContents, v, IF v \in DOMAIN variants THEN enteredContents[v] ELSE NoContent)
  /\ byHand' = IF job[r].settles THEN byHand \ {p} ELSE byHand
  /\ UNCHANGED <<products, brandRows, productBrands, referred, enteredBrands, tornProducts>>

\* removeVariant: the values first.
RemoveVariant(r, v) ==
  /\ Begin(r, "delete variant", [product |-> variants[v].product, variant |-> v])
  /\ contents' = [contents EXCEPT ![v].specs = 0]
  /\ UNCHANGED <<products, variants, brandRows, productBrands, referred, auxiliary>>

DeleteVariant(r) ==
  LET v == job[r].variant  p == job[r].product IN
  /\ pc[r] = "delete variant" /\ Finish(r)
  /\ IF v \in referred
     THEN tornProducts' = tornProducts \cup {p} /\ UNCHANGED <<variants, contents, enteredContents>>
     ELSE /\ variants' = Without(variants, {v}) /\ contents' = Without(contents, {v})
          /\ enteredContents' = Without(enteredContents, {v}) /\ UNCHANGED tornProducts
  /\ UNCHANGED <<products, brandRows, productBrands, referred, enteredBrands, byHand>>

\* saveSpecValues and saveVariantMedia, with at most one main image: the DELETE ...
ClearPart(r, v, part) ==
  /\ \E n \in 0..1 : Begin(r, "insert part",
       [product |-> variants[v].product, variant |-> v, part |-> part, rows |-> n])
  /\ contents' = [contents EXCEPT ![v][part] = 0]
  /\ UNCHANGED <<products, variants, brandRows, productBrands, referred, auxiliary>>

\* ... and the INSERT; the unique key of the values refuses a second one.
InsertPart(r) ==
  LET v == job[r].variant  part == job[r].part IN
  /\ pc[r] = "insert part" /\ v \in DOMAIN variants
  /\ part = "specs" => contents[v].specs + job[r].rows <= 1
  /\ contents' = [contents EXCEPT ![v][part] = @ + job[r].rows]
  /\ enteredContents' = [enteredContents EXCEPT ![v][part] = job[r].rows] /\ Finish(r)
  /\ UNCHANGED <<products, variants, brandRows, productBrands, referred, enteredBrands, byHand, tornProducts>>

-----------------------------------------------------------------------------
(* Copies *)

\* cloneProduct, up to its first write: the variants with their images, and the brands.
CloneProduct(r, p) ==
  /\ Free(ProductIds, products) # {}
  /\ Begin(r, "insert copy",
       [product |-> FirstFree(ProductIds, products), brands |-> productBrands[p],
        copies |-> [n \in 1..Cardinality(VariantsOf(p)) |->
          LET v == SetToSortSeq(VariantsOf(p), <)[n] IN [of |-> v, images |-> contents[v].images]]])
  /\ UNCHANGED productVars

\* Mutant of Copied: the rows are shown as their originals are.
CopiedShown(rows, p, first, all) ==
  [v \in DOMAIN variants \cup {first + n - 1 : n \in DOMAIN rows} |->
     IF v \in DOMAIN variants THEN variants[v]
     ELSE [product |-> p, isDefault |-> all /\ v = first, shown |-> variants[rows[v - first + 1].of].shown]]

\* The rows of copies, numbered from first; of a product, the first variant is the default.
Copied(rows, p, first, all) ==
  [v \in DOMAIN variants \cup {first + n - 1 : n \in DOMAIN rows} |->
     IF v \in DOMAIN variants THEN variants[v]
     ELSE [product |-> p, isDefault |-> all /\ v = first, shown |-> FALSE]]

InsertCopy(r) ==
  LET p == job[r].product  rows == job[r].copies  first == FirstFree(VariantIds, variants)
      new == {first + n - 1 : n \in DOMAIN rows} IN
  /\ pc[r] = "insert copy" /\ p \notin DOMAIN products /\ new \subseteq Free(VariantIds, variants)
  /\ products' = With(products, p, "Nhap") /\ variants' = Copied(rows, p, first, TRUE)
  /\ contents' = [v \in DOMAIN variants' |-> IF v \in new THEN NoContent ELSE contents[v]]
  /\ enteredContents' = [v \in DOMAIN variants' |-> IF v \in new THEN NoContent ELSE enteredContents[v]]
  /\ productBrands' = With(productBrands, p, {}) /\ enteredBrands' = With(enteredBrands, p, {})
  /\ LET j == [product |-> p, brands |-> job[r].brands,
               copies |-> [n \in DOMAIN rows |->
                 [of |-> rows[n].of, images |-> rows[n].images, new |-> first + n - 1]]] IN
     IF job[r].brands # {} THEN Continue(r, "clear brands", j)
     ELSE IF rows = <<>> THEN Finish(r) ELSE Continue(r, "read content", j)
  /\ UNCHANGED <<brandRows, referred, byHand, tornProducts>>

\* cloneVariant: the row, hidden and never the default.
CloneVariant(r, v) ==
  /\ Begin(r, "insert variant",
       [product |-> variants[v].product, copies |-> <<[of |-> v, images |-> contents[v].images]>>])
  /\ UNCHANGED productVars

InsertVariant(r) ==
  LET first == FirstFree(VariantIds, variants)  row == job[r].copies[1] IN
  /\ pc[r] = "insert variant" /\ Free(VariantIds, variants) # {} /\ job[r].product \in DOMAIN products
  /\ variants' = Copied(job[r].copies, job[r].product, first, FALSE)
  /\ contents' = With(contents, first, NoContent)
  /\ enteredContents' = With(enteredContents, first, NoContent)
  /\ Continue(r, "read content",
       [product |-> job[r].product, copies |-> <<[of |-> row.of, images |-> row.images, new |-> first]>>])
  /\ UNCHANGED <<products, brandRows, productBrands, referred, enteredBrands, byHand, tornProducts>>

\* What is written for one copy, one statement after the other.
Parts(c) == <<[new |-> c.new, part |-> "specs"], [new |-> c.new, part |-> "images"]>>

\* The values of the originals are read now.
ReadContent(r) ==
  LET rows == job[r].copies
      specsOf(v) == IF v \in DOMAIN contents THEN contents[v].specs ELSE 0
      given == [v \in {rows[n].new : n \in DOMAIN rows} |->
                  LET c == CHOOSE n \in DOMAIN rows : rows[n].new = v IN
                  [specs |-> specsOf(rows[c].of), images |-> rows[c].images]] IN
  /\ pc[r] = "read content"
  /\ Continue(r, "copy", [product |-> job[r].product, given |-> given,
                          todo |-> FlattenSeq([n \in DOMAIN rows |-> Parts(rows[n])])])
  /\ enteredContents' = [v \in DOMAIN contents |->
                           IF v \in DOMAIN given THEN given[v] ELSE enteredContents[v]]
  /\ UNCHANGED <<products, variants, contents, brandRows, productBrands, referred,
                 enteredBrands, byHand, tornProducts>>

Copy(r) ==
  LET next == Head(job[r].todo)  n == job[r].given[next.new][next.part] IN
  /\ pc[r] = "copy"
  /\ n > 0 => next.new \in DOMAIN contents /\ (next.part = "specs" => contents[next.new].specs = 0)
  /\ contents' = IF n = 0 THEN contents ELSE [contents EXCEPT ![next.new][next.part] = @ + n]
  /\ IF Len(job[r].todo) = 1 THEN Finish(r)
     ELSE Continue(r, "copy", [job[r] EXCEPT !.todo = Tail(@)])
  /\ UNCHANGED <<products, variants, brandRows, productBrands, referred, auxiliary>>

-----------------------------------------------------------------------------
(* Brands *)

Linked(b) == \E p \in DOMAIN productBrands : b \in productBrands[p]

\* create, and update, which saves the row it read.
CreateBrand(r, b) ==
  /\ AtOnce(r) /\ b \notin DOMAIN brandRows /\ brandRows' = With(brandRows, b, "HienThi")
  /\ UNCHANGED <<products, variants, contents, productBrands, referred, auxiliary>>

\* update, or remove while products are linked, which only hides the brand.
ChangeBrand(r, b) ==
  /\ b \in DOMAIN brandRows
  /\ \E status \in IF Linked(b) THEN {"HienThi", "An"} ELSE {"HienThi"} :
       Begin(r, "save brand", [product |-> 0, brand |-> b, status |-> status])
  /\ UNCHANGED productVars

SaveBrand(r) ==
  /\ pc[r] = "save brand" /\ brandRows' = With(brandRows, job[r].brand, job[r].status) /\ Finish(r)
  /\ UNCHANGED <<products, variants, contents, productBrands, referred, auxiliary>>

RemoveBrand(r, b) ==
  /\ b \in DOMAIN brandRows /\ ~Linked(b) /\ Begin(r, "delete brand", [product |-> 0, brand |-> b])
  /\ UNCHANGED productVars

\* The foreign key of the links refuses.
DeleteBrand(r) ==
  /\ pc[r] = "delete brand" /\ Finish(r)
  /\ brandRows' = IF Linked(job[r].brand) THEN brandRows ELSE Without(brandRows, {job[r].brand})
  /\ UNCHANGED <<products, variants, contents, productBrands, referred, auxiliary>>

Abandon(r) ==
  /\ GiveUp(r) /\ tornProducts' = tornProducts \cup {job[r].product}
  /\ UNCHANGED <<products, variants, contents, brandRows, productBrands, referred,
                 enteredContents, enteredBrands, byHand>>

Next == \E r \in Requests :
  \/ Create(r) \/ ClearBrands(r) \/ AddBrands(r) \/ DeleteProduct(r)
  \/ ClearDefault(r) \/ SaveVariant(r) \/ DeleteVariant(r) \/ InsertPart(r)
  \/ InsertCopy(r) \/ InsertVariant(r) \/ ReadContent(r) \/ Copy(r)
  \/ SaveBrand(r) \/ DeleteBrand(r) \/ Abandon(r)
  \/ \E p \in DOMAIN products : Update(r, p) \/ RemoveProduct(r, p) \/ AddVariant(r, p) \/ CloneProduct(r, p)
  \/ \E v \in DOMAIN variants :
       \/ SetDefaultVariant(r, v) \/ UpdateVariant(r, v) \/ RemoveVariant(r, v) \/ CloneVariant(r, v)
       \/ \E part \in {"specs", "images"} : ClearPart(r, v, part)
  \/ \E b \in Brands : CreateBrand(r, b) \/ ChangeBrand(r, b) \/ RemoveBrand(r, b)

-----------------------------------------------------------------------------
TypeOK ==
  /\ DOMAIN products \subseteq ProductIds /\ \A p \in DOMAIN products : products[p] \in Status
  /\ DOMAIN variants \subseteq VariantIds /\ DOMAIN contents = DOMAIN variants
  /\ \A v \in DOMAIN variants : /\ variants[v] \in Variant /\ contents[v] \in Content
                                /\ variants[v].product \in DOMAIN products
  /\ DOMAIN productBrands = DOMAIN products
  /\ \A p \in DOMAIN products : productBrands[p] \subseteq DOMAIN brandRows
  /\ byHand \subseteq ProductIds /\ referred \cap VariantIds \subseteq DOMAIN variants

Idle == \A r \in Requests : pc[r] = "idle"

\* While handlers do not overlap, variants have the values and images, and products the
\* brands, that were entered for them or copied, unless a handler ended half way.
ContentsAsEntered ==
  Idle => /\ \A v \in DOMAIN variants :
               variants[v].product \notin tornProducts => contents[v] = enteredContents[v]
          /\ \A p \in DOMAIN products \ tornProducts : productBrands[p] = enteredBrands[p]

\* While handlers do not overlap, a product has one default variant at most, unless
\* requests have spelled out others.
OneDefaultVariant ==
  \A p \in DOMAIN products \ byHand : Cardinality({v \in VariantsOf(p) : variants[v].isDefault}) <= 1

\* findBySlug: the products that have a page of their own.
Published == {p \in DOMAIN products : products[p] = "DangBan"}

\* What a step adds to the pages of products on sale, which list every variant and open at the
\* default one: variants that are marked hidden and are not the default.
AddsHiddenOnly ==
  /\ Published' = Published /\ DOMAIN variants \subseteq DOMAIN variants'
  /\ \A v \in DOMAIN variants' :
       IF v \in DOMAIN variants THEN variants'[v] = variants[v] /\ contents'[v] = contents[v]
       ELSE variants'[v].product \in Published => ~variants'[v].shown /\ ~variants'[v].isDefault

\* Whatever else is under way, making a copy puts no product on sale, leaves the variants
\* there are as they are, and shows on the page of a product its copy as hidden.
CopiesStayHidden ==
  \A r \in Requests :
    pc[r] \in {"insert copy", "insert variant", "read content"} /\ job'[r] # job[r]
      => AddsHiddenOnly
=============================================================================

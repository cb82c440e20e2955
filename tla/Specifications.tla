--------------------------- MODULE Specifications ---------------------------
(***************************************************************************)
(* Groups and types of specifications, the categories they are linked to,  *)
(* and the values of the variants: SpecificationsService, and the filters  *)
(* of ProductsSearchService by specification.  The tree of categories      *)
(* stands still here (Categories moves it) and has no cycle; names, units  *)
(* and the order of what is listed are left out.  A text that is saved is  *)
(* not blank, but may have blanks around it; it holds nothing the URL of a *)
(* search splits or reads apart: no comma, no "1..5", not just "true".     *)
(***************************************************************************)
EXTENDS Handlers, FiniteSets, SequencesExt, TLC

CONSTANTS
  Ids, Trees,          \* categories, and the parents they may have
  Levels,              \* how many categories a path takes: 5 in the code
  Groups, TypeIds,     \* bounds: the groups and the types there can be
  Variants, ProductOf(_), FiledIn(_), OnSale,
                       \* of variants, the products; their category; those that are DangBan
  SpecValues,          \* what may be entered for a variant
  Trimmed(_),          \* String.trim
  Folded(_),           \* what the collation of the database compares of a text: no case
  MaxOptions           \* how many options a filter lists: 100 in the code

VARIABLES
  parents,       \* danh_muc_cha_id of the categories
  specGroups,    \* nhom_thong_so
  specTypes,     \* loai_thong_so by id
  groupLinks,         \* danh_muc_nhom_thong_so by category and group
  specs,         \* gia_tri_thong_so: of each variant, the values by type
  enteredSpecs,  \* auxiliary: what was last entered for the variant
  tornSpecs      \* auxiliary: variants with a save that ended half way

specVars == <<parents, specGroups, specTypes, groupLinks, specs, enteredSpecs, tornSpecs>>

NoParent == 0
NotANumber == -1
Nothing == [k \in {} |-> 0]

\* widgetLoc; a type that coTheLoc keeps out of the filters has none.
SpecType == [group : Groups, widget : {"none", "checkbox", "range", "toggle"}]
CategorySpecGroup ==
  [hanhDong : {"hien_thi", "loai_tru", "ghi_de_thu_tu"}, hienThiBoLoc : BOOLEAN]
SpecValue == [text : STRING \ {""}, canon : STRING, number : Int]   \* canon "NULL": none

SpecsInit ==
  /\ parents \in Trees /\ specGroups = Groups /\ groupLinks = Nothing
  /\ specTypes \in [{1} -> {t \in SpecType : t.group = CHOOSE g \in Groups : TRUE}]
  /\ specs = [v \in Variants |-> Nothing] /\ enteredSpecs = specs /\ tornSpecs = {}

-----------------------------------------------------------------------------
(* What a category has of the groups that are linked along its path *)

\* From the category up to the root, or as far as Levels.
Path(c) ==
  LET walk[n \in Nat] ==
        IF n = 1 THEN <<c>>
        ELSE LET s == walk[n - 1]  p == parents[Last(walk[n - 1])]
             IN IF p = NoParent THEN s ELSE Append(s, p)
  IN walk[Levels]

LinksOf(c) ==
  [g \in {h \in Groups : <<c, h>> \in DOMAIN groupLinks} |-> [source |-> c, link |-> groupLinks[<<c, g>>]]]

\* getResolvedSpecGroupsView and the facets: from the root down, the last link stands.
Resolved(c) == FoldLeft(LAMBDA m, k : LinksOf(k) @@ m, Nothing, Reverse(Path(c)))

\* Mutant of TemplateLinks: the last link stands, from the category up.
TemplateLinksLast(c) == FoldLeft(LAMBDA m, k : LinksOf(k) @@ m, Nothing, Path(c))

\* getSpecTemplateForCategory: from the category up, the first link stands.
TemplateLinks(c) == FoldLeft(LAMBDA m, k : m @@ LinksOf(k), Nothing, Path(c))

Included(m) == {g \in DOMAIN m : m[g].link.hanhDong # "loai_tru"}

\* The groups that the view lists as excluded here, with the nearest category above that
\* includes them; an exclusion further up is not listed.
DirectExcludes(c) ==
  {[group |-> g, origin |->
      LET above == SelectSeq(Tail(Path(c)),
                     LAMBDA k : g \in DOMAIN LinksOf(k) /\ groupLinks[<<k, g>>].hanhDong # "loai_tru")
      IN IF above = <<>> THEN NoParent ELSE Head(above)] :
   g \in {h \in DOMAIN Resolved(c) : Resolved(c)[h].source = c} \ Included(Resolved(c))}

\* getSpecTemplateForCategory: the types a variant of the category is asked for.
Template(c) == {t \in DOMAIN specTypes : specTypes[t].group \in Included(TemplateLinks(c))}

\* getSpecGroupsForVariantMerged: the template, with the values there are.
Merged(v) ==
  [t \in Template(FiledIn(ProductOf(v))) |-> IF t \in DOMAIN specs[v] THEN specs[v][t] ELSE Nothing]

\* getSpecGroupsForVariant, getGroupedSpecsByVariant: whatever there is, by group.
Grouped(v) ==
  [g \in {specTypes[t].group : t \in DOMAIN specs[v]} |->
     {t \in DOMAIN specs[v] : specTypes[t].group = g}]

-----------------------------------------------------------------------------
(* The filters of a category *)

\* collectDescendantIds and resolveDescendantIds.
Descendants(c) ==
  LET down[n \in Nat] ==
        IF n = 0 THEN {c} ELSE down[n - 1] \cup {k \in Ids : parents[k] \in down[n - 1]}
  IN down[Cardinality(Ids)]

FilterTypes(c) ==
  {t \in DOMAIN specTypes :
     /\ specTypes[t].widget # "none"
     /\ specTypes[t].group \in Included(Resolved(c))
     /\ Resolved(c)[specTypes[t].group].link.hienThiBoLoc}

\* Variants with a value of type t, whose product is on sale and in c or below it.
Bucket(c, t) ==
  {v \in Variants : /\ t \in DOMAIN specs[v] /\ ProductOf(v) \in OnSale
                    /\ FiledIn(ProductOf(v)) \in Descendants(c)}

\* giaTriChuan ?? giaTriThongSo, COALESCE(gia_tri_chuan, gia_tri_thong_so): an empty
\* canonical form is one.
Raw(value) == IF value.canon = "NULL" THEN value.text ELSE value.canon

\* The option a value counts for.
Chosen(value) == Trimmed(Raw(value))

ProductsOf(vs) == {ProductOf(v) : v \in vs}

\* The options of a checkbox, each with the products it counts.
Options(c, t) ==
  {[option |-> o, products |-> ProductsOf({v \in Bucket(c, t) : Chosen(specs[v][t]) = o})] :
     o \in {Chosen(specs[v][t]) : v \in Bucket(c, t)} \ {""}}

\* Those that are listed: the cut falls among the ones with the fewest products.
Listed(c, t) ==
  LET options == Options(c, t) IN
  {o \in options : MaxOptions >
     Cardinality({p \in options : Cardinality(p.products) > Cardinality(o.products)})}

Numbers(c, t) == {specs[v][t].number : v \in Bucket(c, t)} \ {NotANumber}

\* findAll with categoryId, trangThai=DangBan and one filter, which lets some values pass.
Search(c, t, passing) ==
  ProductsOf({v \in Variants : /\ ProductOf(v) \in OnSale /\ FiledIn(ProductOf(v)) \in Descendants(c)
                               /\ t \in DOMAIN specs[v] /\ specs[v][t] \in passing})

\* COALESCE(gia_tri_chuan, gia_tri_thong_so) IN (...), the options trimmed
OptionPasses(o) == {x \in SpecValues : Folded(Raw(x)) = Folded(Trimmed(o))}
RangePasses(lo, hi) == {x \in SpecValues : x.number # NotANumber /\ lo <= x.number /\ x.number <= hi}
\* COALESCE(NULLIF(gia_tri_chuan, ''), NULLIF(gia_tri_thong_so, '')) IS NOT NULL
TogglePasses == {x \in SpecValues : x.canon \notin {"NULL", ""} \/ x.text # ""}

-----------------------------------------------------------------------------
(* What employees enter *)

\* upsertCategoryGroup, and linkCategoryGroup and updateCategoryGroup, which only insert or
\* only update.
UpsertCategoryGroup(r, c, g) ==
  /\ AtOnce(r) /\ g \in specGroups
  /\ \E link \in CategorySpecGroup : groupLinks' = (<<c, g>> :> link) @@ groupLinks
  /\ UNCHANGED <<parents, specGroups, specTypes, specs, enteredSpecs, tornSpecs>>

UnlinkCategoryGroup(r, c, g) ==
  /\ AtOnce(r) /\ <<c, g>> \in DOMAIN groupLinks
  /\ groupLinks' = [k \in DOMAIN groupLinks \ {<<c, g>>} |-> groupLinks[k]]
  /\ UNCHANGED <<parents, specGroups, specTypes, specs, enteredSpecs, tornSpecs>>

InUse(t) == \E v \in Variants : t \in DOMAIN specs[v]

\* removeGroup: the types go with it; links and values refuse.
RemoveGroup(r, g) ==
  /\ AtOnce(r) /\ g \in specGroups /\ \A c \in Ids : <<c, g>> \notin DOMAIN groupLinks
  /\ \A t \in DOMAIN specTypes : specTypes[t].group = g => ~InUse(t)
  /\ specGroups' = specGroups \ {g}
  /\ specTypes' = [t \in {u \in DOMAIN specTypes : specTypes[u].group # g} |-> specTypes[t]]
  /\ UNCHANGED <<parents, groupLinks, specs, enteredSpecs, tornSpecs>>

\* createType and updateType, which may give the type another group; the technical code,
\* unique in the database, is left out.
SaveType(r, t) ==
  /\ AtOnce(r)
  /\ \E row \in SpecType : row.group \in specGroups /\ specTypes' = (t :> row) @@ specTypes
  /\ UNCHANGED <<parents, specGroups, groupLinks, specs, enteredSpecs, tornSpecs>>

RemoveType(r, t) ==
  /\ AtOnce(r) /\ t \in DOMAIN specTypes /\ ~InUse(t)
  /\ specTypes' = [u \in DOMAIN specTypes \ {t} |-> specTypes[u]]
  /\ UNCHANGED <<parents, specGroups, groupLinks, specs, enteredSpecs, tornSpecs>>

WithoutValues(v, given) == Nothing

\* saveSpecValues: the DELETE, then the INSERT of what is not blank.
ClearSpecs(r, v) ==
  /\ \E S \in SUBSET DOMAIN specTypes : \E given \in [S -> SpecValues] :
       /\ Begin(r, "insert", [variant |-> v, given |-> given])
       /\ specs' = [specs EXCEPT ![v] = WithoutValues(v, given)]
  /\ UNCHANGED <<parents, specGroups, specTypes, groupLinks, enteredSpecs, tornSpecs>>

\* The unique key of variant and type and the foreign key of the type refuse.
InsertSpecs(r) ==
  LET v == job[r].variant  given == job[r].given IN
  /\ pc[r] = "insert" /\ Finish(r)
  /\ DOMAIN given \subseteq DOMAIN specTypes /\ DOMAIN given \cap DOMAIN specs[v] = {}
  /\ specs' = [specs EXCEPT ![v] =
       [t \in DOMAIN given \cup DOMAIN specs[v] |-> IF t \in DOMAIN given THEN given[t] ELSE specs[v][t]]]
  /\ enteredSpecs' = [enteredSpecs EXCEPT ![v] = given] /\ tornSpecs' = tornSpecs \ {v}
  /\ UNCHANGED <<parents, specGroups, specTypes, groupLinks>>

\* The insert is refused, or never sent.
Abandon(r) ==
  /\ GiveUp(r) /\ tornSpecs' = tornSpecs \cup {job[r].variant}
  /\ UNCHANGED <<parents, specGroups, specTypes, groupLinks, specs, enteredSpecs>>

Next == \E r \in Requests :
  \/ \E c \in Ids, g \in Groups : UpsertCategoryGroup(r, c, g) \/ UnlinkCategoryGroup(r, c, g)
  \/ \E g \in Groups : RemoveGroup(r, g)
  \/ \E t \in TypeIds : SaveType(r, t) \/ RemoveType(r, t)
  \/ \E v \in Variants : ClearSpecs(r, v)
  \/ InsertSpecs(r) \/ Abandon(r)

-----------------------------------------------------------------------------
TypeOK ==
  /\ parents \in Trees /\ specGroups \subseteq Groups /\ tornSpecs \subseteq Variants
  /\ DOMAIN groupLinks \subseteq Ids \X specGroups
  /\ \A k \in DOMAIN groupLinks : groupLinks[k] \in CategorySpecGroup
  /\ \A t \in DOMAIN specTypes : specTypes[t] \in SpecType /\ specTypes[t].group \in specGroups
  /\ \A v \in Variants : /\ DOMAIN specs[v] \subseteq DOMAIN specTypes
                         /\ \A t \in DOMAIN specs[v] : specs[v][t] \in SpecValue

\* The view of an administrator, the template of a category and the filters of the shop
\* resolve the links each in its own way: in all of them, the nearest link decides.
NearestLinkDecides ==
  \A c \in Ids :
    /\ Resolved(c) = TemplateLinks(c)
    /\ \A g \in Groups : g \in Included(Resolved(c)) <=>
         \E n \in DOMAIN Path(c) :
           /\ <<Path(c)[n], g>> \in DOMAIN groupLinks /\ groupLinks[<<Path(c)[n], g>>].hanhDong # "loai_tru"
           /\ \A m \in 1..(n - 1) : <<Path(c)[m], g>> \notin DOMAIN groupLinks
    /\ FilterTypes(c) \subseteq Template(c)
    /\ \A x \in DirectExcludes(c) : x.group \notin Included(TemplateLinks(c))

\* A search by a listed option finds what it counts and what the options count that differ
\* from it in case only, but no value that the database tells from the option because of
\* the blanks around it: where values are saved without such blanks and in one spelling,
\* what an option counts is what the search finds.  A toggle finds every value, and the
\* ends of a range hold everything that has a number.
FiltersFindWhatTheyCount ==
  \A c \in Ids : \A t \in FilterTypes(c) :
    CASE specTypes[t].widget = "checkbox" ->
           LET alike(o) == {p \in Options(c, t) : Folded(p.option) = Folded(o.option)}
               astray(o) == {v \in Bucket(c, t) : /\ Chosen(specs[v][t]) = o.option
                                                  /\ Folded(Raw(specs[v][t])) # Folded(o.option)}
           IN \A o \in Listed(c, t) :
                LET counted == UNION {p.products : p \in alike(o)}
                    found == Search(c, t, OptionPasses(o.option))
                IN found \subseteq counted /\ o.products \subseteq found \cup ProductsOf(astray(o))
      [] specTypes[t].widget = "range" ->
           \A lo, hi \in Numbers(c, t) : (\A n \in Numbers(c, t) : lo <= n /\ n <= hi) =>
             Search(c, t, RangePasses(lo, hi))
               = ProductsOf({v \in Bucket(c, t) : specs[v][t].number # NotANumber})
      [] OTHER -> Search(c, t, TogglePasses) = ProductsOf(Bucket(c, t))

\* While handlers do not overlap, a variant has the values that were last entered for it,
\* unless that was cut short, and each way to list them tells the same.
SpecsAsEntered ==
  \A v \in Variants :
    /\ v \notin tornSpecs /\ (\A r \in Requests : pc[r] = "idle") => specs[v] = enteredSpecs[v]
    /\ \A t \in DOMAIN Merged(v) :
         Merged(v)[t] # Nothing <=> \E g \in DOMAIN Grouped(v) : t \in Grouped(v)[g]
=============================================================================

--------------------------- MODULE MCBackOffice -----------------------------
(***************************************************************************)
(* What employees do in the back office, and who may. The components below *)
(* share no rows with each other, so each is explored alone: desk says     *)
(* whose requests are served, one at a time or overlapping, and the state  *)
(* of the others stays off.                                                *)
(***************************************************************************)
EXTENDS Integers, Sequences, FiniteSets, TLC

VARIABLES
  desk, pc, job, served,
  \* Guards
  call, answer,
  \* StaffRoles
  roles, cache, staff, links, given, outdated, touched, used,
  \* Categories
  categories, nextCategory, moved,
  \* Specifications
  parents, specGroups, specTypes, groupLinks, specs, enteredSpecs, tornSpecs,
  \* Products
  products, variants, contents, brandRows, productBrands, referred,
  enteredContents, enteredBrands, byHand, tornProducts,
  \* Banners
  banners, heroMode, cachedMode, tornConfig,
  \* Notices
  notices, unstated,
  \* Pages
  pages,
  \* Menus
  menuItems, ringed,
  \* HomeSections
  sections, listed, enteredItems, tornSections,
  \* HomePreview
  shelf, ask, cards,
  \* Media
  assets, stored, folders, attached, tornFiles,
  \* Reports
  bought, rfm, summary, jobLog, computed, tornSnapshot

\* StaffRoles: the instance that is explored.
SystemRolesHere == [n \in {"admin", "staff"} |-> IF n = "admin" THEN {"p"} ELSE {}]

\* Specifications: the instance that is explored.
\* Three categories, one below the other or two below the first; P is on sale.
SpecTrees == {<<0, 1, 2>>, <<0, 1, 1>>}
SpecProduct(v) == IF v = "d" THEN "Q" ELSE "P"
SpecCategory(p) == IF p = "Q" THEN 2 ELSE 3
\* "X" is "x" for the database, " x" is not.
SpecEntries == {[text |-> "x", canon |-> "NULL", number |-> 1],
  [text |-> "y", canon |-> "X", number |-> 2], [text |-> " x", canon |-> "NULL", number |-> 2],
  [text |-> "z", canon |-> "", number |-> -1]}
WithoutBlanks(text) == IF text = " x" THEN "x" ELSE text
WithoutCase(text) == IF text = "X" THEN "x" ELSE text

\* HomePreview: the instance that is explored.
\* Product 1 has variants 1 and 2 and two brands, product 2 has variant 3; the category
\* of the second is below that of the first.
ShelfProductHere(v) == IF v = 3 THEN 2 ELSE 1
ShelfBrandsHere(p) == IF p = 1 THEN {1, 2} ELSE {1}
ShelfParentHere(c) == IF c = 2 THEN 1 ELSE 0
ShelfCategoryHere(p) == p
NoScopes == [scopes |-> {}, requiredProducts |-> {}, requiredCategories |-> {}]
PreviewScopes == {[type |-> "global", ref |-> 0], [type |-> "product", ref |-> 1],
  [type |-> "variant", ref |-> 2], [type |-> "category", ref |-> 1], [type |-> "brand", ref |-> 2]}
PreviewAsks ==
  {[type |-> t, categories |-> S] : t \in {"category", "new_arrivals", "best_selling"}, S \in SUBSET {1, 2}}
  \cup {[type |-> "brand", brands |-> S] : S \in SUBSET {1, 2}}
  \cup {[NoScopes EXCEPT !.scopes = S] @@ [type |-> "promotion"] : S \in SUBSET PreviewScopes}
  \cup {[NoScopes EXCEPT !.requiredProducts = S, !.requiredCategories = T] @@ [type |-> "promotion"] :
       S \in SUBSET {1, 2}, T \in SUBSET {1, 2}}

\* Reports: the instance that is explored.
\* What a customer has bought: lately and often, once, long ago, never.
PurchaseKinds == <<[days |-> 1, count |-> 5, amount |-> 9], [days |-> 2, count |-> 1, amount |-> 3],
  [days |-> 90, count |-> 5, amount |-> 2], [days |-> 9999, count |-> 0, amount |-> 0]>>
PopulationsHere ==
  {[c \in DOMAIN k |-> PurchaseKinds[k[c]]] :
     k \in {x \in UNION {[1..n -> 1..4] : n \in 0..5} : \A c \in 2..Len(x) : x[c - 1] <= x[c]}}
PurchasesHere == {PurchaseKinds[k] : k \in 1..4}
LaterOnesHere == {<<>>, [c \in 1..4 |-> PurchaseKinds[2]]}

One == {"r1"}
Two == {"r1", "r2"}

GuardsAlone == INSTANCE Guards WITH Requests <- One, MaxServed <- 1
StaffRolesAlone == INSTANCE StaffRoles WITH Requests <- One, MaxServed <- 3,
  RoleIds <- 1..3, Names <- {"admin", "staff", "sales"}, Permissions <- {"p"},
  Canonical <- SystemRolesHere, Employees <- {"e1", "e2"}, Passwords <- {"old", "new"},
  MaxLinks <- 1
StaffRolesTogether == INSTANCE StaffRoles WITH Requests <- Two, MaxServed <- 2,
  RoleIds <- 1..3, Names <- {"admin", "staff", "sales"}, Permissions <- {"p"},
  Canonical <- SystemRolesHere, Employees <- {"e1", "e2"}, Passwords <- {"old", "new"},
  MaxLinks <- 1
CategoriesAlone == INSTANCE Categories WITH Requests <- One, MaxServed <- 4,
  Ids <- 1..3, Filed <- {1}
CategoriesTogether == INSTANCE Categories WITH Requests <- Two, MaxServed <- 2,
  Ids <- 1..3, Filed <- {1}
SpecificationsAlone == INSTANCE Specifications WITH Requests <- One, MaxServed <- 3,
  Ids <- 1..3, Trees <- SpecTrees, Levels <- 2, Groups <- {"g"}, TypeIds <- 1..1,
  Variants <- {"a", "b", "d"}, ProductOf <- SpecProduct, FiledIn <- SpecCategory,
  OnSale <- {"P"}, SpecValues <- SpecEntries, Trimmed <- WithoutBlanks,
  Folded <- WithoutCase, MaxOptions <- 1
ProductsAlone == INSTANCE Products WITH Requests <- One, MaxServed <- 2,
  ProductIds <- 1..2, VariantIds <- 1..4, Brands <- {"b"}
BannersAlone == INSTANCE Banners WITH Requests <- One, MaxServed <- 2,
  BannerIds <- 1..3, Positions <- {"homepage_hero", "homepage_hero_slider",
  "side_banner"}
NoticesAlone == INSTANCE Notices WITH Requests <- One, MaxServed <- 3,
  NoticeIds <- 1..2, NoticeWindows <- {<<1, 2>>, <<2, 3>>, <<0, 2>>, <<2, 0>>, <<0, 0>>}
PagesAlone == INSTANCE Pages WITH Requests <- One, MaxServed <- 3,
  PageIds <- 1..3, PageNames <- {"n"}
PagesTogether == INSTANCE Pages WITH Requests <- Two, MaxServed <- 3,
  PageIds <- 1..3, PageNames <- {"n"}
MenusAlone == INSTANCE Menus WITH Requests <- One, MaxServed <- 4,
  ItemIds <- 1..3, MenuIds <- {"footer", "header"}, FooterMenus <- {"footer"},
  ItemLimit <- 2
HomeSectionsAlone == INSTANCE HomeSections WITH Requests <- One, MaxServed <- 3,
  SectionIds <- 1..3, ListedVariants <- {"v"}
HomeSectionsTogether == INSTANCE HomeSections WITH Requests <- Two, MaxServed <- 2,
  SectionIds <- 1..3, ListedVariants <- {"v"}
HomePreviewAlone == INSTANCE HomePreview WITH Requests <- One, MaxServed <- 1,
  ShelfVariants <- 1..3, ShelfProducts <- 1..2, ShelfProduct <- ShelfProductHere,
  ShelfCategory <- ShelfCategoryHere, ShelfBrands <- ShelfBrandsHere,
  ShelfParent <- ShelfParentHere, Asks <- PreviewAsks, MaxProducts <- 2
MediaAlone == INSTANCE Media WITH Requests <- One, MaxServed <- 4,
  AssetIds <- 1..2, FolderIds <- 1..2, FolderPaths <- {"products", "banners"},
  FileKinds <- {"image", "video"}
ReportsAlone == INSTANCE Reports WITH Requests <- One, MaxServed <- 3,
  Buyers <- 1..5, Purchases <- PurchasesHere, Populations <- PopulationsHere,
  LaterOnes <- LaterOnesHere

guardsRows == <<call, answer>>
staffRolesRows == <<roles, cache, staff, links, given, outdated, touched, used>>
categoriesRows == <<categories, nextCategory, moved>>
specificationsRows == <<parents, specGroups, specTypes, groupLinks, specs,
    enteredSpecs, tornSpecs>>
productsRows == <<products, variants, contents, brandRows, productBrands,
    referred, enteredContents, enteredBrands, byHand, tornProducts>>
bannersRows == <<banners, heroMode, cachedMode, tornConfig>>
noticesRows == <<notices, unstated>>
pagesRows == <<pages>>
menusRows == <<menuItems, ringed>>
homeSectionsRows == <<sections, listed, enteredItems, tornSections>>
homePreviewRows == <<shelf, ask, cards>>
mediaRows == <<assets, stored, folders, attached, tornFiles>>
reportsRows == <<bought, rfm, summary, jobLog, computed, tornSnapshot>>

\* The state of a component that is not explored.
GuardsOff == call = 0 /\ answer = 0
StaffRolesOff == roles = 0 /\ cache = 0 /\ staff = 0 /\ links = 0 /\ given = 0
  /\ outdated = 0 /\ touched = 0 /\ used = 0
CategoriesOff == categories = 0 /\ nextCategory = 0 /\ moved = 0
SpecificationsOff == parents = 0 /\ specGroups = 0 /\ specTypes = 0 /\
  groupLinks = 0 /\ specs = 0 /\ enteredSpecs = 0 /\ tornSpecs = 0
ProductsOff == products = 0 /\ variants = 0 /\ contents = 0 /\ brandRows = 0 /\
  productBrands = 0 /\ referred = 0 /\ enteredContents = 0 /\ enteredBrands = 0
  /\ byHand = 0 /\ tornProducts = 0
BannersOff == banners = 0 /\ heroMode = 0 /\ cachedMode = 0 /\ tornConfig = 0
NoticesOff == notices = 0 /\ unstated = 0
PagesOff == pages = 0
MenusOff == menuItems = 0 /\ ringed = 0
HomeSectionsOff == sections = 0 /\ listed = 0 /\ enteredItems = 0 /\
  tornSections = 0
HomePreviewOff == shelf = 0 /\ ask = 0 /\ cards = 0
MediaOff == assets = 0 /\ stored = 0 /\ folders = 0 /\ attached = 0 /\ tornFiles
  = 0
ReportsOff == bought = 0 /\ rfm = 0 /\ summary = 0 /\ jobLog = 0 /\ computed = 0
  /\ tornSnapshot = 0

Overlapping == {"roles, overlapping", "categories, overlapping",
    "pages, overlapping", "home page, overlapping"}
Slots == IF desk \in Overlapping THEN Two ELSE One

Init ==
  /\ desk \in Overlapping \cup {"guards", "roles", "categories",
       "specifications", "products", "banners", "notices", "pages", "menus",
       "home page", "preview", "media", "reports"}
  /\ IF desk \in {"guards"}
       THEN GuardsAlone!GuardsInit ELSE GuardsOff
  /\ IF desk \in {"roles", "roles, overlapping"}
       THEN StaffRolesAlone!RolesInit ELSE StaffRolesOff
  /\ IF desk \in {"categories", "categories, overlapping"}
       THEN CategoriesAlone!CategoriesInit ELSE CategoriesOff
  /\ IF desk \in {"specifications"}
       THEN SpecificationsAlone!SpecsInit ELSE SpecificationsOff
  /\ IF desk \in {"products"}
       THEN ProductsAlone!ProductsInit ELSE ProductsOff
  /\ IF desk \in {"banners"}
       THEN BannersAlone!BannersInit ELSE BannersOff
  /\ IF desk \in {"notices"}
       THEN NoticesAlone!NoticesInit ELSE NoticesOff
  /\ IF desk \in {"pages", "pages, overlapping"}
       THEN PagesAlone!PagesInit ELSE PagesOff
  /\ IF desk \in {"menus"}
       THEN MenusAlone!MenusInit ELSE MenusOff
  /\ IF desk \in {"home page", "home page, overlapping"}
       THEN HomeSectionsAlone!SectionsInit ELSE HomeSectionsOff
  /\ IF desk \in {"preview"}
       THEN HomePreviewAlone!PreviewInit ELSE HomePreviewOff
  /\ IF desk \in {"media"}
       THEN MediaAlone!MediaInit ELSE MediaOff
  /\ IF desk \in {"reports"}
       THEN ReportsAlone!ReportsInit ELSE ReportsOff
  /\ pc = [r \in Slots |-> "idle"] /\ job = [r \in Slots |-> <<>>] /\ served = 0

Next ==
  \/ /\ desk = "guards" /\ GuardsAlone!Next
     /\ UNCHANGED <<desk, staffRolesRows, categoriesRows, specificationsRows,
          productsRows, bannersRows, noticesRows, pagesRows, menusRows,
          homeSectionsRows, homePreviewRows, mediaRows, reportsRows>>
  \/ /\ desk = "roles" /\ StaffRolesAlone!Next
     /\ UNCHANGED <<desk, guardsRows, categoriesRows, specificationsRows,
          productsRows, bannersRows, noticesRows, pagesRows, menusRows,
          homeSectionsRows, homePreviewRows, mediaRows, reportsRows>>
  \/ /\ desk = "roles, overlapping" /\ StaffRolesTogether!Next
     /\ UNCHANGED <<desk, guardsRows, categoriesRows, specificationsRows,
          productsRows, bannersRows, noticesRows, pagesRows, menusRows,
          homeSectionsRows, homePreviewRows, mediaRows, reportsRows>>
  \/ /\ desk = "categories" /\ CategoriesAlone!Next
     /\ UNCHANGED <<desk, guardsRows, staffRolesRows, specificationsRows,
          productsRows, bannersRows, noticesRows, pagesRows, menusRows,
          homeSectionsRows, homePreviewRows, mediaRows, reportsRows>>
  \/ /\ desk = "categories, overlapping" /\ CategoriesTogether!Next
     /\ UNCHANGED <<desk, guardsRows, staffRolesRows, specificationsRows,
          productsRows, bannersRows, noticesRows, pagesRows, menusRows,
          homeSectionsRows, homePreviewRows, mediaRows, reportsRows>>
  \/ /\ desk = "specifications" /\ SpecificationsAlone!Next
     /\ UNCHANGED <<desk, guardsRows, staffRolesRows, categoriesRows,
          productsRows, bannersRows, noticesRows, pagesRows, menusRows,
          homeSectionsRows, homePreviewRows, mediaRows, reportsRows>>
  \/ /\ desk = "products" /\ ProductsAlone!Next
     /\ UNCHANGED <<desk, guardsRows, staffRolesRows, categoriesRows,
          specificationsRows, bannersRows, noticesRows, pagesRows, menusRows,
          homeSectionsRows, homePreviewRows, mediaRows, reportsRows>>
  \/ /\ desk = "banners" /\ BannersAlone!Next
     /\ UNCHANGED <<desk, guardsRows, staffRolesRows, categoriesRows,
          specificationsRows, productsRows, noticesRows, pagesRows, menusRows,
          homeSectionsRows, homePreviewRows, mediaRows, reportsRows>>
  \/ /\ desk = "notices" /\ NoticesAlone!Next
     /\ UNCHANGED <<desk, guardsRows, staffRolesRows, categoriesRows,
          specificationsRows, productsRows, bannersRows, pagesRows, menusRows,
          homeSectionsRows, homePreviewRows, mediaRows, reportsRows>>
  \/ /\ desk = "pages" /\ PagesAlone!Next
     /\ UNCHANGED <<desk, guardsRows, staffRolesRows, categoriesRows,
          specificationsRows, productsRows, bannersRows, noticesRows, menusRows,
          homeSectionsRows, homePreviewRows, mediaRows, reportsRows>>
  \/ /\ desk = "pages, overlapping" /\ PagesTogether!Next
     /\ UNCHANGED <<desk, guardsRows, staffRolesRows, categoriesRows,
          specificationsRows, productsRows, bannersRows, noticesRows, menusRows,
          homeSectionsRows, homePreviewRows, mediaRows, reportsRows>>
  \/ /\ desk = "menus" /\ MenusAlone!Next
     /\ UNCHANGED <<desk, guardsRows, staffRolesRows, categoriesRows,
          specificationsRows, productsRows, bannersRows, noticesRows, pagesRows,
          homeSectionsRows, homePreviewRows, mediaRows, reportsRows>>
  \/ /\ desk = "home page" /\ HomeSectionsAlone!Next
     /\ UNCHANGED <<desk, guardsRows, staffRolesRows, categoriesRows,
          specificationsRows, productsRows, bannersRows, noticesRows, pagesRows,
          menusRows, homePreviewRows, mediaRows, reportsRows>>
  \/ /\ desk = "home page, overlapping" /\ HomeSectionsTogether!Next
     /\ UNCHANGED <<desk, guardsRows, staffRolesRows, categoriesRows,
          specificationsRows, productsRows, bannersRows, noticesRows, pagesRows,
          menusRows, homePreviewRows, mediaRows, reportsRows>>
  \/ /\ desk = "preview" /\ HomePreviewAlone!Next
     /\ UNCHANGED <<desk, guardsRows, staffRolesRows, categoriesRows,
          specificationsRows, productsRows, bannersRows, noticesRows, pagesRows,
          menusRows, homeSectionsRows, mediaRows, reportsRows>>
  \/ /\ desk = "media" /\ MediaAlone!Next
     /\ UNCHANGED <<desk, guardsRows, staffRolesRows, categoriesRows,
          specificationsRows, productsRows, bannersRows, noticesRows, pagesRows,
          menusRows, homeSectionsRows, homePreviewRows, reportsRows>>
  \/ /\ desk = "reports" /\ ReportsAlone!Next
     /\ UNCHANGED <<desk, guardsRows, staffRolesRows, categoriesRows,
          specificationsRows, productsRows, bannersRows, noticesRows, pagesRows,
          menusRows, homeSectionsRows, homePreviewRows, mediaRows>>

vars == <<desk, pc, job, served, guardsRows, staffRolesRows, categoriesRows,
    specificationsRows, productsRows, bannersRows, noticesRows, pagesRows,
    menusRows, homeSectionsRows, homePreviewRows, mediaRows, reportsRows>>

Spec == Init /\ [][Next]_vars

-----------------------------------------------------------------------------
\* The types of all that the components keep.
BackOfficeTypeOK ==
  /\ desk = "guards" => GuardsAlone!TypeOK
  /\ desk = "roles" => StaffRolesAlone!TypeOK
  /\ desk = "roles, overlapping" => StaffRolesTogether!TypeOK
  /\ desk = "categories" => CategoriesAlone!TypeOK
  /\ desk = "categories, overlapping" => CategoriesTogether!TypeOK
  /\ desk = "specifications" => SpecificationsAlone!TypeOK
  /\ desk = "products" => ProductsAlone!TypeOK
  /\ desk = "banners" => BannersAlone!TypeOK
  /\ desk = "notices" => NoticesAlone!TypeOK
  /\ desk = "pages" => PagesAlone!TypeOK
  /\ desk = "pages, overlapping" => PagesTogether!TypeOK
  /\ desk = "menus" => MenusAlone!TypeOK
  /\ desk = "home page" => HomeSectionsAlone!TypeOK
  /\ desk = "home page, overlapping" => HomeSectionsTogether!TypeOK
  /\ desk = "preview" => HomePreviewAlone!TypeOK
  /\ desk = "media" => MediaAlone!TypeOK
  /\ desk = "reports" => ReportsAlone!TypeOK

\* Inside a controller no parameter takes the place of a fixed word, the
\* administrator is refused nothing, and whoever may change something of a
\* module may read it. Under any interleaving, roles of the system grant what
\* the catalog says and a link sets a password once; without overlap, the guard
\* grants what the role has and an employee has the roles that were assigned.
AccessTiesUp ==
  /\ desk = "guards" =>
       /\ GuardsAlone!FixedWordsFirst
       /\ GuardsAlone!AdminIsNeverRefused
       /\ GuardsAlone!WritersMayRead
  /\ desk = "roles" =>
       /\ StaffRolesAlone!GuardFollowsRoles
       /\ StaffRolesAlone!SystemRolesIntact
       /\ StaffRolesAlone!EditsKeepRoles
       /\ StaffRolesAlone!LinkWorksOnce
  /\ desk = "roles, overlapping" =>
       /\ StaffRolesTogether!SystemRolesIntact
       /\ StaffRolesTogether!LinkWorksOnce

\* Without overlap, a branch of categories has one root of comparison at most
\* and levels count what is above; the nearest link to a group of specifications
\* decides, filters find what they count up to blanks and case, and values,
\* images and brands are as entered or copied, unless a handler ended half way;
\* a product has one default variant at most, unless requests spelled out
\* others.
CatalogueTiesUp ==
  /\ desk = "categories" =>
       /\ CategoriesAlone!OneRootEachBranch
       /\ CategoriesAlone!LevelsFit
  /\ desk = "specifications" =>
       /\ SpecificationsAlone!NearestLinkDecides
       /\ SpecificationsAlone!FiltersFindWhatTheyCount
       /\ SpecificationsAlone!SpecsAsEntered
  /\ desk = "products" =>
       /\ ProductsAlone!ContentsAsEntered
       /\ ProductsAlone!OneDefaultVariant

\* Under any interleaving, an address is answered by one page. Without overlap,
\* customers see the banners that are enabled and the hero that was chosen, one
\* notice at a place, every item of a menu and no more than the footer holds; a
\* section of the home page lists what was entered, or each product on sale that
\* it asks for, once; the library lists the files there are.
ContentTiesUp ==
  /\ desk = "banners" =>
       /\ BannersAlone!EnabledAreShown
       /\ BannersAlone!ModeIsCurrent
  /\ desk = "notices" => NoticesAlone!OneNoticeEachPlace
  /\ desk = "pages" => PagesAlone!AddressAnswersOne
  /\ desk = "pages, overlapping" => PagesTogether!AddressAnswersOne
  /\ desk = "menus" =>
       /\ MenusAlone!FooterFits
       /\ MenusAlone!EveryItemIsListed
  /\ desk = "home page" => HomeSectionsAlone!ItemsAsEntered
  /\ desk = "preview" =>
       /\ HomePreviewAlone!OneCardEachProduct
       /\ HomePreviewAlone!NothingIsMissed
  /\ desk = "media" => MediaAlone!LibraryMatchesStore

\* Without overlap, the log of the segment job tells what the table holds, the
\* summary counts its rows, and no customer is ranked below one who has bought
\* less.
ReportsTieUp ==
  /\ desk = "reports" =>
       /\ ReportsAlone!SegmentsFollowPurchases
       /\ ReportsAlone!LogTellsTheTable

\* Without overlap, removals leave the other categories where they are, a copy
\* of a product or a variant is hidden and leaves the others as they are, that
\* of a section of the home page changes nothing that customers are shown under
\* any interleaving, and deleting a role takes it from nobody.
BackOfficeSteps ==
  [][/\ desk = "categories" => CategoriesAlone!RemovalKeepsPlaces
     /\ desk = "products" => ProductsAlone!CopiesStayHidden
     /\ desk = "home page" => HomeSectionsAlone!CopyIsHidden
     /\ desk = "home page, overlapping" => HomeSectionsTogether!CopyIsHidden
     /\ desk = "roles" => StaffRolesAlone!HeldRoleStays]_vars

\* A request for the path of a handler reaches that handler.
EveryHandlerIsReached ==
  desk = "guards" => GuardsAlone!EveryHandlerIsReached

\* An asset that something refers to keeps its file (.ai/MODULES.md, Media:
\* "prevent delete if in use").
AssetInUseIsKept ==
  desk = "media" => MediaAlone!AssetInUseIsKept

=============================================================================

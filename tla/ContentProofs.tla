--------------------------- MODULE ContentProofs ----------------------------
(***************************************************************************)
(* What holds of what the shop shows of its content, for any number of     *)
(* rows and of handlers at once, or for any number of handlers one after   *)
(* the other.  Each component is an instance; its specification lets its   *)
(* own handlers run, as the runs of MCBackOffice do.                       *)
(***************************************************************************)
EXTENDS Integers, Sequences, FiniteSets, FiniteSetTheorems, TLAPS

CONSTANTS
  Requests, MaxServed, PageIds, PageNames, SectionIds, ListedVariants,
  ItemIds, MenuIds, FooterMenus, ItemLimit, NoticeIds, NoticeWindows,
  BannerIds, Positions, AssetIds, FolderIds, FolderPaths, FileKinds

VARIABLES
  pc, job, served, pages, sections, listed, enteredItems, tornSections,
  menuItems, ringed, notices, unstated, banners, heroMode, cachedMode,
  tornConfig, assets, stored, folders, attached, tornFiles

Site == INSTANCE Pages
Home == INSTANCE HomeSections
Menu == INSTANCE Menus
Popups == INSTANCE Notices
Places == INSTANCE Banners
Library == INSTANCE Media

\* No request is under way.
Quiet ==
  pc = [r \in Requests |-> "idle"] /\ job = [r \in Requests |-> <<>>] /\ served = 0

\* Every slot has a step and what its handler has read.
Slots == pc = [r \in Requests |-> pc[r]] /\ job = [r \in Requests |-> job[r]]

\* Handlers do not overlap.
OneAtATime == \A r, q \in Requests : r = q

-----------------------------------------------------------------------------
(* Pages: two rows never answer the same address *)

PagingStart == Site!PagesInit /\ Quiet

pagingVars == <<pages, Site!handling>>

PagingSpec == PagingStart /\ [][Site!Next]_pagingVars

\* A new slug that only the page i may have in its old form.
Fresh(rows, s, i) ==
  /\ s \in Site!Slug /\ s.depth # 0
  /\ s.depth = 1 =>
       \A k \in DOMAIN rows \ {i} : ~(rows[k].slug.depth = 0 /\ rows[k].slug.name = s.name)

\* No two rows have the same slug, and no name is there in the old and in the new form.
RowsApart ==
  /\ pages = [k \in DOMAIN pages |-> pages[k]] /\ 0 \notin DOMAIN pages
  /\ \A k \in DOMAIN pages : pages[k].slug \in Site!Slug
  /\ \A k \in DOMAIN pages : pages[k].slug.depth = 0 \/ Fresh(pages, pages[k].slug, k)
  /\ \A i, k \in DOMAIN pages : i # k => pages[i].slug # pages[k].slug

\* A slug that passed the check is still free in its old form when it is written: rows of
\* the old form only become fewer.
PagesInv ==
  /\ pc = [r \in Requests |-> pc[r]] /\ job = [r \in Requests |-> job[r]]
  /\ RowsApart
  /\ \A r \in Requests :
       /\ pc[r] = "insert" => Fresh(pages, job[r].slug, 0)
       /\ pc[r] = "update" => \A s \in job[r].slug : Fresh(pages, s, job[r].id)

\* A slug that was normalised is never the empty one.
LEMMA NormalSlug ==
  ASSUME NEW s \in Site!Slug
  PROVE  /\ Site!normalizeStaticPageSlug(s) \in Site!Slug
         /\ Site!normalizeStaticPageSlug(s).depth # 0
         /\ s.depth \in 0..1 => Site!normalizeStaticPageSlug(s) = [name |-> s.name, depth |-> 1]
<1>1. Site!Max({s.depth - 1, 0}) = IF s.depth = 2 THEN 1 ELSE 0
  <2>1. s.depth \in 0..2
    BY DEF Site!Slug
  <2>2. CASE s.depth = 2
    <3>1. \A x \in {1, 0} : (\A y \in {1, 0} : x >= y) <=> x = 1
      OBVIOUS
    <3> QED
      BY <2>2, <3>1 DEF Site!Max
  <2>3. CASE s.depth # 2
    <3>1. s.depth - 1 <= 0
      BY <2>1, <2>3
    <3>2. \A x \in {s.depth - 1, 0} : (\A y \in {s.depth - 1, 0} : x >= y) <=> x = 0
      BY <2>1, <3>1
    <3> QED
      BY <2>3, <3>2 DEF Site!Max
  <2> QED
    BY <2>2, <2>3
<1> QED
  BY <1>1 DEF Site!normalizeStaticPageSlug, Site!Slug

\* What the check of a slug establishes.
LEMMA CheckedIsFresh ==
  ASSUME RowsApart, NEW s \in Site!Slug, NEW i, ~Site!findSlugConflict(s, i)
  PROVE  Fresh(pages, Site!normalizeStaticPageSlug(s), i)
<1> DEFINE n == Site!normalizeStaticPageSlug(s)
<1>1. n \in Site!Slug /\ n.depth # 0
  BY NormalSlug
<1>2. \A k \in DOMAIN pages \ {i} : pages[k].slug # [n EXCEPT !.depth = @ - 1]
  BY DEF Site!findSlugConflict, Site!getStaticPageSlugCandidates
<1> HIDE DEF n
<1>3. ASSUME n.depth = 1, NEW k \in DOMAIN pages \ {i},
             pages[k].slug.depth = 0, pages[k].slug.name = n.name
      PROVE  FALSE
  <2>1. pages[k].slug \in Site!Slug
    BY DEF RowsApart
  <2>2. pages[k].slug = [n EXCEPT !.depth = @ - 1]
    BY <1>1, <1>3, <2>1 DEF Site!Slug
  <2> QED
    BY <1>2, <1>3, <2>2
<1>4. Fresh(pages, n, i)
  BY <1>1, <1>3 DEF Fresh
<1> QED
  BY <1>4 DEF n

\* A step that makes no row of the old form leaves fresh what was fresh.
LEMMA FreshLasts ==
  ASSUME NEW s, NEW i, Fresh(pages, s, i),
         \A k \in DOMAIN pages' : pages'[k].slug.depth = 0 =>
           k \in DOMAIN pages /\ pages'[k].slug = pages[k].slug
  PROVE  Fresh(pages', s, i)
  BY DEF Fresh, Site!Slug

\* At the start the rows have addresses of their own.
LEMMA PagesInvInit == 0 \notin PageIds /\ PagingStart => PagesInv
<1> SUFFICES ASSUME PagingStart PROVE PagesInv
  OBVIOUS
<1>1. RowsApart
  <2>1. pages = <<>> \/ pages \in [{1} -> {p \in Site!Page : p.slug.depth = 0 /\ p.published}]
    BY DEF PagingStart, Quiet, Site!PagesInit
  <2>2. CASE pages = <<>>
    BY <2>2 DEF RowsApart
  <2>3. CASE pages \in [{1} -> {p \in Site!Page : p.slug.depth = 0 /\ p.published}]
    BY <2>3 DEF RowsApart, Site!Page
  <2> QED
    BY <2>1, <2>2, <2>3
<1> QED
  BY <1>1 DEF PagingStart, Quiet, PagesInv

\* A handler that is to write a page has checked its address, and no other wrote it meanwhile.
LEMMA PagesInvNext == 0 \notin PageIds /\ PagesInv /\ [Site!Next]_pagingVars => PagesInv'
<1> SUFFICES ASSUME 0 \notin PageIds, PagesInv, [Site!Next]_pagingVars PROVE PagesInv'
  OBVIOUS
<1> USE DEF PagesInv
<1>0. ASSUME UNCHANGED pages PROVE RowsApart' /\ \A s, i : Fresh(pages, s, i) =>
             Fresh(pages', s, i)
  BY <1>0 DEF RowsApart, Fresh, Site!Slug
<1>1. ASSUME NEW r \in Requests, Site!CreatePage(r) PROVE PagesInv'
  <2>1. PICK s \in Site!Slug, published \in BOOLEAN :
          /\ ~Site!findSlugConflict(s, 0)
          /\ Site!Begin(r, "insert", [slug |-> Site!normalizeStaticPageSlug(s), published |-> published])
          /\ UNCHANGED pages
    BY <1>1 DEF Site!CreatePage
  <2>2. Fresh(pages, Site!normalizeStaticPageSlug(s), 0)
    BY <2>1, CheckedIsFresh
  <2> QED
    BY <2>1, <2>2, <1>0 DEF Site!Begin
<1>2. ASSUME NEW r \in Requests, Site!InsertPage(r) PROVE PagesInv'
  <2> DEFINE n == Site!Min(Site!FreeIds \cup {Site!Max(PageIds) + 1})
  <2>1. PICK i : i = n
    OBVIOUS
  <2>2. /\ pc[r] = "insert" /\ i \in PageIds /\ ~Site!Taken(job[r].slug, 0) /\ Site!Finish(r)
        /\ pages' = [k \in DOMAIN pages \cup {i} |-> IF k = i THEN job[r] ELSE pages[k]]
    BY <1>2, <2>1 DEF Site!InsertPage
  <2> HIDE DEF n
  <2>3. Fresh(pages, job[r].slug, 0)
    BY <2>2
  <2>4. \A k \in DOMAIN pages' : pages'[k].slug.depth = 0 =>
          k \in DOMAIN pages /\ pages'[k].slug = pages[k].slug
    BY <2>2, <2>3 DEF Fresh
  <2>5. \A s, j : Fresh(pages, s, j) => Fresh(pages', s, j)
    BY <2>4, FreshLasts
  <2>6. RowsApart'
    <3>1. \A k \in DOMAIN pages' : pages'[k].slug \in Site!Slug
      BY <2>2, <2>3 DEF RowsApart, Fresh
    <3>2. \A k \in DOMAIN pages' : pages'[k].slug.depth = 0 \/ Fresh(pages', pages'[k].slug, k)
      <4>1. SUFFICES ASSUME NEW k \in DOMAIN pages', NEW s, s = pages'[k].slug
                     PROVE  s.depth = 0 \/ Fresh(pages', s, k)
        OBVIOUS
      <4>2. CASE k = i
        <5>1. Fresh(pages, job[r].slug, i)
          BY <2>3 DEF RowsApart, Fresh
        <5>2. Fresh(pages', job[r].slug, i)
          BY <2>4, <5>1 DEF Fresh, Site!Slug
        <5>3. s = job[r].slug
          BY <2>2, <4>1, <4>2
        <5> QED
          BY <4>2, <5>2, <5>3
      <4>3. CASE k # i
        <5>1. k \in DOMAIN pages /\ s = pages[k].slug
          BY <2>2, <4>1, <4>3
        <5> QED
          BY <2>5, <5>1 DEF RowsApart
      <4> QED
        BY <4>2, <4>3
    <3>3. \A j, k \in DOMAIN pages' : j # k => pages'[j].slug # pages'[k].slug
      BY <2>2 DEF Site!Taken, RowsApart
    <3>4. pages' = [k \in DOMAIN pages' |-> pages'[k]] /\ 0 \notin DOMAIN pages'
      BY <2>2 DEF RowsApart
    <3> QED
      BY <3>1, <3>2, <3>3, <3>4 DEF RowsApart
  <2> QED
    BY <2>2, <2>5, <2>6 DEF Site!Finish
<1>3. ASSUME NEW r \in Requests, NEW i \in DOMAIN pages, Site!UpdatePage(r, i) PROVE PagesInv'
  <2>1. PICK published \in BOOLEAN, S \in {{}} \cup {{s} : s \in Site!Slug} :
          /\ \A s \in S : Site!normalizeStaticPageSlug(s) # pages[i].slug =>
                 ~Site!findSlugConflict(s, i)
          /\ Site!Begin(r, "update", [id |-> i, slug |-> {Site!normalizeStaticPageSlug(s) :
                 s \in S},
                                 published |-> published])
          /\ UNCHANGED pages
    BY <1>3 DEF Site!UpdatePage
  <2>2. ASSUME NEW s \in S PROVE Fresh(pages, Site!normalizeStaticPageSlug(s), i)
    <3>1. s \in Site!Slug
      BY <2>1
    <3>2. CASE Site!normalizeStaticPageSlug(s) = pages[i].slug
      BY <3>1, <3>2, NormalSlug DEF RowsApart
    <3>3. CASE Site!normalizeStaticPageSlug(s) # pages[i].slug
      BY <2>1, <3>1, <3>3, CheckedIsFresh
    <3> QED
      BY <3>2, <3>3
  <2> QED
    BY <2>1, <2>2, <1>0 DEF Site!Begin
<1>4. ASSUME NEW r \in Requests, Site!SavePage(r) PROVE PagesInv'
  <2>1. PICK i : i = job[r].id
    OBVIOUS
  <2> DEFINE new == IF job[r].slug = {} THEN pages[i].slug ELSE CHOOSE s \in job[r].slug : TRUE
  <2>2. /\ pc[r] = "update" /\ \A s \in job[r].slug : i \in DOMAIN pages => ~Site!Taken(s, i)
        /\ Site!Finish(r)
        /\ pages' = [k \in DOMAIN pages |->
             IF k # i THEN pages[k] ELSE [slug |-> new, published |-> job[r].published]]
    BY <1>4, <2>1 DEF Site!SavePage
  <2>3. i \in DOMAIN pages => new = pages[i].slug \/ (new \in job[r].slug /\ Fresh(pages, new, i))
    BY <2>1, <2>2
  <2>4. i \in DOMAIN pages => ~Site!Taken(new, i)
    BY <2>2 DEF RowsApart, Site!Taken
  <2> HIDE DEF new
  <2>5. \A k \in DOMAIN pages' : pages'[k].slug.depth = 0 =>
          k \in DOMAIN pages /\ pages'[k].slug = pages[k].slug
    BY <2>2, <2>3 DEF Fresh
  <2>6. \A s, j : Fresh(pages, s, j) => Fresh(pages', s, j)
    BY <2>5, FreshLasts
  <2>7. RowsApart'
    <3>1. \A k \in DOMAIN pages' : pages'[k].slug \in Site!Slug
      BY <2>2, <2>3 DEF RowsApart, Fresh
    <3>2. \A k \in DOMAIN pages' : pages'[k].slug.depth = 0 \/ Fresh(pages', pages'[k].slug, k)
      <4>1. SUFFICES ASSUME NEW k \in DOMAIN pages', NEW s, s = pages'[k].slug
                     PROVE  s.depth = 0 \/ Fresh(pages', s, k)
        BY DEF Fresh, Site!Slug
      <4>2. s.depth = 0 \/ Fresh(pages, s, k)
        BY <2>2, <2>3, <4>1 DEF RowsApart
      <4> QED
        BY <2>6, <4>2
    <3>3. \A j, k \in DOMAIN pages' : j # k => pages'[j].slug # pages'[k].slug
      BY <2>2, <2>4 DEF Site!Taken, RowsApart
    <3> QED
      BY <2>2, <3>1, <3>2, <3>3 DEF RowsApart
  <2> QED
    BY <2>2, <2>6, <2>7 DEF Site!Finish
<1>5. ASSUME NEW r \in Requests, NEW i \in DOMAIN pages, Site!RemovePage(r, i) PROVE PagesInv'
  <2>1. pages' = [k \in DOMAIN pages \ {i} |-> pages[k]] /\ UNCHANGED <<pc, job>>
    BY <1>5 DEF Site!RemovePage, Site!AtOnce
  <2>2. \A s, j : Fresh(pages, s, j) => Fresh(pages', s, j)
    BY <2>1, FreshLasts
  <2>3. RowsApart'
    <3>1. ASSUME NEW k \in DOMAIN pages', NEW s, s = pages'[k].slug
          PROVE  s.depth = 0 \/ Fresh(pages', s, k)
      BY <2>1, <2>2, <3>1 DEF RowsApart
    <3> QED
      BY <2>1, <3>1 DEF RowsApart, Fresh, Site!Slug
  <2> QED
    BY <2>1, <2>2, <2>3
<1>6. ASSUME NEW r \in Requests, Site!Abandon(r) PROVE PagesInv'
  BY <1>6, <1>0 DEF Site!Abandon, Site!GiveUp, Site!Finish
<1>7. CASE UNCHANGED pagingVars
  BY <1>7, <1>0 DEF pagingVars, Site!handling
<1> QED
  BY <1>1, <1>2, <1>3, <1>4, <1>5, <1>6, <1>7 DEF Site!Next

\* However handlers overlap between the check of a slug and its write, an address, in the
\* old or in the new form, is answered by one page, for any number of pages and names.
THEOREM AddressesAnswerOne ==
  ASSUME 0 \notin PageIds
  PROVE  PagingSpec => []Site!AddressAnswersOne
<1>1. PagesInv => Site!AddressAnswersOne
  <2> SUFFICES ASSUME PagesInv, NEW n \in PageNames, NEW d \in 0..1, NEW e \in 0..1,
                      NEW i \in Site!Answering([name |-> n, depth |-> d]),
                      NEW k \in Site!Answering([name |-> n, depth |-> e])
               PROVE  i = k
    BY DEF Site!AddressAnswersOne
  <2>1. ASSUME NEW c \in 0..1, NEW j \in Site!Answering([name |-> n, depth |-> c])
        PROVE  /\ j \in DOMAIN pages /\ pages[j].slug \in Site!Slug
               /\ pages[j].slug.name = n /\ pages[j].slug.depth \in 0..1
    <3>1. [name |-> n, depth |-> c] \in Site!Slug
      BY DEF Site!Slug
    <3>2. Site!normalizeStaticPageSlug([name |-> n, depth |-> c]) = [name |-> n, depth |-> 1]
      BY <3>1, NormalSlug
    <3> QED
      BY <2>1, <3>2 DEF Site!Answering, Site!getStaticPageSlugCandidates, PagesInv, RowsApart
  <2>2. ASSUME NEW j, NEW m, j # m, {j, m} = {i, k}, pages[j].slug.depth = 0 PROVE FALSE
    <3>1. /\ j \in DOMAIN pages /\ m \in DOMAIN pages
          /\ pages[j].slug \in Site!Slug /\ pages[m].slug \in Site!Slug
          /\ pages[j].slug # pages[m].slug
          /\ pages[j].slug.name = n /\ pages[m].slug.name = n /\ pages[m].slug.depth \in 0..1
      BY <2>1, <2>2 DEF PagesInv, RowsApart
    <3>2. pages[m].slug.depth = 1
      BY <2>2, <3>1 DEF Site!Slug
    <3>3. Fresh(pages, pages[m].slug, m)
      BY <3>1, <3>2 DEF PagesInv, RowsApart
    <3> QED
      BY <2>2, <3>1, <3>2, <3>3 DEF Fresh
  <2>3. ASSUME pages[i].slug.depth = 1, pages[k].slug.depth = 1 PROVE i = k
    <3>1. pages[i].slug = pages[k].slug
      BY <2>1, <2>3 DEF Site!Slug
    <3> QED
      BY <2>1, <3>1 DEF PagesInv, RowsApart
  <2>4. pages[i].slug.depth = 0 /\ i # k => FALSE
    BY <2>2
  <2>5. pages[k].slug.depth = 0 /\ i # k => FALSE
    BY <2>2
  <2>6. pages[i].slug.depth \in 0..1 /\ pages[k].slug.depth \in 0..1
    BY <2>1
  <2> QED
    BY <2>3, <2>4, <2>5, <2>6
<1> QED
  BY <1>1, PagesInvInit, PagesInvNext, PTL DEF PagingSpec

-----------------------------------------------------------------------------
(* Sections of the home page: copies nobody sees, and the items that were entered *)

HomeStart == Home!SectionsInit /\ Quiet

homeVars == <<Home!sectionVars, Home!handling>>

HomeSpec == HomeStart /\ [][Home!Next]_homeVars

\* A finite set of naturals has a largest element.
LEMMA LargestExists ==
  ASSUME NEW S, S \subseteq Nat, IsFiniteSet(S), S # {}
  PROVE  \E x \in S : \A y \in S : x >= y
<1> DEFINE Greater(x) == {y \in S : y > x}
           T == {Greater(x) : x \in S}
<1>1. IsWellFoundedOn(StrictSubsetOrdering(S), SUBSET S)
  BY FS_StrictSubsetOrderingWellFounded, FS_FiniteSubsetsOfFinite
<1>2. PICK U \in T : \A V \in T : ~(<<V, U>> \in StrictSubsetOrdering(S))
  <2>1. T \subseteq SUBSET S /\ T # {}
    OBVIOUS
  <2> HIDE DEF T
  <2> QED
    BY <1>1, <2>1, WFMin
<1>3. PICK x \in S : U = Greater(x)
  OBVIOUS
<1>4. ASSUME NEW y \in S, y > x PROVE FALSE
  <2>1. Greater(y) \in T /\ Greater(y) \subseteq Greater(x)
    <3>1. Greater(y) \in T
      OBVIOUS
    <3>2. \A z \in S : z > y => z > x
      BY <1>4
    <3> QED
      BY <3>1, <3>2
  <2>2. y \in Greater(x) /\ y \notin Greater(y)
    BY <1>4
  <2> HIDE DEF Greater
  <2>3. <<Greater(y), U>> \notin StrictSubsetOrdering(S) /\ U \in SUBSET S
    BY <1>2, <2>1, <1>3 DEF Greater
  <2> QED
    BY <1>3, <2>1, <2>2, <2>3 DEF StrictSubsetOrdering
<1> QED
  BY <1>4

\* A set of naturals has a least element.
LEMMA LeastExists ==
  ASSUME NEW S, S \subseteq Nat, S # {}
  PROVE  \E x \in S : \A y \in S : x <= y
<1> DEFINE Less == {p \in Nat \X Nat : p[1] < p[2]}
<1>1. IsWellFoundedOn(Less, Nat)
  BY NatLessThanWellFounded DEF OpToRel
<1>2. PICK x \in S : \A y \in S : ~(<<y, x>> \in Less)
  <2> HIDE DEF Less
  <2> QED
    BY <1>1, WFMin
<1>3. ASSUME NEW y \in S PROVE x <= y
  <2>1. <<y, x>> \in Nat \X Nat /\ ~(<<y, x>> \in Less)
    BY <1>2
  <2> QED
    BY <2>1
<1> QED
  BY <1>3

\* The id of a new row is that of no other.
LEMMA NewIdIsFree ==
  ASSUME IsFiniteSet(SectionIds), SectionIds \subseteq Nat,
         Home!Min(Home!FreeIds \cup {Home!Max(SectionIds) + 1}) \in SectionIds
  PROVE  Home!Min(Home!FreeIds \cup {Home!Max(SectionIds) + 1}) \in Home!FreeIds
<1> DEFINE top == Home!Max(SectionIds)  S == Home!FreeIds \cup {top + 1}
<1>1. top \in SectionIds /\ \A x \in SectionIds : top >= x
  BY LargestExists DEF Home!Max
<1> HIDE DEF top
<1>2. S \subseteq Nat /\ S # {} /\ top + 1 \notin SectionIds
  <2>1. top \in Nat
    BY <1>1
  <2>2. top + 1 \in Nat /\ ~(top >= top + 1)
    BY <2>1
  <2>3. Home!FreeIds \subseteq SectionIds
    BY DEF Home!FreeIds
  <2> QED
    BY <1>1, <2>2, <2>3
<1> HIDE DEF S
<1>3. Home!Min(S) \in S
  BY <1>2, LeastExists DEF Home!Min
<1> QED
  BY <1>2, <1>3 DEF S, top

-----------------------------------------------------------------------------

\* Whatever else is under way, each section has its list.
ListsThere == Slots /\ DOMAIN listed = DOMAIN sections

LEMMA ListsInit == HomeStart => ListsThere
  BY DEF HomeStart, Home!SectionsInit, Quiet, ListsThere, Slots

LEMMA ListsNext == ListsThere /\ [Home!Next]_homeVars => ListsThere'
<1> SUFFICES ASSUME ListsThere, [Home!Next]_homeVars PROVE ListsThere'
  OBVIOUS
<1>1. ASSUME NEW r \in Requests, NEW l, NEW j,
             Home!Begin(r, l, j) \/ Home!Continue(r, l, j) \/ Home!Finish(r) \/ Home!AtOnce(r)
      PROVE  Slots'
  BY <1>1 DEF ListsThere, Slots, Home!Begin, Home!Continue, Home!Finish, Home!AtOnce
<1>2. ASSUME NEW i, NEW row, NEW set, Home!InsertSection(i, row, set)
      PROVE  DOMAIN listed' = DOMAIN sections'
  BY <1>2 DEF ListsThere, Home!InsertSection, Home!Put
<1>3. ASSUME NEW r \in Requests, Home!CreateSection(r) \/ Home!InsertCopy(r) PROVE ListsThere'
  <2>1. \E i, row, set : Home!InsertSection(i, row, set)
    BY <1>3 DEF Home!CreateSection, Home!InsertCopy
  <2>2. \E l, j : Home!Begin(r, l, j) \/ Home!Continue(r, l, j) \/ Home!Finish(r)
          \/ Home!AtOnce(r)
    BY <1>3 DEF Home!CreateSection, Home!InsertCopy
  <2> QED
    BY <1>1, <1>2, <2>1, <2>2 DEF ListsThere
<1>4. ASSUME NEW r \in Requests, Home!InsertItems(r) \/ Home!DeleteItems(r) PROVE ListsThere'
  <2>1. DOMAIN listed' = DOMAIN listed /\ UNCHANGED sections
    BY <1>4 DEF Home!InsertItems, Home!DeleteItems
  <2>2. Slots'
    BY <1>4, <1>1 DEF Home!InsertItems, Home!DeleteItems
  <2> QED
    BY <2>1, <2>2 DEF ListsThere
<1>5. ASSUME NEW r \in Requests, NEW i \in DOMAIN sections,
             Home!UpdateSection(r, i) \/ Home!CloneSection(r, i)
      PROVE  ListsThere'
  <2>1. UNCHANGED listed /\ DOMAIN sections' = DOMAIN sections
    BY <1>5 DEF Home!UpdateSection, Home!CloneSection, Home!sectionVars
  <2>2. \E l, j : Home!Begin(r, l, j) \/ Home!AtOnce(r)
    BY <1>5 DEF Home!UpdateSection, Home!CloneSection
  <2> QED
    BY <1>1, <2>1, <2>2 DEF ListsThere
<1>6. ASSUME NEW r \in Requests, NEW i \in DOMAIN sections, Home!RemoveSection(r, i)
      PROVE  ListsThere'
  BY <1>6, <1>1 DEF Home!RemoveSection, Home!Drop, ListsThere
<1>7. ASSUME NEW r \in Requests, Home!Abandon(r) PROVE ListsThere'
  BY <1>7, <1>1 DEF Home!Abandon, Home!GiveUp, ListsThere
<1>8. CASE UNCHANGED homeVars
  BY <1>8 DEF homeVars, Home!sectionVars, Home!handling, ListsThere, Slots
<1> QED
  BY <1>3, <1>4, <1>5, <1>6, <1>7, <1>8 DEF Home!Next

\* Whatever else is under way, the step that inserts the copy of a section changes nothing
\* that customers see: the copy is hidden, and its id is that of no other section.
THEOREM CopiesStayUnseen ==
  ASSUME IsFiniteSet(SectionIds), SectionIds \subseteq Nat
  PROVE  HomeSpec => [][Home!CopyIsHidden]_homeVars
<1>1. ListsThere /\ [Home!Next]_homeVars => Home!CopyIsHidden
  <2> SUFFICES ASSUME ListsThere, [Home!Next]_homeVars,
                      NEW r \in Requests, pc[r] = "insert copy", job'[r] # job[r]
               PROVE  Home!HomePage' = Home!HomePage
    BY DEF Home!CopyIsHidden
  <2>a. ASSUME NEW q \in Requests, q # r, NEW l, NEW j,
               Home!Begin(q, l, j) \/ Home!Continue(q, l, j) \/ Home!Finish(q) \/ Home!AtOnce(q)
        PROVE  FALSE
    BY <2>a DEF Home!Begin, Home!Continue, Home!Finish, Home!AtOnce, ListsThere, Slots
  <2>b. ASSUME NEW l, NEW j, Home!Begin(r, l, j) \/ Home!AtOnce(r) PROVE FALSE
    BY <2>b DEF Home!Begin, Home!AtOnce
  <2>1. ASSUME Home!InsertCopy(r) PROVE Home!HomePage' = Home!HomePage
    <3>1. PICK i : i = Home!Min(Home!FreeIds \cup {Home!Max(SectionIds) + 1})
      OBVIOUS
    <3>2. PICK row : row = [type |-> job[r].type, visible |-> FALSE]
      OBVIOUS
    <3>3. i \in SectionIds /\ sections' = Home!Put(sections, i, row) /\ listed' =
            Home!Put(listed, i, {})
      BY <2>1, <3>1, <3>2 DEF Home!InsertCopy, Home!InsertSection
    <3>4. i \in Home!FreeIds
      BY <3>1, <3>3, NewIdIsFree
    <3>5. i \notin DOMAIN sections /\ i \notin DOMAIN listed
      BY <3>4 DEF Home!FreeIds, ListsThere
    <3>6. /\ DOMAIN sections' = DOMAIN sections \cup {i} /\ sections'[i] = row
          /\ \A k \in DOMAIN sections : sections'[k] = sections[k] /\ listed'[k] = listed[k]
      BY <3>3, <3>5 DEF Home!Put, ListsThere
    <3>7. row.visible = FALSE
      BY <3>2
    <3>8. {k \in DOMAIN sections' : sections'[k].visible} = {k \in DOMAIN sections :
            sections[k].visible}
      BY <3>6, <3>7
    <3> QED
      BY <3>6, <3>8 DEF Home!HomePage
  <2>2. ASSUME Home!Abandon(r) PROVE Home!HomePage' = Home!HomePage
    BY <2>2 DEF Home!Abandon, Home!HomePage
  <2>3. ASSUME NEW q \in Requests,
               Home!CreateSection(q) \/ Home!InsertItems(q) \/ Home!DeleteItems(q)
                   \/ Home!InsertCopy(q) \/ Home!Abandon(q)
        PROVE  Home!HomePage' = Home!HomePage
    <3>1. CASE q = r
      <4>1. ~Home!InsertItems(r) /\ ~Home!DeleteItems(r)
        BY DEF Home!InsertItems, Home!DeleteItems
      <4>2. ~Home!CreateSection(r)
        BY <2>b DEF Home!CreateSection
      <4> QED
        BY <2>1, <2>2, <2>3, <3>1, <4>1, <4>2
    <3>2. CASE q # r
      <4>1. \E l, j : Home!Begin(q, l, j) \/ Home!Continue(q, l, j) \/ Home!Finish(q)
              \/ Home!AtOnce(q)
        <5>1. CASE Home!CreateSection(q)
          BY <5>1 DEF Home!CreateSection
        <5>2. CASE Home!InsertItems(q) \/ Home!Abandon(q)
          BY <5>2 DEF Home!InsertItems, Home!Abandon, Home!GiveUp
        <5>3. CASE Home!DeleteItems(q)
          BY <5>3 DEF Home!DeleteItems
        <5>4. CASE Home!InsertCopy(q)
          BY <5>4 DEF Home!InsertCopy
        <5> QED
          BY <2>3, <5>1, <5>2, <5>3, <5>4
      <4> QED
        BY <2>a, <3>2, <4>1
    <3> QED
      BY <3>1, <3>2
  <2>4. ASSUME NEW q \in Requests, NEW i \in DOMAIN sections,
               Home!UpdateSection(q, i) \/ Home!RemoveSection(q, i) \/ Home!CloneSection(q, i)
        PROVE  FALSE
    <3>1. \E l, j : Home!Begin(q, l, j) \/ Home!AtOnce(q)
      BY <2>4 DEF Home!UpdateSection, Home!RemoveSection, Home!CloneSection
    <3> QED
      BY <2>a, <2>b, <3>1
  <2>5. CASE UNCHANGED homeVars
    BY <2>5 DEF homeVars, Home!handling
  <2> QED
    BY <2>3, <2>4, <2>5 DEF Home!Next
<1> QED
  BY <1>1, ListsInit, ListsNext, PTL DEF HomeSpec

-----------------------------------------------------------------------------

\* What the handler of an edit relies on while it is the only one.
ItemsJobFits(l, j) ==
  /\ l \in {"idle", "insert items", "delete items", "insert copy"}
  /\ l \in {"insert items", "delete items"} =>
       j.section \in DOMAIN sections /\ enteredItems[j.section] = j.items
  /\ l = "insert items" => listed[j.section] = {}

ItemsJobs == \A r \in Requests : ItemsJobFits(pc[r], job[r])

Filling(i) == \E r \in Requests : pc[r] \in {"insert items", "delete items"} /\ job[r].section = i

\* A section whose items no handler is replacing lists what was entered, unless one
\* ended half way.
ListsAtRest ==
  /\ DOMAIN listed = DOMAIN sections /\ DOMAIN enteredItems = DOMAIN sections
  /\ \A i \in DOMAIN sections \ tornSections : Filling(i) \/ listed[i] = enteredItems[i]

HomeInv == Slots /\ ItemsJobs /\ ListsAtRest

LEMMA HomeInvInit == HomeStart => HomeInv
  BY DEF HomeStart, Home!SectionsInit, Quiet, HomeInv, Slots, ItemsJobs, ItemsJobFits, ListsAtRest

LEMMA HomeInvNext == OneAtATime /\ HomeInv /\ [Home!Next]_homeVars => HomeInv'
<1> SUFFICES ASSUME OneAtATime, HomeInv, [Home!Next]_homeVars PROVE HomeInv'
  OBVIOUS
<1> USE DEF HomeInv
\* The slot after a step that starts or continues a handler, or ends it.
<1>a. ASSUME NEW r \in Requests, NEW l, NEW j, Home!Begin(r, l, j) \/ Home!Continue(r, l, j),
             ItemsJobFits(l, j)'
      PROVE  /\ Slots' /\ ItemsJobs' /\ pc'[r] = l /\ job'[r] = j
             /\ \A q \in Requests : q = r
  <2>1. Slots' /\ pc'[r] = l /\ job'[r] = j /\ \A q \in Requests : q = r
    BY <1>a DEF Home!Begin, Home!Continue, Slots, OneAtATime
  <2> QED
    BY <1>a, <2>1 DEF ItemsJobs, ItemsJobFits
<1>b. ASSUME NEW r \in Requests, Home!Finish(r)
      PROVE  Slots' /\ pc'[r] = "idle" /\ ItemsJobs' /\ \A q \in Requests : q = r
  <2>1. Slots' /\ pc'[r] = "idle" /\ \A q \in Requests : q = r
    BY <1>b DEF Home!Finish, Slots, OneAtATime
  <2> QED
    BY <2>1 DEF ItemsJobs, ItemsJobFits
<1>c. ASSUME NEW r \in Requests, Home!AtOnce(r)
      PROVE  Slots' /\ ItemsJobs' /\ \A q \in Requests : q = r /\ pc[q] = "idle"
  <2>1. Slots' /\ UNCHANGED <<pc, job>> /\ pc[r] = "idle" /\ \A q \in Requests : q = r
    BY <1>c DEF Home!AtOnce, Slots, OneAtATime
  <2> QED
    BY <2>1 DEF ItemsJobs, ItemsJobFits
\* A section is put in, and filled unless there is nothing to fill it with.
<1>d. ASSUME NEW r \in Requests, \A q \in Requests : q = r,
             pc[r] \notin {"insert items", "delete items"},
             NEW i, NEW row, NEW set, Home!InsertSection(i, row, set),
             set = {} \/ Filling(i)'
      PROVE  /\ ListsAtRest' /\ i \in DOMAIN sections' /\ enteredItems'[i] = set
             /\ listed'[i] = {}
  <2>1. /\ DOMAIN sections' = DOMAIN sections \cup {i}
        /\ DOMAIN listed' = DOMAIN listed \cup {i} /\ listed'[i] = {}
        /\ DOMAIN enteredItems' = DOMAIN enteredItems \cup {i} /\ enteredItems'[i] = set
        /\ \A k \in DOMAIN sections \ {i} :
             listed'[k] = listed[k] /\ enteredItems'[k] = enteredItems[k]
        /\ UNCHANGED tornSections
    BY <1>d DEF Home!InsertSection, Home!Put, ListsAtRest
  <2>2. \A k : ~Filling(k)
    BY <1>d DEF Filling
  <2>3. \A k \in DOMAIN sections' \ tornSections' : Filling(k)' \/ listed'[k] = enteredItems'[k]
    BY <1>d, <2>1, <2>2 DEF ListsAtRest
  <2> QED
    BY <2>1, <2>3 DEF ListsAtRest
<1>1. ASSUME NEW r \in Requests, Home!CreateSection(r) PROVE HomeInv'
  <2>1. PICK i, row, set :
          /\ Home!InsertSection(i, row, set)
          /\ IF set = {} THEN Home!AtOnce(r)
             ELSE Home!Begin(r, "insert items", [section |-> i, items |-> set])
    BY <1>1 DEF Home!CreateSection
  <2>2. pc[r] = "idle" /\ \A q \in Requests : q = r
    BY <2>1 DEF Home!AtOnce, Home!Begin, OneAtATime
  <2>3. CASE set = {}
    BY <1>c, <1>d, <2>1, <2>2, <2>3
  <2>4. CASE set # {}
    <3>1. PICK j : j = [section |-> i, items |-> set]
      OBVIOUS
    <3>2. Home!Begin(r, "insert items", j) /\ j.section = i /\ j.items = set
      BY <2>1, <2>4, <3>1
    <3>3. pc'[r] = "insert items" /\ job'[r] = j
      BY <3>2 DEF Home!Begin, Slots
    <3>4. Filling(i)'
      BY <3>2, <3>3 DEF Filling
    <3>5. /\ ListsAtRest' /\ i \in DOMAIN sections' /\ enteredItems'[i] = set
          /\ listed'[i] = {}
      BY <1>d, <2>1, <2>2, <3>4
    <3>6. ItemsJobFits("insert items", j)'
      BY <3>2, <3>3, <3>5 DEF ItemsJobFits
    <3> QED
      BY <1>a, <3>2, <3>5, <3>6
  <2> QED
    BY <2>3, <2>4
<1>2. ASSUME NEW r \in Requests, Home!InsertCopy(r) PROVE HomeInv'
  <2>1. PICK i, row, set :
          /\ Home!InsertSection(i, row, set) /\ pc[r] = "insert copy"
          /\ IF set = {} THEN Home!Finish(r)
             ELSE Home!Continue(r, "insert items", [section |-> i, items |-> set])
    BY <1>2 DEF Home!InsertCopy
  <2>2. \A q \in Requests : q = r
    BY DEF OneAtATime
  <2>3. CASE set = {}
    BY <1>b, <1>d, <2>1, <2>2, <2>3
  <2>4. CASE set # {}
    <3>1. PICK j : j = [section |-> i, items |-> set]
      OBVIOUS
    <3>2. Home!Continue(r, "insert items", j) /\ j.section = i /\ j.items = set
      BY <2>1, <2>4, <3>1
    <3>3. pc'[r] = "insert items" /\ job'[r] = j
      BY <3>2 DEF Home!Continue, Slots
    <3>4. Filling(i)'
      BY <3>2, <3>3 DEF Filling
    <3>5. /\ ListsAtRest' /\ i \in DOMAIN sections' /\ enteredItems'[i] = set
          /\ listed'[i] = {}
      BY <1>d, <2>1, <2>2, <3>4
    <3>6. ItemsJobFits("insert items", j)'
      BY <3>2, <3>3, <3>5 DEF ItemsJobFits
    <3> QED
      BY <1>a, <3>2, <3>5, <3>6
  <2> QED
    BY <2>3, <2>4
<1>3. ASSUME NEW r \in Requests, Home!InsertItems(r) PROVE HomeInv'
  <2>1. PICK i : i = job[r].section
    OBVIOUS
  <2>2. /\ pc[r] = "insert items" /\ Home!Finish(r) /\ i \in DOMAIN sections
        /\ listed' = [listed EXCEPT ![i] = @ \cup job[r].items]
        /\ UNCHANGED <<sections, enteredItems, tornSections>>
    BY <1>3, <2>1 DEF Home!InsertItems
  <2>3. enteredItems[i] = job[r].items /\ listed[i] = {}
    BY <2>1, <2>2 DEF ItemsJobs, ItemsJobFits
  <2>4. /\ DOMAIN listed' = DOMAIN listed /\ listed'[i] = enteredItems[i]
        /\ \A k \in DOMAIN listed \ {i} : listed'[k] = listed[k]
    BY <2>2, <2>3 DEF ListsAtRest
  <2>5. \A k : Filling(k) => k = i
    BY <2>1 DEF Filling, OneAtATime
  <2>6. ListsAtRest'
    BY <2>2, <2>4, <2>5 DEF ListsAtRest
  <2> QED
    BY <1>b, <2>2, <2>6
<1>4. ASSUME NEW r \in Requests, NEW i \in DOMAIN sections, Home!UpdateSection(r, i)
      PROVE HomeInv'
  <2>1. PICK type \in {"manual", "computed", "left out"}, visible \in BOOLEAN,
             chosen \in {{}} \cup {{items} : items \in SUBSET ListedVariants} :
          /\ sections' = [sections EXCEPT ![i] =
               [type |-> IF type = "left out" THEN @.type ELSE type, visible |-> visible]]
          /\ LET next == Home!ItemsToBe(i, type, chosen) IN
             IF next = {} THEN Home!AtOnce(r)
             ELSE Home!Begin(r, "delete items", [section |-> i, items |-> UNION next])
          /\ enteredItems' = [enteredItems EXCEPT ![i] =
               IF type = "computed" THEN {} ELSE IF chosen = {} THEN @ ELSE UNION chosen]
          /\ UNCHANGED <<listed, tornSections>>
    BY <1>4, Zenon DEF Home!UpdateSection
  <2>2. PICK next : next = Home!ItemsToBe(i, type, chosen)
    OBVIOUS
  <2>3. /\ IF next = {} THEN Home!AtOnce(r)
           ELSE Home!Begin(r, "delete items", [section |-> i, items |-> UNION next])
        /\ next = IF type = "computed" THEN {{}} ELSE chosen
    BY <2>1, <2>2 DEF Home!ItemsToBe
  <2>4. pc[r] = "idle" /\ \A q \in Requests : q = r
    BY <2>3 DEF Home!AtOnce, Home!Begin, OneAtATime
  <2>5. DOMAIN sections' = DOMAIN sections /\ DOMAIN enteredItems' = DOMAIN enteredItems
    BY <2>1
  <2>6. /\ enteredItems'[i] = IF next = {} THEN enteredItems[i] ELSE UNION next
        /\ \A k \in DOMAIN enteredItems \ {i} : enteredItems'[k] = enteredItems[k]
    <3>1. UNION {{}} = {}
      OBVIOUS
    <3> QED
      BY <2>1, <2>3, <3>1 DEF ListsAtRest
  <2>7. \A k : ~Filling(k)
    BY <2>4 DEF Filling
  <2>8. CASE next = {}
    <3>1. ListsAtRest'
      BY <2>1, <2>5, <2>6, <2>7, <2>8 DEF ListsAtRest
    <3> QED
      BY <1>c, <2>3, <2>8, <3>1
  <2>9. CASE next # {}
    <3>1. PICK j : j = [section |-> i, items |-> UNION next]
      OBVIOUS
    <3>2. Home!Begin(r, "delete items", j) /\ j.section = i /\ j.items = UNION next
      BY <2>3, <2>9, <3>1
    <3>3. pc'[r] = "delete items" /\ job'[r] = j
      BY <3>2 DEF Home!Begin, Slots
    <3>4. Filling(i)'
      BY <3>2, <3>3 DEF Filling
    <3>5. ItemsJobFits("delete items", j)'
      BY <2>5, <2>6, <2>9, <3>2, <3>3 DEF ItemsJobFits
    <3>6. ListsAtRest'
      BY <2>1, <2>5, <2>6, <2>7, <3>4 DEF ListsAtRest
    <3> QED
      BY <1>a, <3>2, <3>5, <3>6
  <2> QED
    BY <2>8, <2>9
<1>5. ASSUME NEW r \in Requests, Home!DeleteItems(r) PROVE HomeInv'
  <2>1. PICK i : i = job[r].section
    OBVIOUS
  <2>2. PICK j : j = job[r]
    OBVIOUS
  <2>3. /\ pc[r] = "delete items"
        /\ listed' = [k \in DOMAIN listed |-> IF k = i THEN {} ELSE listed[k]]
        /\ IF j.items = {} THEN Home!Finish(r) ELSE Home!Continue(r, "insert items", j)
        /\ UNCHANGED <<sections, enteredItems, tornSections>>
    BY <1>5, <2>1, <2>2 DEF Home!DeleteItems
  <2>4. i \in DOMAIN sections /\ enteredItems[i] = j.items /\ j.section = i
    BY <2>1, <2>2, <2>3 DEF ItemsJobs, ItemsJobFits
  <2>5. /\ DOMAIN listed' = DOMAIN listed /\ listed'[i] = {}
        /\ \A k \in DOMAIN listed \ {i} : listed'[k] = listed[k]
    BY <2>3, <2>4 DEF ListsAtRest
  <2>6. \A k : Filling(k) => k = i
    BY <2>1 DEF Filling, OneAtATime
  <2>7. CASE j.items = {}
    <3>1. ListsAtRest'
      BY <2>3, <2>4, <2>5, <2>6, <2>7 DEF ListsAtRest
    <3> QED
      BY <1>b, <2>3, <2>7, <3>1
  <2>8. CASE j.items # {}
    <3>1. Home!Continue(r, "insert items", j)
      BY <2>3, <2>8
    <3>2. pc'[r] = "insert items" /\ job'[r] = j
      BY <3>1 DEF Home!Continue, Slots
    <3>3. Filling(i)'
      BY <2>4, <3>2 DEF Filling
    <3>4. ItemsJobFits("insert items", j)'
      BY <2>3, <2>4, <2>5, <3>2 DEF ItemsJobFits
    <3>5. ListsAtRest'
      BY <2>3, <2>5, <2>6, <3>3 DEF ListsAtRest
    <3> QED
      BY <1>a, <3>1, <3>4, <3>5
  <2> QED
    BY <2>7, <2>8
<1>6. ASSUME NEW r \in Requests, NEW i \in DOMAIN sections, Home!RemoveSection(r, i)
      PROVE HomeInv'
  <2>1. /\ Home!AtOnce(r) /\ sections' = Home!Drop(sections, i) /\ listed' = Home!Drop(listed, i)
        /\ enteredItems' = Home!Drop(enteredItems, i) /\ tornSections' = tornSections \ {i}
    BY <1>6 DEF Home!RemoveSection
  <2>2. \A k : ~Filling(k)
    BY <1>c, <2>1 DEF Filling
  <2>3. ListsAtRest'
    BY <2>1, <2>2 DEF ListsAtRest, Home!Drop
  <2> QED
    BY <1>c, <2>1, <2>3
<1>7. ASSUME NEW r \in Requests, NEW i \in DOMAIN sections, Home!CloneSection(r, i) PROVE HomeInv'
  <2>1. PICK j : Home!Begin(r, "insert copy", j)
    BY <1>7 DEF Home!CloneSection
  <2>2. UNCHANGED <<sections, listed, enteredItems, tornSections>>
    BY <1>7 DEF Home!CloneSection, Home!sectionVars
  <2>3. ItemsJobFits("insert copy", j)'
    BY DEF ItemsJobFits
  <2>4. \A k : ~Filling(k)
    BY <2>1 DEF Home!Begin, Filling, OneAtATime
  <2>5. ListsAtRest'
    BY <2>2, <2>4 DEF ListsAtRest
  <2> QED
    BY <1>a, <2>1, <2>3, <2>5
<1>8. ASSUME NEW r \in Requests, Home!Abandon(r) PROVE HomeInv'
  <2>1. /\ Home!Finish(r) /\ pc[r] # "idle" /\ UNCHANGED <<sections, listed, enteredItems>>
        /\ tornSections' = IF pc[r] = "insert copy" THEN tornSections
                           ELSE tornSections \cup {job[r].section}
    BY <1>8 DEF Home!Abandon, Home!GiveUp
  <2>2. \A k : Filling(k) => k \in tornSections'
    BY <2>1 DEF Filling, OneAtATime
  <2>3. ListsAtRest'
    BY <2>1, <2>2 DEF ListsAtRest
  <2> QED
    BY <1>b, <2>1, <2>3
<1>9. CASE UNCHANGED homeVars
  <2>1. UNCHANGED <<sections, listed, enteredItems, tornSections, pc, job>>
    BY <1>9 DEF homeVars, Home!sectionVars, Home!handling
  <2> QED
    BY <2>1 DEF Slots, ItemsJobs, ItemsJobFits, ListsAtRest, Filling
<1> QED
  BY <1>1, <1>2, <1>3, <1>4, <1>5, <1>6, <1>7, <1>8, <1>9 DEF Home!Next

\* While handlers do not overlap, a section lists what was entered for it or copied, unless
\* a handler ended half way.
THEOREM SectionsListItems == ASSUME OneAtATime PROVE HomeSpec => []Home!ItemsAsEntered
<1>1. HomeInv => Home!ItemsAsEntered
  BY DEF HomeInv, ListsAtRest, Filling, Home!ItemsAsEntered
<1> QED
  BY <1>1, HomeInvInit, HomeInvNext, PTL DEF HomeSpec

-----------------------------------------------------------------------------
(* Menus: how many items a column of the footer has *)

LEMMA ItemsCounted == \A S : Menu!Cardinality(S) = Cardinality(S)
  BY DEF Menu!Cardinality, Cardinality

MenuStart == Menu!MenusInit /\ Quiet

menuingVars == <<Menu!menuVars, Menu!handling>>

MenuSpec == MenuStart /\ [][Menu!Next]_menuingVars

AnItem(x) == x = [menu |-> x.menu, parent |-> x.parent, visible |-> x.visible]

\* Finitely many items, and in each column of the footer as many as fit.
ItemTable ==
  /\ menuItems = [i \in DOMAIN menuItems |-> menuItems[i]] /\ IsFiniteSet(DOMAIN menuItems)
  /\ \A i \in DOMAIN menuItems : AnItem(menuItems[i])

ColumnsFit == \A m \in FooterMenus : Cardinality(Menu!OfMenu(m)) <= ItemLimit

ItemJobFits(l, j) ==
  /\ l \in {"idle", "insert"}
  /\ l = "insert" =>
       AnItem(j) /\ (j.menu \in FooterMenus => Cardinality(Menu!OfMenu(j.menu)) < ItemLimit)

ItemJobs == \A r \in Requests : ItemJobFits(pc[r], job[r])

MenusInv == Slots /\ ItemTable /\ ColumnsFit /\ ItemJobs

LEMMA MenusStart == ASSUME ItemLimit \in Nat PROVE MenuStart => MenusInv
<1> SUFFICES ASSUME MenuStart PROVE MenusInv
  OBVIOUS
<1>1. Slots /\ ItemJobs
  BY DEF MenuStart, Quiet, Slots, ItemJobs, ItemJobFits
<1>2. DOMAIN menuItems = {} /\ menuItems = <<>>
  BY DEF MenuStart, Menu!MenusInit
<1>3. \A m : Menu!OfMenu(m) = {}
  BY <1>2 DEF Menu!OfMenu
<1>4. IsFiniteSet({}) /\ Cardinality({}) <= ItemLimit
  BY FS_EmptySet
<1>5. ItemTable
  BY <1>2, <1>4 DEF ItemTable
<1> QED
  BY <1>1, <1>3, <1>4, <1>5 DEF MenusInv, ColumnsFit

LEMMA MenusNext ==
  ASSUME OneAtATime, ItemLimit \in Nat
  PROVE  MenusInv /\ [Menu!Next]_menuingVars => MenusInv'
<1> SUFFICES ASSUME MenusInv, [Menu!Next]_menuingVars PROVE MenusInv'
  OBVIOUS
<1> USE DEF MenusInv
<1>a. ASSUME NEW r \in Requests, NEW j, Menu!Begin(r, "insert", j), ItemJobFits("insert", j)'
      PROVE  Slots' /\ ItemJobs'
  BY <1>a DEF Slots, ItemJobs, Menu!Begin, OneAtATime
<1>b. ASSUME NEW r \in Requests, Menu!Finish(r)
      PROVE  Slots' /\ ItemJobs'
  BY <1>b DEF Slots, ItemJobs, ItemJobFits, Menu!Finish, OneAtATime
<1>c. ASSUME NEW r \in Requests, Menu!AtOnce(r)
      PROVE  Slots' /\ ItemJobs'
  BY <1>c DEF Slots, ItemJobs, ItemJobFits, Menu!AtOnce, OneAtATime
<1>d. \A m : IsFiniteSet(Menu!OfMenu(m)) /\ Cardinality(Menu!OfMenu(m)) \in Nat
  BY FS_Subset, FS_CardinalityType DEF Menu!OfMenu, ItemTable
<1>e. ASSUME DOMAIN menuItems' \subseteq DOMAIN menuItems,
             \A i \in DOMAIN menuItems' : menuItems'[i].menu = menuItems[i].menu
      PROVE  ColumnsFit' /\ IsFiniteSet(DOMAIN menuItems')
  <2>1. IsFiniteSet(DOMAIN menuItems')
    BY <1>e, FS_Subset DEF ItemTable
  <2>2. ASSUME NEW m \in FooterMenus PROVE Cardinality(Menu!OfMenu(m)') <= ItemLimit
    <3>1. Menu!OfMenu(m)' \subseteq Menu!OfMenu(m)
      BY <1>e DEF Menu!OfMenu
    <3>2. IsFiniteSet(Menu!OfMenu(m)') /\ Cardinality(Menu!OfMenu(m)') <=
            Cardinality(Menu!OfMenu(m))
      BY <3>1, <1>d, FS_Subset
    <3>3. Cardinality(Menu!OfMenu(m)') \in Nat /\ Cardinality(Menu!OfMenu(m)) <= ItemLimit
      BY <3>2, FS_CardinalityType DEF ColumnsFit
    <3> QED
      BY <3>2, <3>3, <1>d
  <2> QED
    BY <2>1, <2>2 DEF ColumnsFit
<1>1. ASSUME NEW r \in Requests, Menu!AddItem(r) PROVE MenusInv'
  <2>1. PICK row \in Menu!MenuItem :
          /\ row.menu \in FooterMenus => Menu!Cardinality(Menu!OfMenu(row.menu)) < ItemLimit
          /\ Menu!Begin(r, "insert", row) /\ UNCHANGED Menu!menuVars
    BY <1>1 DEF Menu!AddItem, Menu!Cardinality
  <2>2. UNCHANGED menuItems /\ AnItem(row)
    BY <2>1 DEF Menu!menuVars, Menu!MenuItem, AnItem
  <2>3. ItemTable' /\ ColumnsFit' /\ \A m : Menu!OfMenu(m)' = Menu!OfMenu(m)
    BY <2>2 DEF ItemTable, ColumnsFit, Menu!OfMenu
  <2>4. row.menu \in FooterMenus => Cardinality(Menu!OfMenu(row.menu)) < ItemLimit
    BY <2>1, ItemsCounted
  <2>5. ItemJobFits("insert", row)'
    BY <2>2, <2>3, <2>4 DEF ItemJobFits, AnItem
  <2> QED
    BY <2>1, <2>3, <2>5, <1>a
<1>2. ASSUME NEW r \in Requests, Menu!InsertItem(r) PROVE MenusInv'
  <2>1. PICK i :
          /\ pc[r] = "insert" /\ Menu!Finish(r)
          /\ menuItems' = [k \in DOMAIN menuItems \cup {i} |-> IF k =
                 i THEN job[r] ELSE menuItems[k]]
    BY <1>2 DEF Menu!InsertItem
  <2>2. PICK row : row = job[r]
    OBVIOUS
  <2>3. AnItem(row) /\ (row.menu \in FooterMenus =>
          Cardinality(Menu!OfMenu(row.menu)) < ItemLimit)
    BY <2>1, <2>2 DEF ItemJobs, ItemJobFits
  <2>4. /\ DOMAIN menuItems' = DOMAIN menuItems \cup {i} /\ menuItems'[i] = row
        /\ menuItems' = [k \in DOMAIN menuItems' |-> menuItems'[k]]
        /\ \A k \in DOMAIN menuItems : k # i => menuItems'[k] = menuItems[k]
    BY <2>1, <2>2
  <2>5. IsFiniteSet(DOMAIN menuItems')
    BY <2>4, FS_AddElement DEF ItemTable
  <2>6. ItemTable'
    BY <2>3, <2>4, <2>5 DEF ItemTable, AnItem
  <2>7. ASSUME NEW m \in FooterMenus PROVE Cardinality(Menu!OfMenu(m)') <= ItemLimit
    <3>1. Menu!OfMenu(m)' \subseteq IF row.menu = m THEN Menu!OfMenu(m) \cup
            {i} ELSE Menu!OfMenu(m)
      BY <2>4 DEF Menu!OfMenu
    <3>2. CASE row.menu = m
      <4>1. Cardinality(Menu!OfMenu(m)) < ItemLimit
        BY <2>3, <3>2
      <4>2. /\ IsFiniteSet(Menu!OfMenu(m) \cup {i})
            /\ Cardinality(Menu!OfMenu(m) \cup {i}) \in Nat
            /\ Cardinality(Menu!OfMenu(m) \cup {i}) <= Cardinality(Menu!OfMenu(m)) + 1
        <5>1. CASE i \in Menu!OfMenu(m)
          <6>1. Menu!OfMenu(m) \cup {i} = Menu!OfMenu(m)
            BY <5>1
          <6>2. PICK n \in Nat : n = Cardinality(Menu!OfMenu(m))
            BY <1>d
          <6>3. IsFiniteSet(Menu!OfMenu(m) \cup {i}) /\ Cardinality(Menu!OfMenu(m) \cup {i}) = n
            BY <6>1, <6>2, <1>d
          <6> QED
            BY <6>2, <6>3
        <5>2. CASE i \notin Menu!OfMenu(m)
          BY <5>2, <1>d, FS_AddElement
        <5> QED
          BY <5>1, <5>2
      <4>3. IsFiniteSet(Menu!OfMenu(m)') /\ Cardinality(Menu!OfMenu(m)') <=
              Cardinality(Menu!OfMenu(m) \cup {i})
        BY <3>1, <3>2, <4>2, FS_Subset
      <4>4. Cardinality(Menu!OfMenu(m)') \in Nat
        BY <4>3, FS_CardinalityType
      <4> QED
        BY <4>1, <4>2, <4>3, <4>4, <1>d
    <3>3. CASE row.menu # m
      <4>1. IsFiniteSet(Menu!OfMenu(m)') /\ Cardinality(Menu!OfMenu(m)') <=
              Cardinality(Menu!OfMenu(m))
        BY <3>1, <3>3, <1>d, FS_Subset
      <4>2. Cardinality(Menu!OfMenu(m)') \in Nat /\ Cardinality(Menu!OfMenu(m)) <= ItemLimit
        BY <4>1, FS_CardinalityType DEF ColumnsFit
      <4> QED
        BY <4>1, <4>2, <1>d
    <3> QED
      BY <3>2, <3>3
  <2> QED
    BY <2>1, <2>6, <2>7, <1>b DEF ColumnsFit
<1>3. ASSUME NEW r \in Requests, NEW i \in DOMAIN menuItems, Menu!UpdateItem(r, i) PROVE MenusInv'
  <2>1. PICK parent \in DOMAIN menuItems \cup {0}, visible \in BOOLEAN :
          /\ Menu!AtOnce(r)
          /\ menuItems' =
               [menuItems EXCEPT ![i] = [menuItems[i] EXCEPT !.parent = parent, !.visible =
                   visible]]
    BY <1>3 DEF Menu!UpdateItem
  <2>2. PICK x : x = menuItems[i]
    OBVIOUS
  <2>3. PICK y : y = [x EXCEPT !.parent = parent, !.visible = visible]
    OBVIOUS
  <2>4. AnItem(x)
    BY <2>2 DEF ItemTable
  <2>5. y.menu = x.menu /\ AnItem(y)
    BY <2>3, <2>4 DEF AnItem
  <2>6. menuItems' = [menuItems EXCEPT ![i] = y]
    BY <2>1, <2>2, <2>3
  <2>7. /\ DOMAIN menuItems' = DOMAIN menuItems /\ menuItems'[i] = y
        /\ menuItems' = [k \in DOMAIN menuItems' |-> menuItems'[k]]
        /\ \A k \in DOMAIN menuItems : k # i => menuItems'[k] = menuItems[k]
    BY <2>6
  <2>8. ColumnsFit' /\ IsFiniteSet(DOMAIN menuItems')
    BY <2>2, <2>5, <2>7, <1>e
  <2>9. ItemTable'
    BY <2>5, <2>7, <2>8 DEF ItemTable, AnItem
  <2> QED
    BY <2>1, <2>8, <2>9, <1>c
<1>4. ASSUME NEW r \in Requests, NEW i \in DOMAIN menuItems, Menu!RemoveItem(r, i) PROVE MenusInv'
  <2>1. Menu!AtOnce(r) /\ menuItems' = [k \in DOMAIN menuItems \ {i} |-> menuItems[k]]
    BY <1>4 DEF Menu!RemoveItem
  <2>2. ColumnsFit' /\ IsFiniteSet(DOMAIN menuItems')
    BY <2>1, <1>e
  <2>3. ItemTable'
    BY <2>1, <2>2 DEF ItemTable, AnItem
  <2> QED
    BY <2>1, <2>2, <2>3, <1>c
<1>5. ASSUME NEW r \in Requests, Menu!Abandon(r) PROVE MenusInv'
  <2>1. Menu!Finish(r) /\ UNCHANGED menuItems
    BY <1>5 DEF Menu!Abandon, Menu!GiveUp, Menu!menuVars
  <2>2. ItemTable' /\ ColumnsFit'
    BY <2>1 DEF ItemTable, ColumnsFit, Menu!OfMenu, AnItem
  <2> QED
    BY <2>1, <2>2, <1>b
<1>6. CASE UNCHANGED menuingVars
  <2>1. UNCHANGED <<pc, job, menuItems>>
    BY <1>6 DEF menuingVars, Menu!menuVars, Menu!handling
  <2>2. ItemTable' /\ ColumnsFit' /\ \A m : Menu!OfMenu(m)' = Menu!OfMenu(m)
    BY <2>1 DEF ItemTable, ColumnsFit, Menu!OfMenu, AnItem
  <2>3. ASSUME NEW r \in Requests PROVE ItemJobFits(pc[r], job[r])'
    <3>1. ItemJobFits(pc[r], job[r])
      BY DEF ItemJobs
    <3> QED
      BY <2>1, <2>2, <3>1 DEF ItemJobFits, AnItem
  <2> QED
    BY <2>1, <2>2, <2>3 DEF Slots, ItemJobs
<1> QED
  BY <1>1, <1>2, <1>3, <1>4, <1>5, <1>6 DEF Menu!Next

\* While handlers do not overlap, no column of the footer has more items than the limit: the
\* count of addItem is still right at the INSERT, and an edit leaves an item in its menu.
THEOREM FooterKeepsToLimit ==
  ASSUME OneAtATime, ItemLimit \in Nat
  PROVE  MenuSpec => []Menu!FooterFits
<1>1. MenusInv => Menu!FooterFits
  BY ItemsCounted DEF MenusInv, ColumnsFit, Menu!FooterFits, Menu!Cardinality
<1> QED
  BY <1>1, MenusStart, MenusNext, PTL DEF MenuSpec

-----------------------------------------------------------------------------
(* Popups and bars: two that are shown at one place do not meet *)

NoticeStart == Popups!NoticesInit /\ Quiet

noticingVars == <<Popups!noticeVars, Popups!handling>>

NoticeSpec == NoticeStart /\ [][Popups!Next]_noticingVars

\* Two notices that may both be there: at most one is active at a place, and the windows
\* with both ends that are scheduled there do not meet.
GoTogether(a, b) ==
  a.place = b.place =>
    /\ ~(a.status = "active" /\ b.status = "active")
    /\ a.status = "scheduled" /\ b.status = "scheduled" /\ Popups!Whole(b.window)
         => ~Popups!Overlap(a.window, b.window)

\* What the checks of a request establish of the notice n, whose row is i.
Checked(n, i) == \A k \in DOMAIN notices \ {i} : GoTogether(notices[k], n)

NoticeTable ==
  /\ notices = [i \in DOMAIN notices |-> notices[i]] /\ 0 \notin DOMAIN notices
  /\ \A i \in DOMAIN notices : notices[i] \in Popups!Notice

\* Notices whose status was stated last go together.
StatedGoTogether ==
  \A i, k \in DOMAIN notices \ unstated : i # k => GoTogether(notices[i], notices[k])

NoticeJobFits(l, j) ==
  /\ l \in {"idle", "insert", "update"}
  /\ l = "insert" => j \in Popups!Notice /\ Checked(j, 0)
  /\ l = "update" =>
       /\ j.id \in DOMAIN notices /\ j.row \in Popups!Notice /\ j.stated \in BOOLEAN
       /\ j.given = {f \in {"place", "window"} : j.row[f] # notices[j.id][f]}
       /\ IF j.stated THEN Checked(j.row, j.id) ELSE j.row.status = notices[j.id].status

NoticeJobs == \A r \in Requests : NoticeJobFits(pc[r], job[r])

NoticesInv == Slots /\ NoticeTable /\ StatedGoTogether /\ NoticeJobs

\* The checks of a request, in these terms: a window with both its ends is asked about as it
\* will be.
LEMMA PassesIsChecked ==
  ASSUME NEW n, NEW i, NEW start, NEW end, Popups!Passes(n, i, <<start, end>>),
         NoticeWindows \subseteq Nat \X Nat, n \in Popups!Notice,
         Popups!Whole(n.window) => start = n.window[1] /\ end = n.window[2]
  PROVE  Checked(n, i)
<1>1. ASSUME NEW k \in DOMAIN notices \ {i}, notices[k].place = n.place,
             notices[k].status = "scheduled", n.status = "scheduled", Popups!Whole(n.window)
      PROVE  ~Popups!Overlap(notices[k].window, n.window)
  <2>1. ~Popups!Overlap(notices[k].window, <<start, end>>)
    BY <1>1 DEF Popups!Passes, Popups!NoScheduleOverlap, Popups!OthersAt
  <2>2. n.window \in Nat \X Nat /\ start \in Nat /\ end \in Nat
    BY <1>1 DEF Popups!Notice
  <2> QED
    BY <1>1, <2>1, <2>2 DEF Popups!Overlap, Popups!Undefined
<1>2. ASSUME NEW k \in DOMAIN notices \ {i}, notices[k].place = n.place
      PROVE  ~(notices[k].status = "active" /\ n.status = "active")
  BY <1>2 DEF Popups!Passes, Popups!NoActiveConflict, Popups!OthersAt
<1> QED
  BY <1>1, <1>2 DEF Checked, GoTogether

\* Which of two windows comes first does not matter.
LEMMA GoTogetherSymmetric ==
  ASSUME NoticeWindows \subseteq Nat \X Nat, NEW a \in Popups!Notice, NEW b \in Popups!Notice,
         GoTogether(a, b)
  PROVE  GoTogether(b, a)
<1> SUFFICES ASSUME a.place = b.place PROVE GoTogether(b, a)
  BY DEF GoTogether
<1>1. ~(b.status = "active" /\ a.status = "active")
  BY DEF GoTogether
<1>2. ASSUME a.status = "scheduled", b.status = "scheduled", Popups!Whole(a.window)
      PROVE ~Popups!Overlap(b.window, a.window)
  <2>1. a.window \in Nat \X Nat /\ b.window \in Nat \X Nat
    BY DEF Popups!Notice
  <2>2. Popups!Whole(b.window) => ~Popups!Overlap(a.window, b.window)
    BY <1>2 DEF GoTogether
  <2> QED
    BY <1>2, <2>1, <2>2 DEF Popups!Overlap, Popups!Undefined
<1> QED
  BY <1>1, <1>2 DEF GoTogether

LEMMA NoticesStart == ASSUME 0 \notin NoticeIds PROVE NoticeStart => NoticesInv
<1> SUFFICES ASSUME NoticeStart PROVE NoticesInv
  OBVIOUS
<1>1. Slots /\ NoticeJobs
  BY DEF NoticeStart, Quiet, Slots, NoticeJobs, NoticeJobFits
<1>2. DOMAIN notices = {} /\ notices = <<>>
  BY DEF NoticeStart, Popups!NoticesInit
<1> QED
  BY <1>1, <1>2 DEF NoticesInv, NoticeTable, StatedGoTogether

LEMMA NoticesNext ==
  ASSUME OneAtATime, 0 \notin NoticeIds, NoticeWindows \subseteq Nat \X Nat
  PROVE  NoticesInv /\ [Popups!Next]_noticingVars => NoticesInv'
<1> SUFFICES ASSUME NoticesInv, [Popups!Next]_noticingVars PROVE NoticesInv'
  OBVIOUS
<1> USE DEF NoticesInv
<1>a. ASSUME NEW r \in Requests, NEW l, NEW j, Popups!Begin(r, l, j), NoticeJobFits(l, j)'
      PROVE  Slots' /\ NoticeJobs'
  BY <1>a DEF Slots, NoticeJobs, Popups!Begin, OneAtATime
<1>b. ASSUME NEW r \in Requests, Popups!Finish(r)
      PROVE  Slots' /\ NoticeJobs'
  BY <1>b DEF Slots, NoticeJobs, NoticeJobFits, Popups!Finish, OneAtATime
<1>c. ASSUME NEW r \in Requests, Popups!AtOnce(r)
      PROVE  Slots' /\ NoticeJobs'
  BY <1>c DEF Slots, NoticeJobs, NoticeJobFits, Popups!AtOnce, OneAtATime
<1>d. ASSUME UNCHANGED Popups!noticeVars
      PROVE  NoticeTable' /\ StatedGoTogether' /\ \A n, i : Checked(n, i)' = Checked(n, i)
  BY <1>d DEF Popups!noticeVars, NoticeTable, StatedGoTogether, Checked
<1>e. ASSUME NEW i, NEW n \in Popups!Notice, Checked(n, i), i # 0,
             DOMAIN notices' = DOMAIN notices \cup {i}, notices'[i] = n,
             notices' = [k \in DOMAIN notices' |-> notices'[k]],
             \A k \in DOMAIN notices \ {i} : notices'[k] = notices[k],
             unstated \subseteq unstated' \cup {i}
      PROVE  NoticeTable' /\ StatedGoTogether'
  <2>1. NoticeTable'
    BY <1>e DEF NoticeTable
  <2>2. ASSUME NEW h \in DOMAIN notices' \ unstated', NEW k \in DOMAIN notices' \ unstated', h # k
        PROVE  GoTogether(notices'[h], notices'[k])
    <3>1. CASE h # i /\ k # i
      <4>1. /\ h \in DOMAIN notices \ unstated /\ k \in DOMAIN notices \ unstated
            /\ notices'[h] = notices[h] /\ notices'[k] = notices[k]
        BY <1>e, <2>2, <3>1
      <4> QED
        BY <2>2, <4>1 DEF StatedGoTogether
    <3>2. CASE k = i
      <4>1. h \in DOMAIN notices \ {i} /\ notices'[h] = notices[h]
        BY <1>e, <2>2, <3>2
      <4> QED
        BY <1>e, <3>2, <4>1 DEF Checked
    <3>3. CASE h = i
      <4>1. /\ k \in DOMAIN notices \ {i} /\ notices'[k] = notices[k]
            /\ notices[k] \in Popups!Notice
        BY <1>e, <2>2, <3>3 DEF NoticeTable
      <4>2. GoTogether(notices[k], n)
        BY <1>e, <4>1 DEF Checked
      <4> QED
        BY <1>e, <3>3, <4>1, <4>2, GoTogetherSymmetric
    <3> QED
      BY <3>1, <3>2, <3>3
  <2> QED
    BY <2>1, <2>2 DEF StatedGoTogether
<1>1. ASSUME NEW r \in Requests, Popups!CreateNotice(r) PROVE NoticesInv'
  <2>1. PICK n \in Popups!Notice :
          /\ \E start \in Popups!AsGiven(n.window[1]), end \in Popups!AsGiven(n.window[2]) :
               Popups!Passes(n, 0, <<start, end>>)
          /\ Popups!Begin(r, "insert", n) /\ UNCHANGED Popups!noticeVars
    BY <1>1 DEF Popups!CreateNotice
  <2>2. Checked(n, 0)
    <3>1. PICK start \in Popups!AsGiven(n.window[1]), end \in Popups!AsGiven(n.window[2]) :
            Popups!Passes(n, 0, <<start, end>>)
      BY <2>1
    <3>2. Popups!Whole(n.window) => start = n.window[1] /\ end = n.window[2]
      BY <3>1 DEF Popups!Whole, Popups!AsGiven
    <3> QED
      BY <3>1, <3>2, PassesIsChecked
  <2>3. NoticeJobFits("insert", n)'
    BY <2>1, <2>2, <1>d DEF NoticeJobFits
  <2> QED
    BY <2>1, <2>3, <1>a, <1>d
<1>2. ASSUME NEW r \in Requests, Popups!InsertNotice(r) PROVE NoticesInv'
  <2>1. PICK i :
          /\ pc[r] = "insert" /\ i \in NoticeIds /\ Popups!Finish(r) /\ UNCHANGED unstated
          /\ notices' = [k \in DOMAIN notices \cup {i} |-> IF k = i THEN job[r] ELSE notices[k]]
    BY <1>2 DEF Popups!InsertNotice
  <2>2. PICK n : n = job[r]
    OBVIOUS
  <2>3. n \in Popups!Notice /\ Checked(n, 0)
    BY <2>1, <2>2 DEF NoticeJobs, NoticeJobFits
  <2>4. /\ DOMAIN notices' = DOMAIN notices \cup {i} /\ notices'[i] = n
        /\ notices' = [k \in DOMAIN notices' |-> notices'[k]]
        /\ \A k \in DOMAIN notices \ {i} : notices'[k] = notices[k]
    BY <2>1, <2>2
  <2>5. Checked(n, i)
    BY <2>3 DEF Checked, NoticeTable
  <2> QED
    BY <2>1, <2>3, <2>4, <2>5, <1>b, <1>e
<1>3. ASSUME NEW r \in Requests, NEW i \in DOMAIN notices, Popups!UpdateNotice(r, i)
      PROVE NoticesInv'
  <2>1. PICK n \in Popups!Notice, stated \in BOOLEAN :
          /\ IF stated
             THEN Popups!Passes(n, i, <<Popups!OrExisting(n.window[1], notices[i].window[1]),
                                        Popups!OrExisting(n.window[2], notices[i].window[2])>>)
             ELSE n.status = notices[i].status
          /\ Popups!Begin(r, "update", [id |-> i, stated |-> stated, row |-> n,
                                 given |-> {f \in {"place", "window"} : n[f] # notices[i][f]}])
          /\ UNCHANGED Popups!noticeVars
    BY <1>3 DEF Popups!UpdateNotice
  <2>2. PICK j : j = [id |-> i, stated |-> stated, row |-> n,
                      given |-> {f \in {"place", "window"} : n[f] # notices[i][f]}]
    OBVIOUS
  <2>3. /\ j.id = i /\ j.row = n /\ j.stated = stated
        /\ j.given = {f \in {"place", "window"} : n[f] # notices[i][f]}
    BY <2>2
  <2>4. ASSUME stated PROVE Checked(n, i)
    <3>1. PICK start, end : /\ start = Popups!OrExisting(n.window[1], notices[i].window[1])
                            /\ end = Popups!OrExisting(n.window[2], notices[i].window[2])
      OBVIOUS
    <3>2. Popups!Passes(n, i, <<start, end>>)
      BY <2>1, <2>4, <3>1
    <3>3. Popups!Whole(n.window) => start = n.window[1] /\ end = n.window[2]
      BY <3>1 DEF Popups!Whole, Popups!OrExisting
    <3> QED
      BY <3>2, <3>3, PassesIsChecked
  <2>5. NoticeJobFits("update", j)'
    <3>1. UNCHANGED notices
      BY <2>1 DEF Popups!noticeVars
    <3>2. IF stated THEN Checked(n, i)' ELSE n.status = notices'[i].status
      BY <2>1, <2>4, <3>1, <1>d
    <3> QED
      BY <2>3, <3>1, <3>2 DEF NoticeJobFits
  <2> QED
    BY <2>1, <2>2, <2>5, <1>a, <1>d
<1>4. ASSUME NEW r \in Requests, Popups!SaveNotice(r) PROVE NoticesInv'
  <2>1. PICK i : i = job[r].id
    OBVIOUS
  <2>2. PICK n : n = job[r].row
    OBVIOUS
  <2>3. PICK put : put = job[r].given \cup IF job[r].stated THEN {"status"} ELSE {}
    OBVIOUS
  <2>4. PICK y : y = [f \in DOMAIN notices[i] |-> IF f \in put THEN n[f] ELSE notices[i][f]]
    OBVIOUS
  <2>5. /\ pc[r] = "update" /\ Popups!Finish(r)
        /\ notices' = [k \in DOMAIN notices |-> IF k = i THEN y ELSE notices[k]]
        /\ unstated' = IF i \notin DOMAIN notices \/ put = {} THEN unstated
                       ELSE IF job[r].stated THEN unstated \ {i} ELSE unstated \cup {i}
    BY <1>4, <2>1, <2>2, <2>3, <2>4 DEF Popups!SaveNotice
  <2>6. NoticeJobFits("update", job[r])
    BY <2>5 DEF NoticeJobs
  <2>7. /\ i \in DOMAIN notices /\ n \in Popups!Notice /\ job[r].stated \in BOOLEAN
        /\ job[r].given = {f \in {"place", "window"} : n[f] # notices[i][f]}
        /\ IF job[r].stated THEN Checked(n, i) ELSE n.status = notices[i].status
    BY <2>1, <2>2, <2>6 DEF NoticeJobFits
  <2>8. PICK old : old = notices[i]
    OBVIOUS
  <2>9. old \in Popups!Notice /\ i # 0
    BY <2>7, <2>8 DEF NoticeTable
  <2>10. y = n
    <3>1. /\ n = [f \in {"place", "status", "window"} |-> n[f]]
          /\ DOMAIN old = {"place", "status", "window"}
      BY <2>7, <2>9 DEF Popups!Notice
    <3>2. y = [f \in {"place", "status", "window"} |-> IF f \in put THEN n[f] ELSE old[f]]
      BY <2>4, <2>8, <3>1
    <3>3. \A f \in {"place", "window"} : f \notin put => n[f] = old[f]
      BY <2>3, <2>7, <2>8
    <3>4. "status" \notin put => n["status"] = old["status"]
      BY <2>3, <2>7, <2>8
    <3>5. \A f \in {"place", "status", "window"} : (IF f \in put THEN n[f] ELSE old[f]) = n[f]
      BY <3>3, <3>4
    <3> HIDE <2>4
    <3> QED
      BY <3>1, <3>2, <3>5
  <2>11. /\ DOMAIN notices' = DOMAIN notices \cup {i} /\ notices'[i] = n
         /\ notices' = [k \in DOMAIN notices' |-> notices'[k]]
         /\ \A k \in DOMAIN notices \ {i} : notices'[k] = notices[k]
    <3>1. notices' = [k \in DOMAIN notices |-> IF k = i THEN n ELSE notices[k]]
      BY <2>5, <2>10
    <3>2. i \in DOMAIN notices
      BY <2>7
    <3> HIDE <2>4, <2>5, <2>7, <2>10
    <3> QED
      BY <3>1, <3>2
  <2>12. CASE job[r].stated
    <3>1. unstated \subseteq unstated' \cup {i}
      BY <2>3, <2>5, <2>12
    <3> QED
      BY <2>5, <2>7, <2>9, <2>11, <2>12, <3>1, <1>b, <1>e
  <2>13. CASE ~job[r].stated /\ put # {}
    <3>1. unstated' = unstated \cup {i}
      BY <2>5, <2>7, <2>13
    <3>2. NoticeTable'
      BY <2>7, <2>11 DEF NoticeTable
    <3>3. \A k \in DOMAIN notices' \ unstated' :
            k \in DOMAIN notices \ unstated /\ notices'[k] = notices[k]
      BY <2>7, <2>11, <3>1
    <3>4. StatedGoTogether'
      BY <3>3 DEF StatedGoTogether
    <3> QED
      BY <2>5, <3>2, <3>4, <1>b
  <2>14. CASE put = {}
    <3>1. n = old
      <4>1. \A f \in {"place", "window"} : n[f] = old[f]
        BY <2>3, <2>7, <2>8, <2>14
      <4>2. n.status = old.status
        BY <2>3, <2>7, <2>8, <2>14
      <4>3. n.place = old.place /\ n.window = old.window
        BY <4>1
      <4> QED
        BY <2>7, <2>9, <4>2, <4>3 DEF Popups!Notice
    <3>2. notices' = notices /\ unstated' = unstated
      BY <2>5, <2>7, <2>8, <2>11, <2>14, <3>1 DEF NoticeTable
    <3> QED
      BY <2>5, <3>2, <1>b, <1>d DEF Popups!noticeVars
  <2> QED
    BY <2>12, <2>13, <2>14
<1>5. ASSUME NEW r \in Requests, NEW i \in DOMAIN notices, Popups!RemoveNotice(r, i)
      PROVE NoticesInv'
  <2>1. /\ Popups!AtOnce(r) /\ notices' = [k \in DOMAIN notices \ {i} |-> notices[k]]
        /\ unstated' = unstated \ {i}
    BY <1>5 DEF Popups!RemoveNotice
  <2>2. NoticeTable'
    BY <2>1 DEF NoticeTable
  <2>3. StatedGoTogether'
    BY <2>1 DEF StatedGoTogether
  <2> QED
    BY <2>1, <2>2, <2>3, <1>c
<1>6. ASSUME NEW r \in Requests, Popups!Abandon(r) PROVE NoticesInv'
  BY <1>6, <1>b, <1>d DEF Popups!Abandon, Popups!GiveUp
<1>7. CASE UNCHANGED noticingVars
  <2>1. UNCHANGED <<pc, job>> /\ UNCHANGED Popups!noticeVars
    BY <1>7 DEF noticingVars, Popups!handling
  <2>2. ASSUME NEW r \in Requests PROVE NoticeJobFits(pc[r], job[r])'
    <3>1. NoticeJobFits(pc[r], job[r])
      BY DEF NoticeJobs
    <3>2. UNCHANGED notices
      BY <2>1 DEF Popups!noticeVars
    <3> QED
      BY <2>1, <3>1, <3>2 DEF NoticeJobFits, Checked
  <2> QED
    BY <2>1, <2>2, <1>d DEF Slots, NoticeJobs
<1> QED
  BY <1>1, <1>2, <1>3, <1>4, <1>5, <1>6, <1>7 DEF Popups!Next

\* While handlers do not overlap, customers see one notice at a place at any moment and the
\* windows with both ends that are scheduled there do not meet, for any windows, but for
\* notices that were last edited without their status.
THEOREM NoticesDoNotMeet ==
  ASSUME OneAtATime, 0 \notin NoticeIds, NoticeWindows \subseteq Nat \X Nat
  PROVE  NoticeSpec => []Popups!OneNoticeEachPlace
<1>1. NoticesInv => Popups!OneNoticeEachPlace
  <2> SUFFICES ASSUME NoticesInv, NEW i \in DOMAIN notices \ unstated,
                      NEW k \in DOMAIN notices \ unstated,
                      i # k, notices[i].place = notices[k].place
               PROVE  /\ ~\E t \in UNION {{w[1], w[2]} : w \in NoticeWindows} :
                             {i, k} \subseteq Popups!ActiveAt(t)
                      /\ {notices[i].status, notices[k].status} = {"scheduled"}
                           /\ Popups!Whole(notices[k].window)
                           => ~Popups!Overlap(notices[i].window, notices[k].window)
    BY DEF Popups!OneNoticeEachPlace
  <2>1. GoTogether(notices[i], notices[k])
    BY DEF NoticesInv, StatedGoTogether
  <2>2. \A t : {i, k} \subseteq Popups!ActiveAt(t) =>
          notices[i].status = "active" /\ notices[k].status = "active"
    BY DEF Popups!ActiveAt
  <2> QED
    BY <2>1, <2>2 DEF GoTogether
<1> QED
  BY <1>1, NoticesStart, NoticesNext, PTL DEF NoticeSpec

-----------------------------------------------------------------------------
(* Banners: the banners of the home page, and its mode in the database and in Redis *)

LEMMA BannersCounted == \A S : Places!Cardinality(S) = Cardinality(S)
  BY DEF Places!Cardinality, Cardinality

HeroStart == Places!BannersInit /\ Quiet

heroVars == <<Places!bannerVars, Places!handling>>

HeroSpec == HeroStart /\ [][Places!Next]_heroVars

\* The banners that a request has enabled at the position p.
EnabledNow(p) == {i \in DOMAIN banners : banners[i].position = p /\ banners[i].enabled = "yes"}

ABanner(x) == x = [position |-> x.position, side |-> x.side, active |-> x.active,
                   enabled |-> x.enabled]

BannerTable ==
  /\ banners = [i \in DOMAIN banners |-> banners[i]]
  /\ IsFiniteSet(DOMAIN banners) /\ DOMAIN banners \subseteq Int /\ 0 \notin DOMAIN banners
  /\ \A i \in DOMAIN banners :
       ABanner(banners[i]) /\ (banners[i].enabled = "yes" => banners[i].active)

\* Each position has as many enabled banners as its limit says, each side at most one.
PositionsFit ==
  /\ \A p \in DOMAIN Places!ActiveLimits : Cardinality(EnabledNow(p)) <= Places!ActiveLimits[p]
  /\ \A i, k \in EnabledNow("side_banner") : i # k => banners[i].side # banners[k].side

\* There is room for b, as row i or as a new one.
HasRoom(b, i) ==
  /\ ABanner(b) /\ (b.enabled = "yes" => b.active)
  /\ b.enabled = "yes" =>
       /\ b.position \in DOMAIN Places!ActiveLimits =>
            Cardinality(EnabledNow(b.position) \ {i}) < Places!ActiveLimits[b.position]
       /\ b.position = "side_banner" =>
            \A k \in EnabledNow(b.position) \ {i} : banners[k].side # b.side

BannerJobFits(l, j) ==
  /\ l \in {"idle", "insert", "update", "invalidate", "fill"}
  /\ l = "insert" => HasRoom(j, 0)
  /\ l = "update" =>
       /\ j.id \in DOMAIN banners /\ HasRoom(j.row, j.id)
       /\ j.moved \/ banners[j.id].position = j.row.position
  /\ l = "fill" => j = heroMode
  /\ l # "invalidate" /\ ~tornConfig => cachedMode \in {"none", heroMode}

BannerJobs == \A r \in Requests : BannerJobFits(pc[r], job[r])

NobodyConfigures == Requests = {} => cachedMode = "none"

HeroInv == Slots /\ BannerTable /\ PositionsFit /\ BannerJobs /\ NobodyConfigures

LEMMA LimitsAllowOne == \A p \in DOMAIN Places!ActiveLimits :
    Places!ActiveLimits[p] \in Nat /\ Places!ActiveLimits[p] >= 1
  BY DEF Places!ActiveLimits

\* Fewer rows at every position, none of which has changed, are no more enabled banners.
LEMMA EnabledFinite ==
  ASSUME BannerTable
  PROVE  \A p, i :
           /\ IsFiniteSet(EnabledNow(p)) /\ Cardinality(EnabledNow(p)) \in Nat
           /\ IsFiniteSet(EnabledNow(p) \ {i}) /\ Cardinality(EnabledNow(p) \ {i}) \in Nat
<1> SUFFICES ASSUME NEW p, NEW i
             PROVE  /\ IsFiniteSet(EnabledNow(p)) /\ Cardinality(EnabledNow(p)) \in Nat
                    /\ IsFiniteSet(EnabledNow(p) \ {i})
                    /\ Cardinality(EnabledNow(p) \ {i}) \in Nat
  OBVIOUS
<1>1. EnabledNow(p) \subseteq DOMAIN banners /\ EnabledNow(p) \ {i} \subseteq DOMAIN banners
  BY DEF EnabledNow
<1>2. IsFiniteSet(EnabledNow(p)) /\ IsFiniteSet(EnabledNow(p) \ {i})
  BY <1>1, FS_Subset DEF BannerTable
<1> QED
  BY <1>2, FS_CardinalityType

LEMMA HeroBegins == HeroStart => HeroInv
<1> SUFFICES ASSUME HeroStart PROVE HeroInv
  OBVIOUS
<1>1. /\ pc = [r \in Requests |-> "idle"] /\ job = [r \in Requests |-> <<>>]
      /\ cachedMode = "none" /\ tornConfig = FALSE
  BY DEF HeroStart, Quiet, Places!BannersInit
<1>2. banners = <<>> \/ banners \in [{1} -> {b \in Places!Banner : b.enabled = "yes" => b.active}]
  BY DEF HeroStart, Places!BannersInit
<1>3. banners = [i \in DOMAIN banners |-> banners[i]] /\ DOMAIN banners \subseteq {1}
  <2>1. CASE banners = <<>>
    BY <2>1
  <2>2. CASE banners \in [{1} -> {b \in Places!Banner : b.enabled = "yes" => b.active}]
    BY <2>2
  <2> QED
    BY <1>2, <2>1, <2>2
<1>4. \A i \in DOMAIN banners :
        ABanner(banners[i]) /\ (banners[i].enabled = "yes" => banners[i].active)
  BY <1>2 DEF ABanner, Places!Banner
<1>5. IsFiniteSet({1}) /\ Cardinality({1}) = 1
  BY FS_Singleton
<1>6. BannerTable
  BY <1>3, <1>4, <1>5, FS_Subset DEF BannerTable
<1>7. ASSUME NEW p \in DOMAIN Places!ActiveLimits
      PROVE Cardinality(EnabledNow(p)) <= Places!ActiveLimits[p]
  <2>1. EnabledNow(p) \subseteq {1}
    BY <1>3 DEF EnabledNow
  <2>2. Cardinality(EnabledNow(p)) <= 1
    BY <2>1, <1>5, FS_Subset
  <2>3. /\ Cardinality(EnabledNow(p)) \in Nat
        /\ Places!ActiveLimits[p] \in Nat /\ Places!ActiveLimits[p] >= 1
    BY <1>6, EnabledFinite, LimitsAllowOne
  <2> QED
    BY <2>2, <2>3
<1>8. PositionsFit
  BY <1>3, <1>7 DEF PositionsFit, EnabledNow
<1> QED
  BY <1>1, <1>6, <1>8 DEF HeroInv, Slots, BannerJobs, BannerJobFits, NobodyConfigures

\* What ensureActiveLimit and ensureSidePlacementAvailable leave: room for the banner.
LEMMA ChecksLeaveRoom ==
  ASSUME BannerTable, NEW b, NEW i, ABanner(b), b.enabled = "yes" =>
         b.active, Places!MayBeEnabled(b, i)
  PROVE  HasRoom(b, i)
<1> SUFFICES ASSUME b.enabled = "yes"
             PROVE  /\ b.position \in DOMAIN Places!ActiveLimits =>
                         Cardinality(EnabledNow(b.position) \ {i}) < Places!ActiveLimits[b.position]
                    /\ b.position = "side_banner" =>
                         \A k \in EnabledNow(b.position) \ {i} : banners[k].side # b.side
  BY DEF HasRoom
<1>1. PICK others : others = Places!EnabledAt(DOMAIN banners, b.position, i)
  OBVIOUS
<1>2. /\ b.position \in DOMAIN Places!ActiveLimits =>
           Places!Cardinality(others) < Places!ActiveLimits[b.position]
      /\ b.position = "side_banner" => \A k \in others : banners[k].side # b.side
  BY <1>1 DEF Places!MayBeEnabled, Places!Cardinality
<1>3. EnabledNow(b.position) \ {i} \subseteq others /\ others \subseteq DOMAIN banners
  BY <1>1 DEF Places!EnabledAt, EnabledNow, Places!resolveEnabledState
<1>4. IsFiniteSet(others)
  BY <1>3, FS_Subset DEF BannerTable
<1>5. /\ Cardinality(others) \in Nat
      /\ Cardinality(EnabledNow(b.position) \ {i}) <= Cardinality(others)
  BY <1>3, <1>4, FS_Subset, FS_CardinalityType
<1>6. Cardinality(EnabledNow(b.position) \ {i}) \in Nat
  BY EnabledFinite
<1>7. Places!Cardinality(others) = Cardinality(others)
  BY BannersCounted
<1>8. ASSUME b.position \in DOMAIN Places!ActiveLimits
      PROVE  Cardinality(EnabledNow(b.position) \ {i}) < Places!ActiveLimits[b.position]
  BY <1>2, <1>5, <1>6, <1>7, <1>8, LimitsAllowOne
<1> QED
  BY <1>2, <1>3, <1>8

\* A row with room for it can be written.
LEMMA RoomIsEnough ==
  ASSUME BannerTable, PositionsFit, NEW i \in Int, i # 0, NEW but, NEW x, HasRoom(x, but),
         but = i \/ but \notin DOMAIN banners,
         banners' = [k \in DOMAIN banners \cup {i} |-> IF k = i THEN x ELSE banners[k]]
  PROVE  BannerTable' /\ PositionsFit'
<1>1. /\ DOMAIN banners' = DOMAIN banners \cup {i} /\ banners'[i] = x
      /\ banners' = [k \in DOMAIN banners' |-> banners'[k]]
      /\ \A k \in DOMAIN banners : k # i => banners'[k] = banners[k]
  OBVIOUS
<1>2. IsFiniteSet(DOMAIN banners')
  BY <1>1, FS_AddElement DEF BannerTable
<1>3. BannerTable'
  BY <1>1, <1>2 DEF BannerTable, HasRoom, ABanner
<1>4. ASSUME NEW p, ~(x.position = p /\ x.enabled = "yes")
      PROVE  EnabledNow(p)' \subseteq EnabledNow(p) /\ i \notin EnabledNow(p)'
  BY <1>1, <1>4 DEF EnabledNow
<1>5. ASSUME NEW p, x.position = p /\ x.enabled = "yes"
      PROVE  EnabledNow(p)' \subseteq (EnabledNow(p) \ {but}) \cup {i}
  BY <1>1, <1>5 DEF EnabledNow
<1>6. ASSUME NEW p \in DOMAIN Places!ActiveLimits
      PROVE Cardinality(EnabledNow(p)') <= Places!ActiveLimits[p]
  <2>1. CASE ~(x.position = p /\ x.enabled = "yes")
    <3>1. /\ Cardinality(EnabledNow(p)') <= Cardinality(EnabledNow(p))
          /\ Cardinality(EnabledNow(p)') \in Nat
      BY <1>4, <2>1, EnabledFinite, FS_Subset, FS_CardinalityType
    <3>2. Cardinality(EnabledNow(p)) <= Places!ActiveLimits[p]
      BY DEF PositionsFit
    <3>3. Cardinality(EnabledNow(p)) \in Nat /\ Places!ActiveLimits[p] \in Nat
      BY EnabledFinite, LimitsAllowOne
    <3> QED
      BY <3>1, <3>2, <3>3
  <2>2. CASE x.position = p /\ x.enabled = "yes"
    <3>1. PICK S : S = EnabledNow(p) \ {but}
      OBVIOUS
    <3>2. IsFiniteSet(S) /\ Cardinality(S) \in Nat /\ Cardinality(S) < Places!ActiveLimits[p]
      BY <2>2, <3>1, EnabledFinite DEF HasRoom
    <3>3. /\ IsFiniteSet(S \cup {i}) /\ Cardinality(S \cup {i}) \in Nat
          /\ Cardinality(S \cup {i}) <= Cardinality(S) + 1
      <4>1. CASE i \in S
        <5>1. S \cup {i} = S
          BY <4>1
        <5> QED
          BY <5>1, <3>2
      <4>2. CASE i \notin S
        <5>1. IsFiniteSet(S \cup {i}) /\ Cardinality(S \cup {i}) = Cardinality(S) + 1
          BY <4>2, <3>2, FS_AddElement
        <5> QED
          BY <5>1, <3>2
      <4> QED
        BY <4>1, <4>2
    <3>4. /\ Cardinality(EnabledNow(p)') <= Cardinality(S \cup {i})
          /\ Cardinality(EnabledNow(p)') \in Nat
      BY <1>5, <2>2, <3>1, <3>3, FS_Subset, FS_CardinalityType
    <3> QED
      BY <3>2, <3>3, <3>4, LimitsAllowOne
  <2> QED
    BY <2>1, <2>2
<1>7. ASSUME NEW h, NEW k, h \in EnabledNow("side_banner")', k \in EnabledNow("side_banner")',
             h # k
      PROVE  banners'[h].side # banners'[k].side
  <2>1. CASE ~(x.position = "side_banner" /\ x.enabled = "yes")
    BY <1>1, <1>4, <1>7, <2>1 DEF PositionsFit, EnabledNow
  <2>2. CASE x.position = "side_banner" /\ x.enabled = "yes"
    <3>1. \A n \in EnabledNow("side_banner") \ {but} : banners[n].side # x.side
      BY <2>2 DEF HasRoom
    <3>2. CASE h # i /\ k # i
      BY <1>1, <1>5, <1>7, <2>2, <3>2 DEF PositionsFit, EnabledNow
    <3>3. CASE h = i \/ k = i
      <4>1. \A n \in EnabledNow("side_banner")' : n # i => banners'[n].side # x.side
        BY <1>1, <1>5, <2>2, <3>1 DEF EnabledNow
      <4> QED
        BY <1>1, <1>7, <3>3, <4>1
    <3> QED
      BY <3>2, <3>3
  <2> QED
    BY <2>1, <2>2
<1>8. PositionsFit'
  BY <1>6, <1>7 DEF PositionsFit
<1> QED
  BY <1>3, <1>8

LEMMA HeroNext ==
  ASSUME OneAtATime, BannerIds \subseteq Int, 0 \notin BannerIds
  PROVE  HeroInv /\ [Places!Next]_heroVars => HeroInv'
<1> SUFFICES ASSUME HeroInv, [Places!Next]_heroVars PROVE HeroInv'
  OBVIOUS
<1> USE DEF HeroInv
<1>a. ASSUME NEW r \in Requests, NEW l, NEW j, Places!Begin(r, l, j), BannerJobFits(l, j)'
      PROVE  Slots' /\ BannerJobs' /\ NobodyConfigures'
  <2>1. Slots' /\ pc'[r] = l /\ job'[r] = j /\ \A q \in Requests : q = r
    BY <1>a DEF Slots, Places!Begin, OneAtATime
  <2>2. BannerJobFits(pc[r], job[r])'
    BY <1>a, <2>1 DEF BannerJobFits
  <2> QED
    BY <2>1, <2>2 DEF BannerJobs, NobodyConfigures
<1>b. ASSUME NEW r \in Requests, Places!Finish(r), ~tornConfig' => cachedMode' \in {"none",
             heroMode'}
      PROVE  Slots' /\ BannerJobs' /\ NobodyConfigures'
  <2>1. Slots' /\ pc'[r] = "idle" /\ \A q \in Requests : q = r
    BY <1>b DEF Slots, Places!Finish, OneAtATime
  <2>2. BannerJobFits(pc[r], job[r])'
    BY <1>b, <2>1 DEF BannerJobFits
  <2> QED
    BY <2>1, <2>2 DEF BannerJobs, NobodyConfigures
<1>c. ASSUME NEW r \in Requests, pc[r] # "invalidate", ~tornConfig
      PROVE  cachedMode \in {"none", heroMode}
  BY <1>c DEF BannerJobs, BannerJobFits
<1>d. ASSUME UNCHANGED banners
      PROVE  /\ BannerTable' /\ PositionsFit'
             /\ \A b, i : HasRoom(b, i) => HasRoom(b, i)'
  BY <1>d DEF BannerTable, PositionsFit, HasRoom, EnabledNow, ABanner
<1>1. ASSUME NEW r \in Requests, Places!CreateBanner(r) PROVE HeroInv'
  <2>1. PICK b \in Places!Banner :
          /\ b.enabled = "yes" => b.active
          /\ Places!MayBeEnabled(b, 0) /\ Places!Begin(r, "insert", b)
          /\ UNCHANGED Places!bannerVars
    BY <1>1 DEF Places!CreateBanner
  <2>2. ABanner(b)
    BY <2>1 DEF Places!Banner, ABanner
  <2>3. HasRoom(b, 0)
    BY <2>1, <2>2, ChecksLeaveRoom
  <2>4. pc[r] = "idle" /\ UNCHANGED <<banners, heroMode, cachedMode, tornConfig>>
    BY <2>1 DEF Places!bannerVars, Places!Begin
  <2>5. HasRoom(b, 0)'
    BY <2>3, <2>4, <1>d
  <2>6. ~tornConfig' => cachedMode' \in {"none", heroMode'}
    BY <2>4, <1>c
  <2>7. BannerJobFits("insert", b)'
    BY <2>5, <2>6 DEF BannerJobFits
  <2> QED
    BY <2>1, <2>4, <2>7, <1>a, <1>d
<1>2. ASSUME NEW r \in Requests, Places!Insert(r) PROVE HeroInv'
  <2>1. PICK i, x :
          /\ i \in BannerIds /\ x = job[r]
          /\ banners' = [k \in DOMAIN banners \cup {i} |-> IF k = i THEN x ELSE banners[k]]
    BY <1>2 DEF Places!Insert
  <2>2. pc[r] = "insert" /\ Places!Finish(r) /\ UNCHANGED <<heroMode, cachedMode, tornConfig>>
    BY <1>2 DEF Places!Insert
  <2>3. HasRoom(x, 0) /\ i \in Int /\ i # 0 /\ 0 \notin DOMAIN banners
    BY <2>1, <2>2 DEF BannerJobs, BannerJobFits, BannerTable
  <2>4. BannerTable' /\ PositionsFit'
    BY <2>1, <2>3, RoomIsEnough
  <2>5. ~tornConfig' => cachedMode' \in {"none", heroMode'}
    BY <2>2, <1>c
  <2> QED
    BY <2>2, <2>4, <2>5, <1>b
<1>3. ASSUME NEW r \in Requests, Places!SaveBanner(r) PROVE HeroInv'
  <2>1. PICK i, b : i = job[r].id /\ b = job[r].row
    OBVIOUS
  <2>2. PICK x : x = [b EXCEPT !.position = IF job[r].moved THEN @ ELSE banners[i].position]
    OBVIOUS
  <2>3. /\ pc[r] = "update" /\ Places!Finish(r) /\ UNCHANGED <<heroMode, cachedMode, tornConfig>>
        /\ banners' = [k \in DOMAIN banners |-> IF k # i THEN banners[k] ELSE x]
    <3>1. \A k \in DOMAIN banners :
            k = i => [b EXCEPT !.position = IF job[r].moved THEN @ ELSE banners[k].position] = x
      BY <2>2
    <3> QED
      BY <1>3, <2>1, <3>1 DEF Places!SaveBanner
  <2>4. /\ i \in DOMAIN banners /\ HasRoom(b, i)
        /\ job[r].moved \/ banners[i].position = b.position
    BY <2>1, <2>3 DEF BannerJobs, BannerJobFits
  <2>5. x = b
    BY <2>2, <2>4 DEF HasRoom, ABanner
  <2>6. /\ banners' = [k \in DOMAIN banners \cup {i} |-> IF k = i THEN x ELSE banners[k]]
        /\ i \in Int /\ i # 0
    BY <2>3, <2>4 DEF BannerTable
  <2>7. BannerTable' /\ PositionsFit'
    BY <2>4, <2>5, <2>6, RoomIsEnough
  <2>8. ~tornConfig' => cachedMode' \in {"none", heroMode'}
    BY <2>3, <1>c
  <2> QED
    BY <2>3, <2>7, <2>8, <1>b
<1>4. ASSUME NEW r \in Requests, NEW i \in DOMAIN banners, Places!UpdateBanner(r, i)
      PROVE HeroInv'
  <2>1. PICK position \in Positions, side \in Places!Side, active \in BOOLEAN,
             given \in Places!Flag \cup {"left out"} :
          LET b == Places!NextRow(banners[i], position, side, active, given) IN
          /\ Places!MayBeEnabled(b, i)
          /\ Places!Begin(r, "update", [id |-> i, row |-> b, moved |-> position # banners[i].position])
          /\ UNCHANGED Places!bannerVars
    BY <1>4 DEF Places!UpdateBanner
  <2>2. PICK b : b = Places!NextRow(banners[i], position, side, active, given)
    OBVIOUS
  <2>3. PICK j : j = [id |-> i, row |-> b, moved |-> position # banners[i].position]
    OBVIOUS
  <2>4. Places!MayBeEnabled(b, i) /\ Places!Begin(r, "update", j) /\ UNCHANGED Places!bannerVars
    BY <2>1, <2>2, <2>3
  <2>5. ABanner(b) /\ (b.enabled = "yes" => b.active) /\ b.position = position
    BY <2>2 DEF Places!NextRow, ABanner
  <2>6. HasRoom(b, i)
    BY <2>4, <2>5, ChecksLeaveRoom
  <2>7. pc[r] = "idle" /\ UNCHANGED <<banners, heroMode, cachedMode, tornConfig>>
    BY <2>4 DEF Places!bannerVars, Places!Begin
  <2>8. HasRoom(b, i)'
    BY <2>6, <2>7, <1>d
  <2>9. j.id = i /\ j.row = b /\ (j.moved \/ banners'[i].position = b.position)
    BY <2>3, <2>5, <2>7
  <2>10. ~tornConfig' => cachedMode' \in {"none", heroMode'}
    BY <2>7, <1>c
  <2>11. HasRoom(j.row, j.id)'
    BY <2>8, <2>9
  <2>12. BannerJobFits("update", j)'
    BY <2>7, <2>9, <2>10, <2>11 DEF BannerJobFits
  <2> QED
    BY <2>4, <2>7, <2>12, <1>a, <1>d
<1>5. ASSUME NEW r \in Requests, NEW i \in DOMAIN banners, Places!RemoveBanner(r, i)
      PROVE HeroInv'
  <2>1. /\ Places!AtOnce(r) /\ banners' = [k \in DOMAIN banners \ {i} |-> banners[k]]
        /\ UNCHANGED <<heroMode, cachedMode, tornConfig>>
    BY <1>5 DEF Places!RemoveBanner
  <2>2. /\ DOMAIN banners' = DOMAIN banners \ {i}
        /\ \A k \in DOMAIN banners' : banners'[k] = banners[k]
    BY <2>1
  <2>3. IsFiniteSet(DOMAIN banners')
    BY <2>2, FS_Subset DEF BannerTable
  <2>4. BannerTable'
    BY <2>1, <2>2, <2>3 DEF BannerTable, ABanner
  <2>5. \A p : EnabledNow(p)' \subseteq EnabledNow(p)
    BY <2>2 DEF EnabledNow
  <2>6. ASSUME NEW p \in DOMAIN Places!ActiveLimits
        PROVE Cardinality(EnabledNow(p)') <= Places!ActiveLimits[p]
    <3>1. /\ Cardinality(EnabledNow(p)') <= Cardinality(EnabledNow(p))
          /\ Cardinality(EnabledNow(p)') \in Nat
      BY <2>5, EnabledFinite, FS_Subset, FS_CardinalityType
    <3>2. Cardinality(EnabledNow(p)) <= Places!ActiveLimits[p]
      BY DEF PositionsFit
    <3>3. Cardinality(EnabledNow(p)) \in Nat /\ Places!ActiveLimits[p] \in Nat
      BY EnabledFinite, LimitsAllowOne
    <3> QED
      BY <3>1, <3>2, <3>3
  <2>7. PositionsFit'
    BY <2>2, <2>5, <2>6 DEF PositionsFit, EnabledNow
  <2>8. pc[r] = "idle" /\ Slots' /\ pc'[r] = "idle" /\ \A q \in Requests : q = r
    BY <2>1 DEF Places!AtOnce, Slots, OneAtATime
  <2>9. ~tornConfig' => cachedMode' \in {"none", heroMode'}
    BY <2>1, <2>8, <1>c
  <2>10. BannerJobFits(pc[r], job[r])'
    BY <2>8, <2>9 DEF BannerJobFits
  <2> QED
    BY <2>4, <2>7, <2>8, <2>10 DEF BannerJobs, NobodyConfigures
<1>6. ASSUME NEW r \in Requests, Places!ChangeMode(r) PROVE HeroInv'
  <2>1. Places!Begin(r, "invalidate", heroMode') /\ UNCHANGED banners
    BY <1>6 DEF Places!ChangeMode
  <2>2. PICK j : j = heroMode'
    OBVIOUS
  <2>3. Places!Begin(r, "invalidate", j) /\ BannerJobFits("invalidate", j)'
    BY <2>1, <2>2 DEF BannerJobFits
  <2> QED
    BY <2>1, <2>3, <1>a, <1>d
<1>7. ASSUME NEW r \in Requests, Places!Invalidate(r) PROVE HeroInv'
  <2>1. Places!Finish(r) /\ cachedMode' = "none" /\ UNCHANGED banners
    BY <1>7 DEF Places!Invalidate
  <2> QED
    BY <2>1, <1>b, <1>d
<1>8. ASSUME NEW r \in Requests, Places!LoadConfig(r) PROVE HeroInv'
  <2>1. PICK j : j = heroMode
    OBVIOUS
  <2>2. cachedMode = "none" /\ Places!Begin(r, "fill", j) /\ UNCHANGED <<banners, heroMode,
          cachedMode>>
    BY <1>8, <2>1 DEF Places!LoadConfig, Places!bannerVars
  <2>3. BannerJobFits("fill", j)'
    BY <2>1, <2>2 DEF BannerJobFits
  <2> QED
    BY <2>2, <2>3, <1>a, <1>d
<1>9. ASSUME NEW r \in Requests, Places!FillCache(r) PROVE HeroInv'
  <2>1. pc[r] = "fill" /\ cachedMode' = job[r] /\ Places!Finish(r) /\ UNCHANGED <<banners,
          heroMode>>
    BY <1>9 DEF Places!FillCache
  <2>2. job[r] = heroMode
    BY <2>1 DEF BannerJobs, BannerJobFits
  <2> QED
    BY <2>1, <2>2, <1>b, <1>d
<1>10. ASSUME NEW r \in Requests, Places!Abandon(r) PROVE HeroInv'
  <2>1. /\ Places!Finish(r) /\ UNCHANGED <<banners, heroMode, cachedMode>>
        /\ tornConfig' = (tornConfig \/ pc[r] = "invalidate")
    BY <1>10 DEF Places!Abandon, Places!GiveUp
  <2>2. ~tornConfig' => cachedMode' \in {"none", heroMode'}
    BY <2>1, <1>c
  <2> QED
    BY <2>1, <2>2, <1>b, <1>d
<1>11. CASE Places!CacheExpires \/ UNCHANGED heroVars
  <2>1. /\ UNCHANGED <<pc, job, banners, heroMode>>
        /\ cachedMode' = "none" \/ UNCHANGED <<cachedMode, tornConfig>>
    BY <1>11 DEF Places!CacheExpires, heroVars, Places!bannerVars, Places!handling
  <2>2. ASSUME NEW r \in Requests PROVE BannerJobFits(pc[r], job[r])'
    <3>1. PICK l, j : l = pc[r] /\ j = job[r] /\ l = pc'[r] /\ j = job'[r]
      BY <2>1
    <3>2. BannerJobFits(l, j)
      BY <3>1 DEF BannerJobs
    <3>3. BannerJobFits(l, j)'
      BY <2>1, <3>2, <1>d DEF BannerJobFits
    <3> QED
      BY <3>1, <3>3 DEF BannerJobFits
  <2>3. Slots' /\ NobodyConfigures'
    BY <2>1 DEF Slots, NobodyConfigures
  <2> QED
    BY <2>1, <2>2, <2>3, <1>d DEF BannerJobs
<1> QED
  BY <1>1, <1>2, <1>3, <1>4, <1>5, <1>6, <1>7, <1>8, <1>9, <1>10, <1>11 DEF Places!Next

LEMMA HeroAlways ==
  ASSUME OneAtATime, BannerIds \subseteq Int, 0 \notin BannerIds
  PROVE  HeroSpec => []HeroInv
  BY HeroBegins, HeroNext, PTL DEF HeroSpec

\* While handlers do not overlap, customers see the hero of the mode that was last stored, unless
\* a handler ended before it reached Redis and ten minutes are not over.
THEOREM HeroFollowsMode ==
  ASSUME OneAtATime, BannerIds \subseteq Int, 0 \notin BannerIds
  PROVE  HeroSpec => []Places!ModeIsCurrent
<1>1. HeroInv => Places!ModeIsCurrent
  BY DEF HeroInv, BannerJobs, BannerJobFits, NobodyConfigures, Places!ModeIsCurrent,
     Places!ModeSeen
<1> QED
  BY <1>1, HeroAlways, PTL

\* While handlers do not overlap, customers see every banner that is enabled where the mode
\* allows: the limit of a position that each request checks is that of the list customers get,
\* which therefore cuts none off, and no two enabled banners compete for one side.
THEOREM EnabledBannersShow ==
  ASSUME OneAtATime, BannerIds \subseteq Int, 0 \notin BannerIds
  PROVE  HeroSpec => []Places!EnabledAreShown
<1>1. ASSUME HeroInv PROVE Places!EnabledAreShown
  <2> SUFFICES ASSUME NEW p \in Places!Allowed(Places!ModeSeen),
                      \A i \in {k \in DOMAIN banners : banners[k].position = p} :
                        banners[i].enabled # "unset"
               PROVE  /\ Places!Shown(p, Places!ModeSeen) = EnabledNow(p)
                      /\ p = "side_banner" => \A i, k \in EnabledNow(p) :
                                                i # k => banners[i].side # banners[k].side
    <3>1. \A q : {i \in {k \in DOMAIN banners : banners[k].position = q} :
                    banners[i].enabled = "yes"} = EnabledNow(q)
      BY DEF EnabledNow
    <3> QED
      BY <3>1 DEF Places!EnabledAreShown
  <2>1. {i \in Places!EnabledAt(DOMAIN banners, p, 0) : banners[i].active} = EnabledNow(p)
    BY <1>1 DEF HeroInv, BannerTable, Places!EnabledAt, EnabledNow, Places!resolveEnabledState
  <2>2. ASSUME NEW i \in EnabledNow(p), p \in DOMAIN Places!ActiveLimits
        PROVE  Places!Cardinality({k \in EnabledNow(p) : k < i}) < Places!ActiveLimits[p]
    <3>1. PICK S : S = {k \in EnabledNow(p) : k < i}
      OBVIOUS
    <3>2. S \subseteq EnabledNow(p) /\ S # EnabledNow(p)
      BY <1>1, <2>2, <3>1 DEF HeroInv, BannerTable, EnabledNow
    <3>3. IsFiniteSet(EnabledNow(p)) /\ Cardinality(EnabledNow(p)) \in Nat
      BY <1>1, EnabledFinite DEF HeroInv
    <3>4. /\ Cardinality(S) <= Cardinality(EnabledNow(p)) /\ Cardinality(S) \in Nat
          /\ Cardinality(S) # Cardinality(EnabledNow(p))
      BY <3>2, <3>3, FS_Subset, FS_CardinalityType
    <3>5. Cardinality(EnabledNow(p)) <= Places!ActiveLimits[p] /\ Places!ActiveLimits[p] \in Nat
      BY <1>1, <2>2, LimitsAllowOne DEF HeroInv, PositionsFit
    <3>6. Cardinality(S) < Places!ActiveLimits[p]
      BY <3>3, <3>4, <3>5
    <3> QED
      BY <3>1, <3>6, BannersCounted
  <2>3. Places!Shown(p, Places!ModeSeen) = EnabledNow(p)
    BY <2>1, <2>2 DEF Places!Shown, Places!Cardinality
  <2> QED
    BY <1>1, <2>3 DEF HeroInv, PositionsFit
<1> QED
  BY <1>1, HeroAlways, PTL

-----------------------------------------------------------------------------
(* Media: the library lists the files that are stored *)

LibraryStart == Library!MediaInit /\ Quiet

libraryVars == <<Library!mediaVars, Library!handling>>

LibrarySpec == LibraryStart /\ [][Library!Next]_libraryVars

\* The bound of TLC is no limit to the proof: the least id that no row has is free.
LEMMA NextOneIsFree ==
  ASSUME NEW B \in SUBSET AssetIds, IsFiniteSet(AssetIds), AssetIds \subseteq Nat,
         Library!Min(B \cup {Library!Max(AssetIds) + 1}) \in AssetIds
  PROVE  Library!Min(B \cup {Library!Max(AssetIds) + 1}) \in B
<1> DEFINE top == Library!Max(AssetIds)  S == B \cup {top + 1}
<1>1. top \in AssetIds /\ \A x \in AssetIds : top >= x
  BY LargestExists DEF Library!Max
<1> HIDE DEF top
<1>2. S \subseteq Nat /\ S # {} /\ top + 1 \notin AssetIds
  <2>1. top \in Nat
    BY <1>1
  <2>2. top + 1 \in Nat /\ ~(top >= top + 1)
    BY <2>1
  <2> QED
    BY <1>1, <2>2
<1> HIDE DEF S
<1>3. Library!Min(S) \in S
  BY <1>2, LeastExists DEF Library!Min
<1> QED
  BY <1>2, <1>3 DEF S, top

\* The files that rows name.
Filed == {assets[i].file : i \in DOMAIN assets}

AnAsset(x) ==
  x = [file |-> x.file, folder |-> x.folder, archived |-> x.archived, private |-> x.private]

\* No two rows name one file.
AssetTable ==
  /\ assets = [i \in DOMAIN assets |-> assets[i]]
  /\ \A i \in DOMAIN assets : AnAsset(assets[i])
  /\ \A i, k \in DOMAIN assets : assets[i].file = assets[k].file => i = k

\* What the step l of a handler that has read j relies on, and how far the library and the
\* store differ then.
FileJobFits(l, j) ==
  /\ l \in {"idle", "store", "insert", "destroy", "delete", "save"}
  /\ l \in {"idle", "store", "destroy", "save"} => Filed \ tornFiles = stored \ tornFiles
  /\ l = "insert" => j.file \notin Filed /\ (Filed \cup {j.file}) \ tornFiles = stored \ tornFiles
  /\ l \in {"destroy", "delete"} => j.id \in DOMAIN assets /\ assets[j.id].file = j.file
  /\ l = "delete" => (Filed \ {j.file}) \ tornFiles = stored \ tornFiles
  /\ l = "save" =>
       j.id \in DOMAIN assets /\ AnAsset(j.row) /\ j.row.file = assets[j.id].file

FileJobs == \A r \in Requests : FileJobFits(pc[r], job[r])

NobodyFiles == Requests = {} => Filed = stored

LibraryInv == Slots /\ AssetTable /\ FileJobs /\ NobodyFiles

LEMMA LibraryBegins == LibraryStart => LibraryInv
<1> SUFFICES ASSUME LibraryStart PROVE LibraryInv
  OBVIOUS
<1>1. /\ pc = [r \in Requests |-> "idle"] /\ job = [r \in Requests |-> <<>>]
      /\ assets = <<>> /\ stored = {}
  BY DEF LibraryStart, Quiet, Library!MediaInit
<1>2. DOMAIN assets = {} /\ assets = [i \in DOMAIN assets |-> assets[i]]
  BY <1>1
<1>3. Filed = {}
  BY <1>2 DEF Filed
<1> QED
  BY <1>1, <1>2, <1>3 DEF LibraryInv, Slots, AssetTable, FileJobs, FileJobFits, NobodyFiles

LEMMA LibraryNext ==
  ASSUME OneAtATime, IsFiniteSet(AssetIds), AssetIds \subseteq Nat
  PROVE  LibraryInv /\ [Library!Next]_libraryVars => LibraryInv'
<1> SUFFICES ASSUME LibraryInv, [Library!Next]_libraryVars PROVE LibraryInv'
  OBVIOUS
<1> USE DEF LibraryInv
<1>a. ASSUME NEW r \in Requests, NEW l, NEW j, Library!Begin(r, l, j)
             \/ Library!Continue(r, l, j),
             FileJobFits(l, j)'
      PROVE  Slots' /\ FileJobs' /\ NobodyFiles'
  <2>1. Slots' /\ pc'[r] = l /\ job'[r] = j /\ \A q \in Requests : q = r
    BY <1>a DEF Slots, Library!Begin, Library!Continue, OneAtATime
  <2>2. FileJobFits(pc[r], job[r])'
    BY <1>a, <2>1 DEF FileJobFits
  <2>3. FileJobs'
    BY <2>1, <2>2 DEF FileJobs
  <2> QED
    BY <2>1, <2>3 DEF NobodyFiles
<1>b. ASSUME NEW r \in Requests, Library!Finish(r), Filed' \ tornFiles' = stored' \ tornFiles'
      PROVE  Slots' /\ FileJobs' /\ NobodyFiles'
  <2>1. Slots' /\ pc'[r] = "idle" /\ \A q \in Requests : q = r
    BY <1>b DEF Slots, Library!Finish, OneAtATime
  <2>2. FileJobFits(pc[r], job[r])'
    BY <1>b, <2>1 DEF FileJobFits
  <2>3. FileJobs'
    BY <2>1, <2>2 DEF FileJobs
  <2> QED
    BY <2>1, <2>3 DEF NobodyFiles
<1>c. ASSUME NEW r \in Requests, Library!AtOnce(r), Filed' = Filed, UNCHANGED <<stored,
             tornFiles>>
      PROVE  Slots' /\ FileJobs' /\ NobodyFiles'
  BY <1>c DEF Slots, FileJobs, FileJobFits, NobodyFiles, Library!AtOnce, OneAtATime
<1>d. ASSUME UNCHANGED assets
      PROVE  AssetTable' /\ Filed' = Filed
  BY <1>d DEF AssetTable, Filed, AnAsset
<1>1. ASSUME NEW r \in Requests, Library!Upload(r) PROVE LibraryInv'
  <2>1. PICK j : Library!Begin(r, "store", j) /\ pc[r] = "idle" /\ UNCHANGED <<assets, stored,
          tornFiles>>
    BY <1>1 DEF Library!Upload, Library!mediaVars, Library!Begin
  <2>2. Filed \ tornFiles = stored \ tornFiles
    BY <2>1 DEF FileJobs, FileJobFits
  <2>3. FileJobFits("store", j)'
    BY <2>1, <2>2, <1>d DEF FileJobFits
  <2> QED
    BY <2>1, <2>3, <1>a, <1>d
<1>2. ASSUME NEW r \in Requests, Library!Store(r) PROVE LibraryInv'
  <2>1. PICK f : f = Library!Min(Library!FreeFiles \cup {Library!Max(Library!Files) + 1})
    OBVIOUS
  <2>2. PICK j : j = [folder |-> job[r].folder, private |-> job[r].private, file |-> f]
    OBVIOUS
  <2>3. /\ pc[r] = "store" /\ f \in Library!Files /\ stored' = stored \cup {f}
        /\ Library!Continue(r, "insert", j) /\ UNCHANGED <<assets, tornFiles>>
    BY <1>2, <2>1, <2>2 DEF Library!Store
  <2>4. f \in Library!FreeFiles
    <3>1. Library!FreeFiles \in SUBSET AssetIds
      BY DEF Library!FreeFiles, Library!Files
    <3> QED
      BY <2>1, <2>3, <3>1, NextOneIsFree DEF Library!Files
  <2>5. f \notin Filed /\ f \notin stored /\ j.file = f
    BY <2>2, <2>4 DEF Library!FreeFiles, Filed
  <2>6. Filed \ tornFiles = stored \ tornFiles
    BY <2>3 DEF FileJobs, FileJobFits
  <2>7. FileJobFits("insert", j)'
    BY <2>3, <2>5, <2>6, <1>d DEF FileJobFits
  <2> QED
    BY <2>3, <2>7, <1>a, <1>d
<1>3. ASSUME NEW r \in Requests, Library!InsertAsset(r) PROVE LibraryInv'
  <2>1. PICK i : i = Library!Min(Library!FreeAssets \cup {Library!Max(AssetIds) + 1})
    OBVIOUS
  <2>2. PICK j : j = job[r]
    OBVIOUS
  <2>3. PICK x : x = [file |-> j.file, folder |-> j.folder, archived |-> FALSE,
                      private |-> j.private]
    OBVIOUS
  <2>4. /\ pc[r] = "insert" /\ i \in AssetIds /\ Library!Finish(r)
        /\ UNCHANGED <<stored, tornFiles>>
        /\ assets' = [k \in DOMAIN assets \cup {i} |-> IF k # i THEN assets[k] ELSE x]
    BY <1>3, <2>1, <2>2, <2>3 DEF Library!InsertAsset
  <2>5. i \notin DOMAIN assets
    <3>1. Library!FreeAssets \in SUBSET AssetIds
      BY DEF Library!FreeAssets
    <3>2. i \in Library!FreeAssets
      BY <2>1, <2>4, <3>1, NextOneIsFree
    <3> QED
      BY <3>2 DEF Library!FreeAssets
  <2>6. x.file \notin Filed /\ (Filed \cup {x.file}) \ tornFiles =
          stored \ tornFiles /\ AnAsset(x)
    BY <2>2, <2>3, <2>4 DEF FileJobs, FileJobFits, AnAsset
  <2>7. /\ DOMAIN assets' = DOMAIN assets \cup {i} /\ assets'[i] = x
        /\ assets' = [k \in DOMAIN assets' |-> assets'[k]]
        /\ \A k \in DOMAIN assets : assets'[k] = assets[k]
    BY <2>4, <2>5
  <2>8. Filed' = Filed \cup {x.file}
    BY <2>7 DEF Filed
  <2>9. AssetTable'
    BY <2>6, <2>7 DEF AssetTable, Filed, AnAsset
  <2> QED
    BY <2>4, <2>6, <2>8, <2>9, <1>b
<1>4. ASSUME NEW r \in Requests, Library!Destroy(r) PROVE LibraryInv'
  <2>1. PICK j : j = job[r]
    OBVIOUS
  <2>2. /\ pc[r] = "destroy" /\ stored' = stored \ {j.file} /\ Library!Continue(r, "delete", j)
        /\ UNCHANGED <<assets, tornFiles>>
    BY <1>4, <2>1 DEF Library!Destroy
  <2>3. /\ Filed \ tornFiles = stored \ tornFiles
        /\ j.id \in DOMAIN assets /\ assets[j.id].file = j.file
    BY <2>1, <2>2 DEF FileJobs, FileJobFits
  <2>4. FileJobFits("delete", j)'
    BY <2>2, <2>3, <1>d DEF FileJobFits
  <2> QED
    BY <2>2, <2>4, <1>a, <1>d
<1>5. ASSUME NEW r \in Requests, Library!DeleteAsset(r) PROVE LibraryInv'
  <2>1. PICK j : j = job[r]
    OBVIOUS
  <2>2. /\ pc[r] = "delete" /\ assets' = [k \in DOMAIN assets \ {j.id} |-> assets[k]]
        /\ Library!Finish(r) /\ UNCHANGED <<stored, tornFiles>>
    BY <1>5, <2>1 DEF Library!DeleteAsset, Library!Without
  <2>3. /\ (Filed \ {j.file}) \ tornFiles = stored \ tornFiles
        /\ j.id \in DOMAIN assets /\ assets[j.id].file = j.file
    BY <2>1, <2>2 DEF FileJobs, FileJobFits
  <2>4. Filed' = Filed \ {j.file}
    <3>1. \A k \in DOMAIN assets : assets[k].file = j.file <=> k = j.id
      BY <2>3 DEF AssetTable
    <3>2. DOMAIN assets' = DOMAIN assets \ {j.id} /\ \A k \in DOMAIN assets' :
            assets'[k] = assets[k]
      BY <2>2
    <3>3. Filed' = {assets[k].file : k \in DOMAIN assets \ {j.id}}
      BY <3>2 DEF Filed
    <3> QED
      BY <3>1, <3>3 DEF Filed
  <2>5. AssetTable'
    BY <2>2 DEF AssetTable, AnAsset
  <2> QED
    BY <2>2, <2>3, <2>4, <2>5, <1>b
<1>6. ASSUME NEW r \in Requests, Library!SaveAsset(r) PROVE LibraryInv'
  <2>1. PICK j : j = job[r]
    OBVIOUS
  <2>2. PICK i, x : i = j.id /\ x = j.row
    OBVIOUS
  <2>3. /\ pc[r] = "save" /\ Library!Finish(r) /\ UNCHANGED <<stored, tornFiles>>
        /\ assets' = [k \in DOMAIN assets \cup {i} |-> IF k = i THEN x ELSE assets[k]]
    BY <1>6, <2>1, <2>2 DEF Library!SaveAsset
  <2>4. /\ Filed \ tornFiles = stored \ tornFiles
        /\ i \in DOMAIN assets /\ AnAsset(x) /\ x.file = assets[i].file
    BY <2>1, <2>2, <2>3 DEF FileJobs, FileJobFits
  <2>5. /\ DOMAIN assets' = DOMAIN assets /\ assets'[i] = x
        /\ assets' = [k \in DOMAIN assets' |-> assets'[k]]
        /\ \A k \in DOMAIN assets : k # i => assets'[k] = assets[k]
    BY <2>3, <2>4
  <2>6. \A k \in DOMAIN assets : assets'[k].file = assets[k].file
    BY <2>4, <2>5
  <2>7. Filed' = Filed
    BY <2>5, <2>6 DEF Filed
  <2>8. AssetTable'
    BY <2>4, <2>5, <2>6 DEF AssetTable, AnAsset
  <2> QED
    BY <2>3, <2>4, <2>7, <2>8, <1>b
<1>7. ASSUME NEW r \in Requests, NEW i \in DOMAIN assets, Library!RemoveAsset(r, i)
      PROVE LibraryInv'
  <2>1. PICK j : j = [id |-> i, file |-> assets[i].file]
    OBVIOUS
  <2>2. Library!Begin(r, "destroy", j) /\ pc[r] = "idle" /\ UNCHANGED <<assets, stored,
          tornFiles>>
    BY <1>7, <2>1 DEF Library!RemoveAsset, Library!mediaVars, Library!Begin
  <2>3. Filed \ tornFiles = stored \ tornFiles
    BY <2>2 DEF FileJobs, FileJobFits
  <2>4. FileJobFits("destroy", j)'
    BY <2>1, <2>2, <2>3, <1>d DEF FileJobFits
  <2> QED
    BY <2>2, <2>4, <1>a, <1>d
<1>8. ASSUME NEW r \in Requests, NEW i \in DOMAIN assets, Library!EditAsset(r, i)
      PROVE LibraryInv'
  <2>1. PICK row : row = assets[i]
    OBVIOUS
  <2>2. PICK archived :
          /\ Library!Begin(r, "save", [id |-> i, row |-> [row EXCEPT !.archived = archived]])
          /\ UNCHANGED Library!mediaVars
    BY <1>8, <2>1 DEF Library!EditAsset
  <2>3. PICK x : x = [row EXCEPT !.archived = archived]
    OBVIOUS
  <2>4. PICK j : j = [id |-> i, row |-> x]
    OBVIOUS
  <2>5. Library!Begin(r, "save", j) /\ pc[r] = "idle" /\ UNCHANGED <<assets, stored, tornFiles>>
    BY <2>2, <2>3, <2>4 DEF Library!mediaVars, Library!Begin
  <2>6. AnAsset(x) /\ x.file = row.file
    <3>1. AnAsset(row)
      BY <2>1 DEF AssetTable
    <3> QED
      BY <2>3, <3>1 DEF AnAsset
  <2>7. Filed \ tornFiles = stored \ tornFiles
    BY <2>5 DEF FileJobs, FileJobFits
  <2>8. j.id = i /\ j.row = x
    BY <2>4
  <2>9. FileJobFits("save", j)'
    BY <2>1, <2>5, <2>6, <2>7, <2>8, <1>d DEF FileJobFits, AnAsset
  <2> QED
    BY <2>5, <2>9, <1>a, <1>d
<1>9. ASSUME NEW r \in Requests, NEW i, NEW f, Library!Attach(r, i) \/ Library!Detach(r, i)
             \/ Library!SaveFolder(r, i, f)
      PROVE  LibraryInv'
  <2>1. Library!AtOnce(r) /\ UNCHANGED <<assets, stored, tornFiles>>
    BY <1>9 DEF Library!Attach, Library!Detach, Library!SaveFolder
  <2> QED
    BY <2>1, <1>c, <1>d
<1>10. ASSUME NEW r \in Requests, NEW i \in DOMAIN folders, Library!RemoveFolder(r, i)
       PROVE LibraryInv'
  <2>1. /\ Library!AtOnce(r) /\ UNCHANGED <<stored, tornFiles>>
        /\ assets' = [k \in DOMAIN assets |-> IF assets[k].folder =
               i THEN [assets[k] EXCEPT !.folder = 0]
                                              ELSE assets[k]]
    BY <1>10 DEF Library!RemoveFolder
  <2>2. DOMAIN assets' = DOMAIN assets /\ assets' = [k \in DOMAIN assets' |-> assets'[k]]
    BY <2>1
  <2>3. ASSUME NEW k \in DOMAIN assets
        PROVE  AnAsset(assets'[k]) /\ assets'[k].file = assets[k].file
    <3>1. PICK x, y : x = assets[k] /\ y = [x EXCEPT !.folder = 0]
      OBVIOUS
    <3>2. AnAsset(x)
      BY <3>1 DEF AssetTable
    <3>3. AnAsset(y) /\ y.file = x.file
      BY <3>1, <3>2 DEF AnAsset
    <3>4. assets'[k] \in {x, y}
      BY <2>1, <3>1
    <3> QED
      BY <3>1, <3>2, <3>3, <3>4
  <2>4. Filed' = Filed
    BY <2>2, <2>3 DEF Filed
  <2>5. AssetTable'
    BY <2>2, <2>3 DEF AssetTable, AnAsset
  <2> QED
    BY <2>1, <2>4, <2>5, <1>c
<1>11. ASSUME NEW r \in Requests, Library!Abandon(r) PROVE LibraryInv'
  <2>1. PICK l, j : l = pc[r] /\ j = job[r]
    OBVIOUS
  <2>2. /\ Library!Finish(r) /\ UNCHANGED <<assets, stored>>
        /\ tornFiles' = IF l \in {"insert", "delete"} THEN tornFiles \cup {j.file} ELSE tornFiles
    BY <1>11, <2>1 DEF Library!Abandon, Library!GiveUp
  <2>3. FileJobFits(l, j)
    BY <2>1 DEF FileJobs
  <2>4. Filed' \ tornFiles' = stored' \ tornFiles'
    <3>1. CASE l = "insert"
      BY <2>2, <2>3, <3>1, <1>d DEF FileJobFits
    <3>2. CASE l = "delete"
      BY <2>2, <2>3, <3>2, <1>d DEF FileJobFits
    <3>3. CASE l \notin {"insert", "delete"}
      BY <2>2, <2>3, <3>3, <1>d DEF FileJobFits
    <3> QED
      BY <3>1, <3>2, <3>3
  <2> QED
    BY <2>2, <2>4, <1>b, <1>d
<1>12. CASE UNCHANGED libraryVars
  <2>1. UNCHANGED <<pc, job, assets, stored, tornFiles>>
    BY <1>12 DEF libraryVars, Library!mediaVars, Library!handling
  <2>2. ASSUME NEW r \in Requests PROVE FileJobFits(pc[r], job[r])'
    <3>1. FileJobFits(pc[r], job[r])
      BY DEF FileJobs
    <3>2. PICK l, j : l = pc[r] /\ j = job[r] /\ l = pc'[r] /\ j = job'[r]
      BY <2>1
    <3> QED
      BY <2>1, <3>1, <3>2, <1>d DEF FileJobFits, AnAsset
  <2> QED
    BY <2>1, <2>2, <1>d DEF Slots, FileJobs, NobodyFiles
<1> QED
  BY <1>1, <1>2, <1>3, <1>4, <1>5, <1>6, <1>7, <1>8, <1>9, <1>10, <1>11, <1>12 DEF Library!Next

\* While handlers do not overlap, the library lists the files there are, each once, but for those
\* with a handler that ended between Cloudinary and the row: an upload takes a name no file has,
\* and a removal deletes the row of the file that it destroyed.
THEOREM LibraryListsFiles ==
  ASSUME OneAtATime, IsFiniteSet(AssetIds), AssetIds \subseteq Nat
  PROVE  LibrarySpec => []Library!LibraryMatchesStore
<1>1. LibraryInv => Library!LibraryMatchesStore
  BY DEF LibraryInv, AssetTable, FileJobs, FileJobFits, NobodyFiles, Filed,
     Library!LibraryMatchesStore
<1>2. LibrarySpec => []LibraryInv
  BY LibraryBegins, LibraryNext, PTL DEF LibrarySpec
<1> QED
  BY <1>1, <1>2, PTL
=============================================================================

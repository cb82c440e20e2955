------------------------------- MODULE Pages -------------------------------
(***************************************************************************)
(* PagesService: the static pages.  A slug is a name behind some number of *)
(* "info/"; the address without any is the old form, which rows may still  *)
(* have and which is looked up too.  Texts and order are left out.         *)
(***************************************************************************)
EXTENDS Handlers, FiniteSetsExt

CONSTANTS
  PageIds,     \* bound: the pages there can be
  PageNames

VARIABLE pages   \* trang_noi_dung by id

Slug == [name : PageNames, depth : 0..2]
Page == [slug : Slug, published : BOOLEAN]

PagesInit ==
  pages \in {<<>>} \cup [{1} -> {p \in Page : p.slug.depth = 0 /\ p.published}]

\* One "info/" is taken off, and one put before.
normalizeStaticPageSlug(s) == [s EXCEPT !.depth = Max({@ - 1, 0}) + 1]

getStaticPageSlugCandidates(s) ==
  LET n == normalizeStaticPageSlug(s) IN {n, [n EXCEPT !.depth = @ - 1]}

\* Mutant of findSlugConflict: rows of the old form are overlooked.
findSlugConflictAsWritten(s, i) == \E k \in DOMAIN pages \ {i} : pages[k].slug = normalizeStaticPageSlug(s)

findSlugConflict(s, i) == \E k \in DOMAIN pages \ {i} : pages[k].slug \in getStaticPageSlugCandidates(s)

\* The unique key of the column.
Taken(s, i) == \E k \in DOMAIN pages \ {i} : pages[k].slug = s

FreeIds == PageIds \ DOMAIN pages

\* create: the check ...
CreatePage(r) ==
  \E s \in Slug, published \in BOOLEAN :
    /\ FreeIds # {} /\ ~findSlugConflict(s, 0)
    /\ Begin(r, "insert", [slug |-> normalizeStaticPageSlug(s), published |-> published])
    /\ UNCHANGED pages

\* ... and the INSERT.
InsertPage(r) ==
  LET i == Min(FreeIds \cup {Max(PageIds) + 1}) IN
  /\ pc[r] = "insert" /\ i \in PageIds /\ ~Taken(job[r].slug, 0) /\ Finish(r)
  /\ pages' = [k \in DOMAIN pages \cup {i} |-> IF k = i THEN job[r] ELSE pages[k]]

\* update, of the slug, the state or both: the check, of a slug that is another ...
UpdatePage(r, i) ==
  \E published \in BOOLEAN, S \in {{}} \cup {{s} : s \in Slug} :
    /\ \A s \in S : normalizeStaticPageSlug(s) # pages[i].slug => ~findSlugConflict(s, i)
    /\ Begin(r, "update", [id |-> i, slug |-> {normalizeStaticPageSlug(s) : s \in S}, published |-> published])
    /\ UNCHANGED pages

\* ... and the UPDATE.
SavePage(r) ==
  LET i == job[r].id IN
  /\ pc[r] = "update" /\ \A s \in job[r].slug : i \in DOMAIN pages => ~Taken(s, i)
  /\ Finish(r)
  /\ pages' = [k \in DOMAIN pages |->
       IF k # i THEN pages[k]
       ELSE [slug |-> IF job[r].slug = {} THEN pages[k].slug ELSE CHOOSE s \in job[r].slug : TRUE,
             published |-> job[r].published]]

RemovePage(r, i) == AtOnce(r) /\ pages' = [k \in DOMAIN pages \ {i} |-> pages[k]]

Abandon(r) == GiveUp(r) /\ UNCHANGED pages

Next == \E r \in Requests :
  \/ CreatePage(r) \/ InsertPage(r) \/ SavePage(r) \/ Abandon(r)
  \/ \E i \in DOMAIN pages : UpdatePage(r, i) \/ RemovePage(r, i)

-----------------------------------------------------------------------------
TypeOK ==
  /\ DOMAIN pages \subseteq PageIds /\ \A i \in DOMAIN pages : pages[i] \in Page
  /\ \A i, k \in DOMAIN pages : i # k => pages[i].slug # pages[k].slug

\* findBySlugPublic: the pages that may answer an address.
Answering(s) == {i \in DOMAIN pages : pages[i].published /\ pages[i].slug \in getStaticPageSlugCandidates(s)}

\* However handlers overlap, an address of the old or the new form is answered by one page,
\* and the two forms of a name by the same.
AddressAnswersOne ==
  \A n \in PageNames, d, e \in 0..1 :
    \A i \in Answering([name |-> n, depth |-> d]), k \in Answering([name |-> n, depth |-> e]) : i = k
=============================================================================

---------------------------- MODULE HomeSections ----------------------------
(***************************************************************************)
(* HomepageService: the sections of the home page, with the variants that  *)
(* a manual section lists.  Other sections ask HomePreview for theirs.     *)
(* Order, titles and the window in which a section is shown are left out.  *)
(***************************************************************************)
EXTENDS Handlers, FiniteSetsExt

CONSTANTS
  SectionIds,     \* bound: the sections there can be
  ListedVariants

VARIABLES
  sections,       \* homepage_section by id
  listed,         \* homepage_section_item: the variants, by section
  enteredItems,   \* auxiliary: the variants that were last entered, or copied
  tornSections    \* auxiliary: sections with a handler that ended half way

sectionVars == <<sections, listed, enteredItems, tornSections>>

Section == [type : {"manual", "computed"}, visible : BOOLEAN]

SectionsInit ==
  /\ sections \in [{1} -> Section] /\ listed \in [{1} -> SUBSET ListedVariants]
  /\ enteredItems = listed /\ tornSections = {}

FreeIds == SectionIds \ DOMAIN sections
Put(f, i, x) == [k \in DOMAIN f \cup {i} |-> IF k = i THEN x ELSE f[k]]
Drop(f, i) == [k \in DOMAIN f \ {i} |-> f[k]]

\* create, and what clone does after its reads: the section ...
InsertSection(i, row, items) ==
  /\ sections' = Put(sections, i, row) /\ listed' = Put(listed, i, {})
  /\ enteredItems' = Put(enteredItems, i, items) /\ UNCHANGED tornSections

CreateSection(r) ==
  \E row \in Section, items \in SUBSET ListedVariants :
    LET i == Min(FreeIds) IN
    /\ FreeIds # {} /\ InsertSection(i, row, items)
    /\ IF items = {} THEN AtOnce(r) ELSE Begin(r, "insert items", [section |-> i, items |-> items])

\* ... and its items, which need the section.
InsertItems(r) ==
  LET i == job[r].section IN
  /\ pc[r] = "insert items" /\ i \in DOMAIN sections
  /\ listed' = [listed EXCEPT ![i] = @ \cup job[r].items] /\ Finish(r)
  /\ UNCHANGED <<sections, enteredItems, tornSections>>

\* What the section lists once its type and its items are updated, where given.
ItemsToBe(i, type, given) ==
  IF type = "computed" THEN {{}} ELSE given

\* update: the columns ...
UpdateSection(r, i) ==
  \E type \in {"manual", "computed", "left out"}, visible \in BOOLEAN,
     given \in {{}} \cup {{items} : items \in SUBSET ListedVariants} :
    /\ sections' = [sections EXCEPT ![i] =
         [type |-> IF type = "left out" THEN @.type ELSE type, visible |-> visible]]
    /\ LET next == ItemsToBe(i, type, given) IN
       IF next = {} THEN AtOnce(r)
       ELSE Begin(r, "delete items", [section |-> i, items |-> UNION next])
    /\ enteredItems' = [enteredItems EXCEPT ![i] =
         IF type = "computed" THEN {} ELSE IF given = {} THEN @ ELSE UNION given]
    /\ UNCHANGED <<listed, tornSections>>

\* ... the DELETE of the items, and the INSERT.
DeleteItems(r) ==
  LET i == job[r].section IN
  /\ pc[r] = "delete items"
  /\ listed' = [k \in DOMAIN listed |-> IF k = i THEN {} ELSE listed[k]]
  /\ IF job[r].items = {} THEN Finish(r) ELSE Continue(r, "insert items", job[r])
  /\ UNCHANGED <<sections, enteredItems, tornSections>>

RemoveSection(r, i) ==
  /\ AtOnce(r) /\ sections' = Drop(sections, i) /\ listed' = Drop(listed, i)
  /\ enteredItems' = Drop(enteredItems, i) /\ tornSections' = tornSections \ {i}

\* clone: the section and its items are read ...
CloneSection(r, i) ==
  /\ FreeIds # {} /\ Begin(r, "insert copy", [of |-> i, type |-> sections[i].type, items |-> listed[i]])
  /\ UNCHANGED sectionVars

\* The items that a copy gets.
CopiedItems(j) == IF j.type = "manual" THEN j.items ELSE {}

\* ... and the copy inserted, hidden.
InsertCopy(r) ==
  LET i == Min(FreeIds \cup {Max(SectionIds) + 1})  items == CopiedItems(job[r]) IN
  /\ pc[r] = "insert copy" /\ i \in SectionIds
  /\ InsertSection(i, [type |-> job[r].type, visible |-> FALSE], items)
  /\ IF items = {} THEN Finish(r) ELSE Continue(r, "insert items", [section |-> i, items |-> items])

Abandon(r) ==
  /\ GiveUp(r)
  /\ tornSections' = IF pc[r] = "insert copy" THEN tornSections ELSE tornSections \cup {job[r].section}
  /\ UNCHANGED <<sections, listed, enteredItems>>

Next == \E r \in Requests :
  \/ CreateSection(r) \/ InsertItems(r) \/ DeleteItems(r) \/ InsertCopy(r) \/ Abandon(r)
  \/ \E i \in DOMAIN sections : UpdateSection(r, i) \/ RemoveSection(r, i) \/ CloneSection(r, i)

-----------------------------------------------------------------------------
TypeOK ==
  /\ DOMAIN sections \subseteq SectionIds /\ DOMAIN listed = DOMAIN sections
  /\ \A i \in DOMAIN sections : sections[i] \in Section /\ listed[i] \subseteq ListedVariants

\* getHomepageSections: what customers see, and from where.
HomePage ==
  [i \in {k \in DOMAIN sections : sections[k].visible} |->
     IF sections[i].type = "manual" THEN [type |-> "manual", items |-> listed[i]]
     ELSE [type |-> "computed", items |-> {}]]

\* While handlers do not overlap, a section lists what was entered for it or copied, unless
\* a handler ended half way; one that was switched away from manual lists nothing.
ItemsAsEntered ==
  (\A r \in Requests : pc[r] = "idle") =>
    \A i \in DOMAIN sections \ tornSections : listed[i] = enteredItems[i]

\* Whatever else is under way, the copy of a section changes nothing that customers see.
CopyIsHidden ==
  \A r \in Requests : pc[r] = "insert copy" /\ job'[r] # job[r] => HomePage' = HomePage
=============================================================================

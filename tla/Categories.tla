----------------------------- MODULE Categories -----------------------------
(***************************************************************************)
(* The tree of categories, as CategoriesService keeps it.  update saves    *)
(* the row it loaded together with its children: children that came or     *)
(* went in between are taken back or dropped.  Slugs, unique in the        *)
(* database too, and the order among siblings are left out.                *)
(***************************************************************************)
EXTENDS Handlers, FiniteSets

CONSTANTS
  Ids,     \* bound: the categories there can be
  Filed    \* categories of products, which the foreign key of the products keeps

VARIABLES
  categories,   \* danh_muc by id
  nextCategory,
  moved         \* auxiliary: an update was asked to give a category another parent

categoryVars == <<categories, nextCategory, moved>>

NoParent == 0
Category ==
  [parent : Ids \cup {NoParent}, level : Nat, node : {"category", "label"}, isRoot : BOOLEAN]

There == DOMAIN categories
ParentOf(c) == IF c \in There THEN categories[c].parent ELSE NoParent
ChildrenOf(c) == {k \in There : categories[k].parent = c}

CategoriesInit ==
  /\ categories = [c \in 1..1 |-> [parent |-> NoParent, level |-> 0, node |-> "category", isRoot |-> FALSE]]
  /\ nextCategory = 2 /\ moved = FALSE

-----------------------------------------------------------------------------
(* Where the one category of a branch that products are compared in may be *)

\* c and what is above it, as the walk with its set of visited nodes meets them.
Above(c) ==
  LET up[n \in Nat, k \in Ids \cup {NoParent}] ==
        IF n = 0 \/ k \notin There THEN {} ELSE {k} \cup up[n - 1, ParentOf(k)]
  IN up[Cardinality(Ids), c]

Below(c) == {k \in There : ParentOf(k) \in There /\ c \in Above(ParentOf(k))}

NoFlagOnAncestors(c) == \A k \in Above(c) : ~categories[k].isRoot

NoFlagOnDescendants(c) == \A k \in Below(c) : ~categories[k].isRoot

\* The walk down keeps no set of visited nodes: over a cycle without a flag it never ends.
WalkEnds(c) == c \notin Below(c)

-----------------------------------------------------------------------------
\* create, up to the insert.
Create(r) ==
  /\ nextCategory \in Ids
  /\ \E p \in There \cup {NoParent}, node \in {"category", "label"}, isRoot \in BOOLEAN :
       /\ isRoot => node = "category" /\ NoFlagOnAncestors(p)
       /\ Begin(r, "insert",
            [row |-> [parent |-> p, node |-> node, isRoot |-> isRoot,
                      level |-> IF p = NoParent THEN 0 ELSE categories[p].level + 1]])
  /\ UNCHANGED categoryVars

\* The foreign key refuses a parent that is gone by now.
Insert(r) ==
  LET row == job[r].row IN
  /\ pc[r] = "insert" /\ Finish(r) /\ UNCHANGED moved
  /\ IF row.parent \in There \cup {NoParent} /\ nextCategory \in Ids
     THEN /\ categories' = [c \in There \cup {nextCategory} |->
                              IF c = nextCategory THEN row ELSE categories[c]]
          /\ nextCategory' = nextCategory + 1
     ELSE UNCHANGED <<categories, nextCategory>>

\* The parent that save() writes: findOne has loaded the parent, if there is one, and the
\* loaded entity may win over a danhMucChaId that was assigned next to it.
ParentsToSave(c, wanted) ==
  IF categories[c].parent = NoParent THEN {wanted} ELSE {wanted, categories[c].parent}

\* update, up to the save; what the request leaves out is as it was read.  The checks see
\* the parent that was asked for.
Update(r, c) ==
  /\ \E wanted \in (There \cup {NoParent}) \ {c}, node \in {"category", "label"}, isRoot \in BOOLEAN :
       /\ isRoot /\ ~categories[c].isRoot
            => /\ node = "category" /\ WalkEnds(c)
               /\ NoFlagOnAncestors(wanted) /\ NoFlagOnDescendants(c)
       /\ \E p \in ParentsToSave(c, wanted) :
            Begin(r, "save",
              [category |-> c, children |-> ChildrenOf(c), moves |-> wanted # categories[c].parent,
               row |-> [categories[c] EXCEPT !.parent = p, !.node = node, !.isRoot = isRoot]])
  /\ UNCHANGED categoryVars

\* save(): the row, and the parent of each child that was loaded or has come since.
Save(r) ==
  LET c == job[r].category
      rows == [k \in There \cup {c} |-> IF k = c THEN job[r].row ELSE categories[k]] IN
  /\ pc[r] = "save" /\ Finish(r) /\ UNCHANGED nextCategory
  /\ IF job[r].row.parent \in DOMAIN rows \cup {NoParent}
     THEN /\ categories' = [k \in DOMAIN rows |->
                IF k \in job[r].children \ {c} THEN [rows[k] EXCEPT !.parent = c]
                ELSE IF k # c /\ rows[k].parent = c THEN [rows[k] EXCEPT !.parent = NoParent]
                ELSE rows[k]]
          /\ moved' = (moved \/ job[r].moves)
     ELSE UNCHANGED <<categories, moved>>

Childless(c) == ChildrenOf(c) = {}

\* remove, up to the DELETE.
Remove(r, c) ==
  /\ Childless(c) /\ Begin(r, "delete", [category |-> c]) /\ UNCHANGED categoryVars

\* The foreign key of the products refuses; that of the children sets their parent to NULL.
Delete(r) ==
  LET c == job[r].category IN
  /\ pc[r] = "delete" /\ Finish(r) /\ UNCHANGED <<nextCategory, moved>>
  /\ categories' = IF c \in Filed THEN categories
                   ELSE [k \in There \ {c} |->
                           IF categories[k].parent = c
                           THEN [categories[k] EXCEPT !.parent = NoParent] ELSE categories[k]]

Abandon(r) == GiveUp(r) /\ UNCHANGED categoryVars

Next == \E r \in Requests :
  \/ Create(r) \/ Insert(r) \/ Save(r) \/ Delete(r) \/ Abandon(r)
  \/ \E c \in There : Update(r, c) \/ Remove(r, c)

-----------------------------------------------------------------------------
TypeOK ==
  /\ There \subseteq Ids /\ nextCategory \in Nat /\ moved \in BOOLEAN
  /\ \A c \in There : categories[c] \in Category

\* While handlers do not overlap and nobody moves a category, every branch has at most one
\* category that products are compared in.
OneRootEachBranch ==
  ~moved => \A c \in There :
    categories[c].isRoot => \A k \in Above(ParentOf(c)) : ~categories[k].isRoot

\* Under the same conditions, the level of a category is the number of those above it.
LevelsFit ==
  ~moved => \A c \in There : categories[c].level = Cardinality(Above(ParentOf(c)))

\* While handlers do not overlap, only an update of a category itself gives it another parent.
RemovalKeepsPlaces ==
  (\E c \in There \cap DOMAIN categories' : categories'[c].parent # categories[c].parent)
    => moved'
=============================================================================

------------------------------- MODULE Menus -------------------------------
(***************************************************************************)
(* MenuService: the items of the menus, a tree by parent_id.  Labels and   *)
(* order are left out.  The parent of an item need not be of its menu, and *)
(* nothing keeps an item from becoming its own ancestor.                   *)
(***************************************************************************)
EXTENDS Handlers, FiniteSetsExt

CONSTANTS
  ItemIds,       \* bound: the items there can be
  MenuIds,
  FooterMenus,   \* those at one of FOOTER_MENU_POSITIONS
  ItemLimit      \* FOOTER_MENU_ITEM_LIMIT

VARIABLES
  menuItems,     \* menu_item by id; the parent 0 is none
  ringed         \* auxiliary: a request has put an item below itself

menuVars == <<menuItems, ringed>>

MenuItem == [menu : MenuIds, parent : ItemIds \cup {0}, visible : BOOLEAN]

MenusInit == menuItems = <<>> /\ ringed = FALSE

OfMenu(m) == {i \in DOMAIN menuItems : menuItems[i].menu = m}
FreeIds == ItemIds \ DOMAIN menuItems

\* i and what is above it, in any menu.
Line[S \in SUBSET ItemIds] ==
  LET up == {menuItems[i].parent : i \in S} \ {0} IN IF up \subseteq S THEN S ELSE Line[S \cup up]

\* addItem: the count ...
AddItem(r) ==
  \E row \in MenuItem :
    /\ FreeIds # {} /\ (row.menu \in FooterMenus => Cardinality(OfMenu(row.menu)) < ItemLimit)
    /\ row.parent \in DOMAIN menuItems \cup {0}
    /\ Begin(r, "insert", row) /\ UNCHANGED menuVars

\* ... and the INSERT, which needs the parent.
InsertItem(r) ==
  LET i == Min(FreeIds \cup {Max(ItemIds) + 1}) IN
  /\ pc[r] = "insert" /\ i \in ItemIds /\ job[r].parent \in DOMAIN menuItems \cup {0} /\ Finish(r)
  /\ menuItems' = [k \in DOMAIN menuItems \cup {i} |-> IF k = i THEN job[r] ELSE menuItems[k]]
  /\ UNCHANGED ringed

\* updateItem: the UPDATE of what is given.
UpdateItem(r, i) ==
  \E parent \in DOMAIN menuItems \cup {0}, visible \in BOOLEAN :
    /\ AtOnce(r)
    /\ menuItems' = [menuItems EXCEPT ![i] = [@ EXCEPT !.parent = parent, !.visible = visible]]
    /\ ringed' = (ringed \/ (parent # 0 /\ i \in Line[{parent}]))

\* removeItem; the key of parent_id refuses while there are items below.
RemoveItem(r, i) ==
  /\ AtOnce(r) /\ \A k \in DOMAIN menuItems : menuItems[k].parent # i
  /\ menuItems' = [k \in DOMAIN menuItems \ {i} |-> menuItems[k]] /\ UNCHANGED ringed

Abandon(r) == GiveUp(r) /\ UNCHANGED menuVars

Next == \E r \in Requests :
  \/ AddItem(r) \/ InsertItem(r) \/ Abandon(r)
  \/ \E i \in DOMAIN menuItems : UpdateItem(r, i) \/ RemoveItem(r, i)

-----------------------------------------------------------------------------
TypeOK ==
  /\ DOMAIN menuItems \subseteq ItemIds
  /\ \A i \in DOMAIN menuItems :
       menuItems[i] \in MenuItem /\ menuItems[i].parent \in DOMAIN menuItems \cup {0}

\* buildTree: the items of S whose parent is not in S are the roots, and what hangs below
\* a root is listed.
Roots(S) == {i \in S : menuItems[i].parent \notin S}
Listed[S \in SUBSET ItemIds, T \in SUBSET ItemIds] ==
  LET down == {i \in S : menuItems[i].parent \in T} IN
  IF down \subseteq T THEN T ELSE Listed[S, T \cup down]
buildTree(S) == Listed[S, Roots(S)]

\* While handlers do not overlap, the columns of the footer keep to their limit.
FooterFits == \A m \in FooterMenus : Cardinality(OfMenu(m)) <= ItemLimit

\* Every item of a menu is listed to employees, and every visible one to customers, also
\* where its parent is hidden or of another menu, until an item is put below itself.
EveryItemIsListed ==
  ~ringed => \A m \in MenuIds :
    \A S \in {OfMenu(m), {i \in OfMenu(m) : menuItems[i].visible}} : buildTree(S) = S
=============================================================================

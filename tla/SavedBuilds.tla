----------------------------- MODULE SavedBuilds -----------------------------
(***************************************************************************)
(* SavedBuildsService and CommunityBuildsService: the builds that          *)
(* customers save, show to others and clone.  A build and its parts are    *)
(* written by separate statements.                                         *)
(***************************************************************************)
EXTENDS Handlers, FiniteSets

CONSTANTS
  Customers,
  Parts,        \* variants
  BuildIds,     \* bound: the builds there can be
  MaxBuilds     \* MAX_BUILDS_PER_CUSTOMER

VARIABLES
  builds,      \* buildpc_da_luu by id
  details,     \* buildpc_chi_tiet: the parts by build
  nextBuild,
  counted,     \* community_view in Redis: pairs of a visitor and a build
  entered,     \* auxiliary: the parts that the request of the build, or its source, has
  torn         \* auxiliary: builds with a handler that ended half way

buildVars == <<builds, details, nextBuild, counted, entered, torn>>

SavedBuild ==
  [owner : Customers, isPublic : BOOLEAN, views : Nat, clones : Nat]

There == DOMAIN builds
With(f, k, x) == [j \in DOMAIN f \cup {k} |-> IF j = k THEN x ELSE f[j]]

BuildsInit ==
  /\ builds = [b \in {} |-> 0] /\ details = [b \in {} |-> {}] /\ nextBuild = 1
  /\ counted = {} /\ entered = [b \in {} |-> {}] /\ torn = {}

OwnedBy(c) == {b \in There : builds[b].owner = c}

Room(c) == Cardinality(OwnedBy(c)) < MaxBuilds

-----------------------------------------------------------------------------
(* create: the count, the build, its parts *)

Create(r, c) ==
  /\ Room(c) /\ nextBuild \in BuildIds
  /\ \E parts \in SUBSET Parts, public \in BOOLEAN :
       Begin(r, "insert", [owner |-> c, public |-> public, parts |-> parts, source |-> 0])
  /\ UNCHANGED buildVars

InsertBuild(r) ==
  LET b == nextBuild IN
  /\ pc[r] = "insert" /\ nextBuild' = b + 1
  /\ builds' = With(builds, b, [owner |-> job[r].owner, isPublic |-> job[r].public,
                                views |-> 0, clones |-> 0])
  /\ details' = With(details, b, {}) /\ entered' = With(entered, b, job[r].parts)
  /\ Continue(r, "parts", [build |-> b, parts |-> job[r].parts, source |-> job[r].source])
  /\ UNCHANGED <<counted, torn>>

InsertParts(r) ==
  /\ pc[r] = "parts"
  /\ details' = [details EXCEPT ![job[r].build] = @ \cup job[r].parts]
  /\ IF job[r].source = 0 THEN Finish(r) ELSE Continue(r, "clones", job[r])
  /\ UNCHANGED <<builds, nextBuild, counted, entered, torn>>

-----------------------------------------------------------------------------
(* update, remove *)

\* What the request leaves out stays; parts are replaced only if it has some, or none at all.
Update(r, b) ==
  /\ \E public \in BOOLEAN :
       LET row == [builds[b] EXCEPT !.isPublic = public] IN
       \/ \E parts \in SUBSET Parts :
            Begin(r, "clear", [build |-> b, row |-> row, replace |-> TRUE, parts |-> parts])
       \/ Begin(r, "save", [build |-> b, row |-> row, replace |-> FALSE])
  /\ UNCHANGED buildVars

\* Mutant of Replaced: the parts of before stay next to the new ones.
ReplacedNone(f, b) == f

Replaced(f, b) == [f EXCEPT ![b] = {}]

ClearParts(r) ==
  /\ pc[r] = "clear" /\ details' = Replaced(details, job[r].build)
  /\ Continue(r, "save", job[r])
  /\ UNCHANGED <<builds, nextBuild, counted, entered, torn>>

SaveBuild(r) ==
  /\ pc[r] = "save" /\ builds' = [builds EXCEPT ![job[r].build] = job[r].row]
  /\ IF job[r].replace
     THEN /\ entered' = [entered EXCEPT ![job[r].build] = job[r].parts]
          /\ Continue(r, "parts", [build |-> job[r].build, parts |-> job[r].parts, source |-> 0])
     ELSE Finish(r) /\ UNCHANGED entered
  /\ UNCHANGED <<details, nextBuild, counted, torn>>

\* The foreign key of the parts deletes them with their build.
Remove(r, b) ==
  /\ AtOnce(r)
  /\ builds' = [k \in There \ {b} |-> builds[k]] /\ details' = [k \in There \ {b} |-> details[k]]
  /\ entered' = [k \in There \ {b} |-> entered[k]] /\ torn' = torn \ {b}
  /\ UNCHANGED <<nextBuild, counted>>

-----------------------------------------------------------------------------
(* The community *)

Community == {b \in There : builds[b].isPublic}

CloneOf(b) == [public |-> FALSE]

\* cloneToCustomer, before its first write.
Clone(r, c, b) ==
  /\ b \in Community /\ Room(c) /\ nextBuild \in BuildIds
  /\ Begin(r, "insert", [owner |-> c, public |-> CloneOf(b).public, parts |-> details[b],
                         source |-> b])
  /\ UNCHANGED buildVars

\* An increment of one column of a row that may be gone.
CountClone(r) ==
  LET b == job[r].source IN
  /\ pc[r] = "clones"
  /\ builds' = IF b \in There THEN [builds EXCEPT ![b].clones = @ + 1] ELSE builds
  /\ Finish(r) /\ UNCHANGED <<details, nextBuild, counted, entered, torn>>

\* No key community_view of the visitor and the build: kept for minutes, here for good.
NewVisit(c, b) == <<c, b>> \notin counted

\* incrementView, of a visitor whose address was not counted in the last minutes.
View(r, c, b) ==
  /\ b \in Community /\ NewVisit(c, b) /\ Begin(r, "view", [visitor |-> c, build |-> b])
  /\ UNCHANGED buildVars

CountView(r) ==
  LET b == job[r].build IN
  /\ pc[r] = "view"
  /\ builds' = IF b \in There THEN [builds EXCEPT ![b].views = @ + 1] ELSE builds
  /\ Continue(r, "remember", job[r]) /\ UNCHANGED <<details, nextBuild, counted, entered, torn>>

RememberView(r) ==
  /\ pc[r] = "remember" /\ counted' = counted \cup {<<job[r].visitor, job[r].build>>}
  /\ Finish(r) /\ UNCHANGED <<builds, details, nextBuild, entered, torn>>

Abandon(r) ==
  /\ GiveUp(r)
  /\ torn' = IF "build" \in DOMAIN job[r] THEN torn \cup {job[r].build} ELSE torn
  /\ UNCHANGED <<builds, details, nextBuild, counted, entered>>

Next ==
  \E r \in Requests :
    \/ InsertBuild(r) \/ InsertParts(r) \/ ClearParts(r) \/ SaveBuild(r) \/ CountClone(r)
    \/ CountView(r) \/ RememberView(r) \/ Abandon(r)
    \/ \E c \in Customers :
         \/ Create(r, c)
         \/ \E b \in There : Clone(r, c, b) \/ View(r, c, b)
    \/ \E b \in There : Update(r, b) \/ Remove(r, b)

-----------------------------------------------------------------------------
Idle == \A r \in Requests : pc[r] = "idle"

\* The type of every variable; a clone starts out hidden, whatever its source is.
TypeOK ==
  /\ HandlersTypeOK
  /\ There \subseteq BuildIds /\ \A b \in There : builds[b] \in SavedBuild
  /\ DOMAIN details = There /\ DOMAIN entered = There
  /\ \A b \in There : details[b] \subseteq Parts /\ entered[b] \subseteq Parts
  /\ nextBuild \in Nat /\ counted \subseteq Customers \X BuildIds /\ torn \subseteq There
  /\ \A r \in Requests : pc[r] = "insert" /\ job[r].source # 0 => ~job[r].public

\* While handlers do not overlap, no customer has more builds than the limit, whichever
\* of the two ways the builds came about.
BuildsWithinLimit == \A c \in Customers : Cardinality(OwnedBy(c)) <= MaxBuilds

\* While handlers do not overlap, a build has the parts that were entered, and a clone
\* those that its source had when it was read, unless a handler was cut short.
BuildIsWhole == Idle => \A b \in There \ torn : details[b] = entered[b]

\* While handlers do not overlap, a visitor counts once for a build.
ViewedOnce ==
  Idle => \A b \in There \ torn : builds[b].views = Cardinality({c \in Customers : <<c, b>> \in counted})
=============================================================================

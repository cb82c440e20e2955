--------------------------- MODULE MembershipTiers ---------------------------
(***************************************************************************)
(* MembershipTierService: the tiers are ranges of points, and a customer   *)
(* is in the tier whose range holds the points of the customer; no row     *)
(* links the two.  NotificationsAdminService selects customers by it.      *)
(***************************************************************************)
EXTENDS Handlers, FiniteSets

CONSTANTS
  TierIds,      \* bound: the tiers there can be
  Names,        \* nhan_hien_thi, and the ten_hang that is made of it
  Customers,
  MaxPoints     \* bound: the points of a customer

VARIABLES
  tiers,      \* hang_thanh_vien by id
  nextTier,
  points      \* diem_hien_tai of the customers

tierVars == <<tiers, nextTier, points>>

Unlimited == MaxPoints + 1   \* diem_den IS NULL, that is INF
MembershipTier ==
  [name : Names, minPoints : 0..MaxPoints, maxPoints : 0..Unlimited, isActive : BOOLEAN]

There == DOMAIN tiers

TiersInit ==
  tiers = [t \in {} |-> 0] /\ nextTier = 1 /\ points \in [Customers -> {0, MaxPoints}]

\* Mutant of Overlaps: ranges that meet in their ends are let through.
OverlapsInside(a, b) == a.minPoints < b.maxPoints /\ b.minPoints < a.maxPoints

Overlaps(a, b) == a.minPoints <= b.maxPoints /\ b.minPoints <= a.maxPoints

NameTaken(name, except) == \E t \in There \ {except} : tiers[t].name = name

\* validateOverlap: one tier without an upper end, and no range that overlaps another.
RangeTaken(row, except) ==
  \E t \in There \ {except} :
    \/ row.maxPoints = Unlimited /\ tiers[t].maxPoints = Unlimited
    \/ Overlaps(row, tiers[t])

ValidRange(row) == row.maxPoints # Unlimited => row.minPoints < row.maxPoints

\* Whose points are in the range of tier t; fetchCustomerCounts counts them.
InTier(t) == {c \in Customers : points[c] \in tiers[t].minPoints .. tiers[t].maxPoints}

-----------------------------------------------------------------------------
\* create, after validateUniqueName.
Create(r) ==
  /\ \E row \in MembershipTier :
       ~NameTaken(row.name, 0) /\ Begin(r, "validate", [id |-> 0, row |-> row])
  /\ UNCHANGED tierVars

\* update: what the request leaves out is as it was read, and only a new name is checked.
Update(r, t) ==
  /\ \E row \in MembershipTier :
       /\ row.name # tiers[t].name => ~NameTaken(row.name, t)
       /\ Begin(r, "validate", [id |-> t, row |-> row])
  /\ UNCHANGED tierVars

Validate(r) ==
  /\ pc[r] = "validate"
  /\ IF RangeTaken(job[r].row, job[r].id) \/ ~ValidRange(job[r].row)
     THEN Finish(r) ELSE Continue(r, "save", job[r])
  /\ UNCHANGED tierVars

\* save(): the unique key on ten_hang refuses a name that was taken meanwhile; a tier
\* that was deleted meanwhile is inserted again.
Save(r) ==
  LET id == IF job[r].id = 0 THEN nextTier ELSE job[r].id IN
  /\ pc[r] = "save" /\ id \in TierIds
  /\ IF NameTaken(job[r].row.name, id) THEN UNCHANGED <<tiers, nextTier>>
     ELSE /\ tiers' = [t \in There \cup {id} |-> IF t = id THEN job[r].row ELSE tiers[t]]
          /\ nextTier' = IF id = nextTier THEN nextTier + 1 ELSE nextTier
  /\ Finish(r) /\ UNCHANGED points

Empty(t) == InTier(t) = {}

Remove(r, t) == Empty(t) /\ Begin(r, "delete", [id |-> t]) /\ UNCHANGED tierVars

Delete(r) ==
  /\ pc[r] = "delete" /\ tiers' = [t \in There \ {job[r].id} |-> tiers[t]]
  /\ Finish(r) /\ UNCHANGED <<nextTier, points>>

\* A customer earns or spends points.
PointsChange(r) ==
  /\ AtOnce(r) /\ \E c \in Customers, p \in 0..MaxPoints : points' = [points EXCEPT ![c] = p]
  /\ UNCHANGED <<tiers, nextTier>>

-----------------------------------------------------------------------------
(* resolveCustomerIds of a broadcast to a group: a tier that is unknown or not *)
(* active filters nobody out.                                                  *)

Audience(name) ==
  LET found == {t \in There : tiers[t].name = name /\ tiers[t].isActive} IN
  IF found = {} THEN Customers ELSE InTier(CHOOSE t \in found : TRUE)

Next ==
  \E r \in Requests :
    \/ Create(r) \/ Validate(r) \/ Save(r) \/ Delete(r) \/ PointsChange(r)
    \/ \E t \in There : Update(r, t) \/ Remove(r, t)

-----------------------------------------------------------------------------
\* The type of every variable; no range is empty, and names are taken once.
TypeOK ==
  /\ HandlersTypeOK
  /\ There \subseteq TierIds /\ points \in [Customers -> 0..MaxPoints]
  /\ \A t \in There : tiers[t] \in MembershipTier /\ tiers[t].minPoints < tiers[t].maxPoints
  /\ \A t, u \in There : tiers[t].name = tiers[u].name => t = u
  /\ nextTier \in Nat

\* While handlers do not overlap, a customer is in one tier at most, and so broadcasts
\* to different active tiers reach different customers.
OneTierEach ==
  /\ \A t, u \in There : t # u => InTier(t) \cap InTier(u) = {}
  /\ \A t, u \in There : t # u /\ tiers[t].isActive /\ tiers[u].isActive =>
       Audience(tiers[t].name) \cap Audience(tiers[u].name) = {}

\* While handlers do not overlap, a tier that is deleted leaves no customer without.
NobodyLosesTier == \A t \in There \ DOMAIN tiers' : InTier(t) = {}
=============================================================================

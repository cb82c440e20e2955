----------------------------- MODULE BuildRules -----------------------------
(***************************************************************************)
(* The slots of a PC and the rules of compatibility, as BuildPcService     *)
(* keeps them, and BuildPcCompatibilityEngine, which finds the issues of   *)
(* the parts that a customer has picked.                                   *)
(***************************************************************************)
EXTENDS Handlers, FiniteSets, FiniteSetsExt

CONSTANTS
  Parts,              \* variants of products
  Categories,
  CategoryOf(_),      \* danh_muc_id of the part's product
  ParentOf(_),        \* danh_muc_cha_id of a category; of a root, no category
  TextOf(_, _),       \* the value of a part's specification, "" if it has none
  NumberOf(_, _),     \* the same as a number, or NotANumber
  ListOf(_, _),       \* the same, split at , ; / and |
  SlotIds, RuleIds,   \* bounds: the slots and the rules there can be
  RuleRequests,       \* the rules that are entered
  MaxQuantity         \* bound: the quantity of a part

VARIABLES
  slots,    \* buildpc_slot_dinh_nghia: danh_muc_id by id
  rules,    \* buildpc_quy_tac_tuong_thich by id
  picked    \* quantity by part: phienBanIds and soLuongs of a check

buildVars == <<slots, rules, picked>>

NotANumber == -1
NoSlot == 0

BuildSlot == [category : Categories]
CompatibilityRule ==
  [source : SlotIds, key : STRING, dest : SlotIds \cup {NoSlot}, destKey : STRING \ {""},
   type : {"exact_match", "contains", "min_sum", "min_value"}, factor : Nat,
   fallback : STRING, mandatory : BOOLEAN, isActive : BOOLEAN]

RulesInit ==
  /\ slots \in {f \in [SlotIds -> {[category |-> c] : c \in {d \in Categories : ParentOf(d) \notin Categories}}] :
                 \A s, u \in SlotIds : f[s] = f[u] => s = u}
  /\ rules = [k \in {} |-> 0] /\ picked = [v \in Parts |-> 0]

-----------------------------------------------------------------------------
(* The engine *)

\* resolveDescendantIds goes down level by level; what it ends with is the only set that
\* holds, besides the root, just the categories whose parent it holds.
Descendants(root) ==
  CHOOSE below \in SUBSET Categories :
    \A c \in Categories : c \in below <=> c = root \/ ParentOf(c) \in below

\* The picked parts that go into a slot.
InSlot(s) ==
  LET below == Descendants(slots[s].category) IN
  {v \in Parts : picked[v] > 0 /\ CategoryOf(v) \in below}

Factor(rule) == IF rule.factor = 0 THEN 1 ELSE rule.factor

\* What the parts of the other slot need together.
Demand(rule, dests) ==
  MapThenSumSet(LAMBDA v : IF NumberOf(v, rule.destKey) = NotANumber THEN 0
                           ELSE NumberOf(v, rule.destKey) * picked[v], dests)

\* compareSingle, of a part and a part of the other slot.
Compares(rule, v, d) ==
  LET a == NumberOf(v, rule.key)
      b == NumberOf(d, rule.destKey) IN
  CASE rule.type = "exact_match" -> TextOf(v, rule.key) = TextOf(d, rule.destKey)
    [] rule.type = "contains" -> TextOf(v, rule.key) \in ListOf(d, rule.destKey)
    [] rule.type = "min_value" -> a # NotANumber /\ b # NotANumber /\ b >= a * Factor(rule)

\* Mutant of AllOf: one part of the other slot that fits is enough.
SomeOf(dests, fitting) == fitting # {}

AllOf(dests, fitting) == fitting = dests

\* evaluateRule: the sum, the value the rule falls back on, or every part of the other
\* slot that has a value.  Values to fall back on are compared as texts here.
Passes(rule, v, dests) ==
  CASE rule.type = "min_sum" ->
         /\ NumberOf(v, rule.key) # NotANumber
         /\ NumberOf(v, rule.key) >= Demand(rule, dests) * Factor(rule)
    [] rule.type # "min_sum" /\ dests = {} ->
         rule.fallback = "" \/ TextOf(v, rule.key) = rule.fallback
    [] OTHER -> AllOf(dests, {d \in dests : TextOf(d, rule.destKey) # "" => Compares(rule, v, d)})

\* Where check looks for issues: the rule is active and, if it names another slot, that
\* slot is filled.
Applies(k) == rules[k].isActive /\ (rules[k].dest = NoSlot \/ InSlot(rules[k].dest) # {})

IssuesOf(k) ==
  LET rule == rules[k]
      dests == IF rule.dest = NoSlot THEN {} ELSE InSlot(rule.dest) IN
  {v \in InSlot(rule.source) : TextOf(v, rule.key) # "" /\ ~Passes(rule, v, dests)}

Issues == UNION {{k} \X IssuesOf(k) : k \in {j \in DOMAIN rules : Applies(j)}}

Compatible == \A i \in Issues : ~rules[i[1]].mandatory

-----------------------------------------------------------------------------
(* Administration *)

\* updateSlot.  A slot is added and removed only while no rule refers to it.
UpdateSlot(r, s) ==
  /\ AtOnce(r) /\ \E c \in Categories : slots' = [slots EXCEPT ![s].category = c]
  /\ UNCHANGED <<rules, picked>>

\* Mutant of Entered: the key of the other slot may be left out.
EnteredAsIs(request) == request

\* A rule about one slot compares the key with itself, unless the request says otherwise.
Entered(request) ==
  [request EXCEPT !.destKey = IF @ = "" THEN request.key ELSE @]

\* createRule refuses a rule between slots without the key of the other slot.
CreateRule(r) ==
  /\ AtOnce(r)
  /\ \E k \in RuleIds \ DOMAIN rules, request \in RuleRequests :
       /\ request.dest # NoSlot => request.destKey # ""
       /\ rules' = [j \in DOMAIN rules \cup {k} |-> IF j = k THEN Entered(request) ELSE rules[j]]
  /\ UNCHANGED <<slots, picked>>

UpdateRule(r, k) ==
  /\ AtOnce(r)
  /\ \E request \in RuleRequests :
       /\ request.destKey # "" /\ rules' = [rules EXCEPT ![k] = [request EXCEPT !.isActive = ~@]]
  /\ UNCHANGED <<slots, picked>>

RemoveRule(r, k) ==
  /\ AtOnce(r) /\ rules' = [j \in DOMAIN rules \ {k} |-> rules[j]]
  /\ UNCHANGED <<slots, picked>>

\* The customer adds a part to the build, or more of it, or takes it out again.
Pick(r, v) ==
  /\ AtOnce(r) /\ picked[v] < MaxQuantity /\ picked' = [picked EXCEPT ![v] = @ + 1]
  /\ UNCHANGED <<slots, rules>>
TakeOut(r, v) ==
  /\ AtOnce(r) /\ picked[v] > 0 /\ picked' = [picked EXCEPT ![v] = 0] /\ UNCHANGED <<slots, rules>>

Next ==
  \E r \in Requests :
    \/ CreateRule(r) \/ \E s \in SlotIds : UpdateSlot(r, s)
    \/ \E k \in DOMAIN rules : UpdateRule(r, k) \/ RemoveRule(r, k)
    \/ \E v \in Parts : Pick(r, v) \/ TakeOut(r, v)

-----------------------------------------------------------------------------
\* The type of every variable; every rule has the key that it looks up.
TypeOK ==
  /\ HandlersTypeOK
  /\ slots \in [SlotIds -> BuildSlot] /\ picked \in [Parts -> 0..MaxQuantity]
  /\ DOMAIN rules \subseteq RuleIds /\ \A k \in DOMAIN rules : rules[k] \in CompatibilityRule

\* A part that is added, or one more of it, never makes an issue go away: a customer who
\* is told that a build does not fit cannot repair it by adding to it.
AddingSolvesNothing ==
  (\E v \in Parts : picked' = [picked EXCEPT ![v] = @ + 1]) =>
    Issues \subseteq Issues' /\ (Compatible' => Compatible)

\* A part goes into a slot wherever its category is below the slot's, however deep.
PartsFindSlots ==
  LET above[c \in Categories, n \in 0..Cardinality(Categories)] ==
        IF n = 0 \/ ParentOf(c) \notin Categories THEN {c} ELSE {c} \cup above[ParentOf(c), n-1] IN
  \A s \in SlotIds, v \in Parts :
    v \in InSlot(s) <=>
      picked[v] > 0 /\ slots[s].category \in above[CategoryOf(v), Cardinality(Categories)]
=============================================================================

----------------------------- MODULE Promotions -----------------------------
(***************************************************************************)
(* PromotionsService: the rows of a promotion and of its parts.  A part is *)
(* replaced by a DELETE and an INSERT, each committed by itself, and what  *)
(* is missing in between widens the promotion: without scopes it is for    *)
(* the whole shop, without conditions it is always met.                    *)
(*                                                                         *)
(* A part is named by the edit that wrote it; 0: no rows.                  *)
(***************************************************************************)
EXTENDS Handlers, FiniteSetsExt

CONSTANTS
  Promotions,    \* bound: the promotions there can be
  Codes,         \* coupon codes; "" is none
  UsageLimit,    \* promotions.total_usage_limit
  MaxEdits       \* bound: the edits that write parts

VARIABLES
  rows,          \* promotions by id; status "absent": no row
  parts,         \* promotion_scope, promotion_condition, promotion_action, bulk tiers
  entered,       \* auxiliary: the parts as the last finished edit entered them
  usages,        \* the number of rows of promotion_usage
  rewards,       \* promotions a redemption_catalog row leads to
  edits,         \* the edits so far
  torn           \* auxiliary: promotions with an edit or removal that ended half way

promotionVars == <<rows, parts, entered, usages, rewards, edits, torn>>

Status == {"draft", "active", "scheduled", "paused", "ended", "cancelled"}
Part == {"scopes", "conditions", "actions", "tiers"}

Promotion == [status : Status \cup {"absent"}, code : Codes \cup {""}, usageCount : Nat]
NoRow == [status |-> "absent", code |-> "", usageCount |-> 0]
NoParts == [x \in Part |-> 0]

There == {p \in Promotions : rows[p].status # "absent"}

\* findActivePromotions, findByCouponCode: what shoppers get, within its dates.
Active == {p \in There : rows[p].status = "active"}

PromotionsInit ==
  \E p \in Promotions :
    /\ rows = [q \in Promotions |-> IF q # p THEN NoRow
                 ELSE [status |-> "active", code |-> CHOOSE c \in Codes : TRUE, usageCount |-> 0]]
    /\ parts = [q \in Promotions |-> IF q = p THEN [x \in Part |-> 1] ELSE NoParts]
    /\ entered = parts /\ usages = [q \in Promotions |-> 0]
    /\ rewards \in {{}, {p}} /\ edits = 1 /\ torn = {}

-----------------------------------------------------------------------------
(* create and duplicate *)

CodeFree(c) == c = "" \/ \A q \in There : rows[q].code # c

\* save() cascades to the parts in one transaction; the code has a unique index.
Create(r, p, c) ==
  /\ p \notin There /\ CodeFree(c) /\ edits < MaxEdits /\ AtOnce(r)
  /\ \E s \in {"draft", "active"} :
       rows' = [rows EXCEPT ![p] = [status |-> s, code |-> c, usageCount |-> 0]]
  /\ edits' = edits + 1
  /\ parts' = [parts EXCEPT ![p] = [x \in Part |-> edits']]
  /\ entered' = [entered EXCEPT ![p] = parts'[p]]
  /\ UNCHANGED <<usages, rewards, torn>>

\* A copy is a draft until somebody sets its status.
CopyStatus(p) == "draft"

\* buildUniqueCopyCode tries the codes one by one.
DuplicateRead(r, p) ==
  /\ p \in There
  /\ \E c \in IF rows[p].code = "" THEN {""} ELSE {d \in Codes : CodeFree(d)} :
       Begin(r, "copy", [of |-> p, code |-> c, status |-> CopyStatus(p), parts |-> parts[p]])
  /\ UNCHANGED promotionVars

\* The copy's row, and then each of its parts, committed one after the other.
DuplicateRow(r, q) ==
  /\ pc[r] = "copy" /\ q \notin There /\ CodeFree(job[r].code)
  /\ rows' = [rows EXCEPT ![q] = [status |-> job[r].status, code |-> job[r].code, usageCount |-> 0]]
  /\ entered' = [entered EXCEPT ![q] = job[r].parts]
  /\ Continue(r, "parts", [promotion |-> q, parts |-> job[r].parts,
       todo |-> <<<<"insert", "scopes">>, <<"insert", "conditions">>, <<"insert", "actions">>,
                  <<"insert", "tiers">>>>])
  /\ UNCHANGED <<parts, usages, rewards, edits, torn>>

-----------------------------------------------------------------------------
(* update, setStatus, cancel *)

Replace(x) == <<<<"delete", x>>, <<"insert", x>>>>

\* The statements that replace the parts that the request names.  The tiers go with
\* their actions, and are inserted after them.
Statements(named) ==
  (IF "scopes" \in named THEN Replace("scopes") ELSE <<>>)
    \o (IF "conditions" \in named THEN Replace("conditions") ELSE <<>>)
    \o (IF "actions" \in named THEN <<<<"delete", "tiers">>>> \o Replace("actions")
                                      \o <<<<"insert", "tiers">>>> ELSE <<>>)

\* The whole promotion is loaded, its counter of uses with it.
UpdateRead(r, p, s, named) ==
  /\ p \in There /\ edits < MaxEdits /\ edits' = edits + 1
  /\ Begin(r, "update", [promotion |-> p, row |-> [rows[p] EXCEPT !.status = s],
                         loaded |-> parts[p], named |-> named, edit |-> edits'])
  /\ UNCHANGED <<rows, parts, entered, usages, rewards, torn>>

\* save() writes every column, inserts loaded parts that are gone, and fails on parts
\* that were replaced meanwhile.
Cascaded(loaded, current) == [x \in Part |-> IF current[x] = 0 THEN loaded[x] ELSE current[x]]

UpdateRow(r) ==
  LET p == job[r].promotion
      new == [x \in Part |-> IF x \in job[r].named \/ (x = "tiers" /\ "actions" \in job[r].named)
                             THEN job[r].edit ELSE job[r].loaded[x]] IN
  /\ pc[r] = "update" /\ p \in There
  /\ \A x \in Part : parts[p][x] \in {0, job[r].loaded[x]}
  /\ rows' = [rows EXCEPT ![p] = job[r].row]
  /\ parts' = [parts EXCEPT ![p] = Cascaded(job[r].loaded, @)]
  /\ entered' = [entered EXCEPT ![p] = new]
  /\ IF job[r].named = {} THEN Finish(r)
     ELSE Continue(r, "parts", [promotion |-> p, parts |-> new, todo |-> Statements(job[r].named)])
  /\ UNCHANGED <<usages, rewards, edits, torn>>

\* The next statement on a part, of an update or of a copy.
PartStatement(r) ==
  LET p == job[r].promotion  do == Head(job[r].todo) IN
  /\ pc[r] = "parts" /\ p \in There
  /\ parts' = [parts EXCEPT ![p][do[2]] = IF do[1] = "insert" THEN job[r].parts[do[2]] ELSE 0]
  /\ IF Len(job[r].todo) = 1 THEN Finish(r)
     ELSE Continue(r, "parts", [job[r] EXCEPT !.todo = Tail(@)])
  /\ UNCHANGED <<rows, entered, usages, rewards, edits, torn>>

SetStatus(r, p, s) ==
  /\ p \in There /\ AtOnce(r) /\ rows' = [rows EXCEPT ![p].status = s]
  /\ UNCHANGED <<parts, entered, usages, rewards, edits, torn>>

Cancel(r, p) == SetStatus(r, p, "cancelled")

-----------------------------------------------------------------------------
(* remove: seven statements *)

RemoveRead(r, p) ==
  /\ p \in There
  /\ Begin(r, "remove", [promotion |-> p,
       todo |-> <<"rewards", "usages", "scopes", "conditions", "actions", "row">>])
  /\ UNCHANGED promotionVars

\* The row goes with what is left of its parts and usages; a reward of the catalog
\* still refers to it and keeps it.
RemoveStatement(r) ==
  LET p == job[r].promotion  what == Head(job[r].todo) IN
  /\ pc[r] = "remove"
  /\ rewards' = IF what = "rewards" THEN rewards \ {p} ELSE rewards
  /\ what = "row" => p \notin rewards
  /\ rows' = IF what = "row" THEN [rows EXCEPT ![p] = NoRow] ELSE rows
  /\ usages' = IF what \in {"usages", "row"} THEN [usages EXCEPT ![p] = 0] ELSE usages
  /\ parts' = [parts EXCEPT ![p] = [x \in Part |->
                 IF what \in {x, "row"} \/ (what = "actions" /\ x = "tiers") THEN 0 ELSE @[x]]]
  /\ entered' = IF what = "row" THEN [entered EXCEPT ![p] = NoParts] ELSE entered
  /\ IF what = "row" THEN Finish(r) ELSE Continue(r, "remove", [job[r] EXCEPT !.todo = Tail(@)])
  /\ UNCHANGED <<edits, torn>>

-----------------------------------------------------------------------------
(* Uses of a promotion *)

Quota(p) == rows[p].usageCount < UsageLimit

\* recordCouponConsumption: the slot is taken, and then the use is recorded.
ConsumeSlot(r, p) ==
  /\ p \in There /\ Quota(p)
  /\ rows' = [rows EXCEPT ![p].usageCount = @ + 1]
  /\ Begin(r, "use", [promotion |-> p])
  /\ UNCHANGED <<parts, entered, usages, rewards, edits, torn>>

RecordUse(r) ==
  /\ pc[r] = "use" /\ job[r].promotion \in There
  /\ usages' = [usages EXCEPT ![job[r].promotion] = @ + 1]
  /\ Finish(r) /\ UNCHANGED <<rows, parts, entered, rewards, edits, torn>>

\* An edit, a copy or a removal that ends here leaves what it has committed.
Abandon(r) ==
  /\ GiveUp(r)
  /\ torn' = IF pc[r] \in {"parts", "remove"} THEN torn \cup {job[r].promotion} ELSE torn
  /\ UNCHANGED <<rows, parts, entered, usages, rewards, edits>>

Next ==
  \E r \in Requests :
    \/ \E p \in Promotions :
         \/ \E c \in Codes \cup {""} : Create(r, p, c)
         \/ DuplicateRead(r, p) \/ DuplicateRow(r, p)
         \/ \E s \in {rows[p].status, "paused"}, named \in SUBSET {"scopes", "conditions", "actions"} :
              UpdateRead(r, p, s, named)
         \/ \E s \in {"active", "paused"} : SetStatus(r, p, s)
         \/ Cancel(r, p) \/ RemoveRead(r, p) \/ ConsumeSlot(r, p)
    \/ UpdateRow(r) \/ PartStatement(r) \/ RemoveStatement(r) \/ RecordUse(r) \/ Abandon(r)

-----------------------------------------------------------------------------
\* The type of every variable.
TypeOK ==
  /\ HandlersTypeOK
  /\ rows \in [Promotions -> Promotion] /\ parts \in [Promotions -> [Part -> 0..MaxEdits]]
  /\ entered \in [Promotions -> [Part -> 0..MaxEdits]] /\ usages \in [Promotions -> Nat]
  /\ rewards \subseteq Promotions /\ edits \in 1..MaxEdits /\ torn \subseteq Promotions

\* While handlers do not overlap, a promotion that shoppers get has all the parts that
\* were entered, unless the process failed within an edit, a copy or a removal: then
\* nothing repairs it, and a missing scope or condition leaves it wider than meant.
ActiveIsWhole ==
  \A p \in Active \ torn : (\A r \in Requests : pc[r] \notin {"parts", "remove"})
    => parts[p] = entered[p]

\* While handlers do not overlap, every recorded use took a slot of the quota and no more
\* slots are taken than there are: a crash loses a slot, and never gives one away.
SlotsCoverUses ==
  \A p \in Promotions : usages[p] <= rows[p].usageCount /\ rows[p].usageCount <= UsageLimit

\* Under any interleaving, no promotion becomes active in the step that inserts it but by
\* create: a copy waits for somebody to look at it.
CopiesWait ==
  \A p \in Promotions \ There :
    rows'[p].status \notin {"absent", "draft"} => edits' # edits
=============================================================================

---------------------------- MODULE OffersProofs ----------------------------
(***************************************************************************)
(* What holds of offers, and of what customers leave behind in the shop,   *)
(* for any number of customers, rows and handlers at once, or for any      *)
(* number of handlers one after the other.  Each component is an instance; *)
(* its specification lets its own handlers run, as the runs of             *)
(* MCStorefront do.                                                        *)
(***************************************************************************)
EXTENDS Integers, Sequences, FiniteSets, FiniteSetTheorems, TLAPS

CONSTANTS
  Requests, MaxServed, Promotions, Codes, UsageLimit, MaxEdits, Sales, Items,
  MaxSaleEdits, Orders, Variants, ProductOf(_), ReviewIds, Stars, Customers,
  Parts, BuildIds, MaxBuilds, CategoryOf(_), BrandsOf(_), ShopOffers, MaxQuantity

VARIABLES
  pc, job, served, offers, offerParts, partsEntered, usages, rewards,
  partEdits, partsTorn, sales, onSale, saleEntered, saleEdits, saleTorn,
  delivered, reviews, messages, rating, reviewTorn, builds, details,
  nextBuild, counted, buildEntered, buildTorn, made, coupon, lines, nextLine,
  price, stock, hidden, running, usedUp, shopOffers

Deals == INSTANCE Promotions WITH rows <- offers, parts <- offerParts, entered <- partsEntered,
    edits <- partEdits, torn <- partsTorn
Flash == INSTANCE FlashSales WITH items <- onSale, entered <- saleEntered, edits <- saleEdits,
    torn <- saleTorn, MaxEdits <- MaxSaleEdits
Opinions == INSTANCE Reviews WITH torn <- reviewTorn, Ids <- ReviewIds
Builds == INSTANCE SavedBuilds WITH torn <- buildTorn, entered <- buildEntered
Basket == INSTANCE Cart WITH Offers <- ShopOffers, offers <- shopOffers

\* No request is under way.
Quiet ==
  pc = [r \in Requests |-> "idle"] /\ job = [r \in Requests |-> <<>>] /\ served = 0

\* Every slot has a step and what its handler has read.
Slots == pc = [r \in Requests |-> pc[r]] /\ job = [r \in Requests |-> job[r]]

\* Handlers do not overlap.
OneAtATime == \A r, q \in Requests : r = q

-----------------------------------------------------------------------------
(* Promotions: copies that wait, uses and their slots, and active offers that are whole *)

OfferStart == Deals!PromotionsInit /\ Quiet

offerVars == <<Deals!promotionVars, Deals!handling>>

OfferSpec == OfferStart /\ [][Deals!Next]_offerVars

\* The tables have a row for every id.
-----------------------------------------------------------------------------

\* Whatever else is under way, a copy that is to be inserted is a draft.
CopiesAreDrafts ==
  /\ Slots /\ offers = [p \in Promotions |-> offers[p]] /\ partEdits \in Nat
  /\ \A r \in Requests : pc[r] = "copy" => job[r].status = "draft"

LEMMA CopiesInit == OfferStart => CopiesAreDrafts
  BY DEF OfferStart, Quiet, Deals!PromotionsInit, CopiesAreDrafts, Slots

\* The step that starts or continues the handler in slot r.
LEMMA CopiesSlot ==
  ASSUME CopiesAreDrafts, NEW r \in Requests,
         \/ \E l, j :
              /\ pc' = [pc EXCEPT ![r] = l] /\ job' = [job EXCEPT ![r] = j]
              /\ l = "copy" => j.status = "draft"
         \/ UNCHANGED <<pc, job>>
  PROVE  Slots' /\ \A q \in Requests : pc'[q] = "copy" => job'[q].status = "draft"
<1>1. CASE UNCHANGED <<pc, job>>
  BY <1>1 DEF CopiesAreDrafts, Slots
<1>2. ASSUME NEW l, NEW j, pc' = [pc EXCEPT ![r] = l], job' = [job EXCEPT ![r] = j],
             l = "copy" => j.status = "draft"
      PROVE  Slots' /\ \A q \in Requests : pc'[q] = "copy" => job'[q].status = "draft"
  <2>1. Slots'
    BY <1>2 DEF CopiesAreDrafts, Slots
  <2>2. /\ pc'[r] = l /\ job'[r] = j
        /\ \A q \in Requests \ {r} : pc'[q] = pc[q] /\ job'[q] = job[q]
    BY <1>2 DEF CopiesAreDrafts, Slots
  <2> QED
    BY <1>2, <2>1, <2>2 DEF CopiesAreDrafts
<1> QED
  BY <1>1, <1>2

LEMMA CopiesNext == CopiesAreDrafts /\ [Deals!Next]_offerVars => CopiesAreDrafts'
<1> SUFFICES ASSUME CopiesAreDrafts, [Deals!Next]_offerVars PROVE CopiesAreDrafts'
  OBVIOUS
<1>0. ASSUME NEW r \in Requests, NEW l, NEW j,
             pc' = [pc EXCEPT ![r] = l], job' = [job EXCEPT ![r] = j],
             l = "copy" => j.status = "draft",
             UNCHANGED offers \/ (\E p, x : offers' = [offers EXCEPT ![p] = x]),
             partEdits' \in Nat
      PROVE  CopiesAreDrafts'
  <2>1. Slots' /\ \A q \in Requests : pc'[q] = "copy" => job'[q].status = "draft"
    BY <1>0, CopiesSlot
  <2>2. offers' = [p \in Promotions |-> offers'[p]]
    BY <1>0 DEF CopiesAreDrafts
  <2> QED
    BY <1>0, <2>1, <2>2 DEF CopiesAreDrafts
<1>c. ASSUME UNCHANGED <<pc, job>>, partEdits' \in Nat,
             UNCHANGED offers \/ (\E p, x : offers' = [offers EXCEPT ![p] = x])
      PROVE  CopiesAreDrafts'
  BY <1>c DEF CopiesAreDrafts, Slots
<1>e. partEdits \in Nat /\ partEdits + 1 \in Nat
  BY DEF CopiesAreDrafts
<1>1. ASSUME NEW r \in Requests, NEW p \in Promotions, NEW c, Deals!Create(r, p, c)
      PROVE  CopiesAreDrafts'
  <2>1. UNCHANGED <<pc, job>> /\ partEdits' \in Nat /\ \E q, x :
          offers' = [offers EXCEPT ![q] = x]
    BY <1>1, <1>e DEF Deals!Create, Deals!AtOnce
  <2> QED
    BY <2>1, <1>0, <1>c
<1>2. ASSUME NEW r \in Requests, NEW p \in Promotions, Deals!DuplicateRead(r, p)
      PROVE  CopiesAreDrafts'
  <2>1. PICK c : Deals!Begin(r, "copy", [of |-> p, code |-> c, status |-> Deals!CopyStatus(p),
                                   parts |-> offerParts[p]])
    BY <1>2 DEF Deals!DuplicateRead
  <2>2. PICK j :
          j = [of |-> p, code |-> c, status |-> Deals!CopyStatus(p), parts |-> offerParts[p]]
    OBVIOUS
  <2>3. j.status = "draft"
    BY <2>2 DEF Deals!CopyStatus
  <2>4. pc' = [pc EXCEPT ![r] = "copy"] /\ job' = [job EXCEPT ![r] = j]
    BY <2>1, <2>2 DEF Deals!Begin
  <2>5. UNCHANGED <<offers, partEdits>>
    BY <1>2 DEF Deals!DuplicateRead, Deals!promotionVars
  <2> QED
    BY <2>3, <2>4, <2>5, <1>e, <1>0, <1>c
<1>3. ASSUME NEW r \in Requests, NEW p \in Promotions, Deals!DuplicateRow(r, p)
      PROVE  CopiesAreDrafts'
  <2>1. \E j : pc' = [pc EXCEPT ![r] = "parts"] /\ job' = [job EXCEPT ![r] = j]
    BY <1>3 DEF Deals!DuplicateRow, Deals!Continue
  <2>2. (\E q, x : offers' = [offers EXCEPT ![q] = x]) /\ UNCHANGED partEdits
    BY <1>3 DEF Deals!DuplicateRow
  <2> QED
    BY <2>1, <2>2, <1>e, <1>0, <1>c
<1>4. ASSUME NEW r \in Requests, NEW p \in Promotions, NEW s, NEW named,
             Deals!UpdateRead(r, p, s, named)
      PROVE  CopiesAreDrafts'
  <2>1. \E j : pc' = [pc EXCEPT ![r] = "update"] /\ job' = [job EXCEPT ![r] = j]
    BY <1>4 DEF Deals!UpdateRead, Deals!Begin
  <2>2. UNCHANGED offers /\ partEdits' \in Nat
    BY <1>4, <1>e DEF Deals!UpdateRead
  <2> QED
    BY <2>1, <2>2, <1>0, <1>c
<1>5. ASSUME NEW r \in Requests, NEW p \in Promotions, NEW s, Deals!SetStatus(r, p, s)
      PROVE  CopiesAreDrafts'
  <2>1. UNCHANGED <<pc, job, partEdits>>
    BY <1>5 DEF Deals!SetStatus, Deals!AtOnce
  <2>2. \E x : offers' = [offers EXCEPT ![p] = x]
    BY <1>5 DEF Deals!SetStatus
  <2> QED
    BY <2>1, <2>2, <1>e, <1>0, <1>c
<1>6. ASSUME NEW r \in Requests, NEW p \in Promotions, Deals!RemoveRead(r, p)
      PROVE  CopiesAreDrafts'
  <2>1. \E j : pc' = [pc EXCEPT ![r] = "remove"] /\ job' = [job EXCEPT ![r] = j]
    BY <1>6 DEF Deals!RemoveRead, Deals!Begin
  <2>2. UNCHANGED <<offers, partEdits>>
    BY <1>6 DEF Deals!RemoveRead, Deals!promotionVars
  <2> QED
    BY <2>1, <2>2, <1>e, <1>0, <1>c
<1>7. ASSUME NEW r \in Requests, NEW p \in Promotions, Deals!ConsumeSlot(r, p)
      PROVE  CopiesAreDrafts'
  <2>1. \E j : pc' = [pc EXCEPT ![r] = "use"] /\ job' = [job EXCEPT ![r] = j]
    BY <1>7 DEF Deals!ConsumeSlot, Deals!Begin
  <2>2. (\E q, x : offers' = [offers EXCEPT ![q] = x]) /\ UNCHANGED partEdits
    BY <1>7 DEF Deals!ConsumeSlot
  <2> QED
    BY <2>1, <2>2, <1>e, <1>0, <1>c
<1>8. ASSUME NEW r \in Requests, Deals!UpdateRow(r) PROVE CopiesAreDrafts'
  <2>1. \E l, j : pc' = [pc EXCEPT ![r] = l] /\ job' = [job EXCEPT ![r] = j] /\ l # "copy"
    BY <1>8 DEF Deals!UpdateRow, Deals!Finish, Deals!Continue
  <2>2. (\E q, x : offers' = [offers EXCEPT ![q] = x]) /\ UNCHANGED partEdits
    BY <1>8 DEF Deals!UpdateRow
  <2> QED
    BY <2>1, <2>2, <1>e, <1>0, <1>c
<1>9. ASSUME NEW r \in Requests, Deals!PartStatement(r) \/ Deals!RemoveStatement(r)
      PROVE CopiesAreDrafts'
  <2>1. \E l, j : pc' = [pc EXCEPT ![r] = l] /\ job' = [job EXCEPT ![r] = j] /\ l # "copy"
    BY <1>9 DEF Deals!PartStatement, Deals!RemoveStatement, Deals!Finish, Deals!Continue
  <2>2. (UNCHANGED offers \/ (\E p, x : offers' = [offers EXCEPT ![p] =
          x])) /\ UNCHANGED partEdits
    <3>1. CASE Deals!PartStatement(r)
      BY <3>1 DEF Deals!PartStatement
    <3>2. CASE Deals!RemoveStatement(r)
      <4>1. /\ offers' = (IF Head(job[r].todo) = "row" THEN [offers EXCEPT ![job[r].promotion] =
                 Deals!NoRow]
                        ELSE offers)
            /\ UNCHANGED partEdits
        BY <3>2 DEF Deals!RemoveStatement
      <4> QED
        BY <4>1
    <3> QED
      BY <1>9, <3>1, <3>2
  <2> QED
    BY <2>1, <2>2, <1>e, <1>0, <1>c
<1>10. ASSUME NEW r \in Requests, Deals!RecordUse(r) \/ Deals!Abandon(r) PROVE CopiesAreDrafts'
  <2>1. pc' = [pc EXCEPT ![r] = "idle"] /\ job' = [job EXCEPT ![r] = <<>>]
    BY <1>10 DEF Deals!RecordUse, Deals!Abandon, Deals!GiveUp, Deals!Finish
  <2>2. UNCHANGED <<offers, partEdits>>
    BY <1>10 DEF Deals!RecordUse, Deals!Abandon
  <2> QED
    BY <2>1, <2>2, <1>e, <1>0, <1>c
<1>11. CASE UNCHANGED offerVars
  BY <1>11 DEF offerVars, Deals!promotionVars, Deals!handling, CopiesAreDrafts, Slots
<1> QED
  BY <1>1, <1>2, <1>3, <1>4, <1>5, <1>6, <1>7, <1>8, <1>9, <1>10, <1>11 DEF Deals!Next,
     Deals!Cancel

\* A step that makes a promotion that was not there active is a create: a copy is a
\* draft until somebody sets its status, whatever else is under way.
THEOREM CopiesAlwaysWait == OfferSpec => [][Deals!CopiesWait]_offerVars
<1>1. CopiesAreDrafts /\ [Deals!Next]_offerVars => Deals!CopiesWait
  <2> SUFFICES ASSUME CopiesAreDrafts, [Deals!Next]_offerVars,
                      NEW p \in Promotions \ Deals!There,
                      offers'[p].status \notin {"absent", "draft"}, partEdits' = partEdits
               PROVE  FALSE
    BY DEF Deals!CopiesWait
  <2>0. offers[p].status = "absent" /\ offers = [q \in Promotions |-> offers[q]] /\ partEdits \in
          Nat
    BY DEF Deals!There, CopiesAreDrafts
  <2>a. ASSUME NEW q \in Deals!There, NEW x, offers' = [offers EXCEPT ![q] = x] PROVE FALSE
    BY <2>a, <2>0
  <2>1. ASSUME NEW r \in Requests, NEW q \in Promotions, NEW c, Deals!Create(r, q, c) PROVE FALSE
    <3>1. partEdits' = partEdits + 1
      BY <2>1 DEF Deals!Create
    <3> QED
      BY <3>1, <2>0
  <2>2. ASSUME NEW r \in Requests, NEW q \in Promotions, Deals!DuplicateRow(r, q) PROVE FALSE
    <3>1. /\ pc[r] = "copy" /\ offers' = [offers EXCEPT ![q] =
               [status |-> job[r].status, code |-> job[r].code, usageCount |-> 0]]
      BY <2>2 DEF Deals!DuplicateRow
    <3>2. job[r].status = "draft"
      BY <3>1 DEF CopiesAreDrafts
    <3> QED
      BY <3>1, <3>2, <2>0
  <2>3. ASSUME NEW r \in Requests, Deals!UpdateRow(r) PROVE FALSE
    <3>1. job[r].promotion \in Deals!There /\ \E x :
            offers' = [offers EXCEPT ![job[r].promotion] = x]
      BY <2>3 DEF Deals!UpdateRow
    <3> QED
      BY <3>1, <2>a
  <2>4. ASSUME NEW r \in Requests, Deals!RemoveStatement(r) PROVE FALSE
    <3>1. offers' = IF Head(job[r].todo) = "row" THEN [offers EXCEPT ![job[r].promotion] =
            Deals!NoRow]
                  ELSE offers
      BY <2>4 DEF Deals!RemoveStatement
    <3> QED
      BY <3>1, <2>0 DEF Deals!NoRow
  <2>5. ASSUME NEW r \in Requests, NEW q \in Promotions, NEW s, Deals!SetStatus(r, q, s)
        PROVE FALSE
    <3>1. q \in Deals!There /\ \E x : offers' = [offers EXCEPT ![q] = x]
      BY <2>5 DEF Deals!SetStatus
    <3> QED
      BY <3>1, <2>a
  <2>6. ASSUME NEW r \in Requests, NEW q \in Promotions, Deals!ConsumeSlot(r, q) PROVE FALSE
    <3>1. q \in Deals!There /\ \E x : offers' = [offers EXCEPT ![q] = x]
      BY <2>6 DEF Deals!ConsumeSlot
    <3> QED
      BY <3>1, <2>a
  <2>7. ASSUME UNCHANGED offers PROVE FALSE
    BY <2>7, <2>0
  <2>8. ASSUME NEW r \in Requests, NEW q \in Promotions, NEW s, NEW named,
               Deals!DuplicateRead(r, q) \/ Deals!UpdateRead(r, q, s, named)
                   \/ Deals!RemoveRead(r, q)
               \/ Deals!PartStatement(r) \/ Deals!RecordUse(r) \/ Deals!Abandon(r)
        PROVE  FALSE
    BY <2>8, <2>7 DEF Deals!DuplicateRead, Deals!UpdateRead, Deals!RemoveRead,
       Deals!PartStatement, Deals!RecordUse, Deals!Abandon,
       Deals!promotionVars
  <2>9. CASE UNCHANGED offerVars
    BY <2>9, <2>7 DEF offerVars, Deals!promotionVars
  <2> QED
    BY <2>1, <2>2, <2>3, <2>4, <2>5, <2>6, <2>8, <2>9 DEF Deals!Next, Deals!Cancel
<1> QED
  BY <1>1, CopiesInit, CopiesNext, PTL DEF OfferSpec

-----------------------------------------------------------------------------

Statement == {"insert", "delete"} \X Deals!Part

\* The last statement of the list on the part x inserts it.
EndsInserted(list, x) ==
  \E i \in 1..Len(list) :
    /\ list[i] = <<"insert", x>>
    /\ \A k \in (i + 1)..Len(list) : list[k][2] # x

Untouched(list, x) == \A k \in 1..Len(list) : list[k][2] # x

\* No statement, no insertion.
LEMMA NothingInserts == \A x : ~EndsInserted(<<>>, x)
<1>1. Len(<<>>) = 0
  OBVIOUS
<1> QED
  BY <1>1 DEF EndsInserted

\* What is left of a list after its first statement.
LEMMA RestOfStatements ==
  ASSUME NEW list \in Seq(Statement), list # <<>>
  PROVE  /\ Head(list) \in Statement /\ Tail(list) \in Seq(Statement)
         /\ Len(list) = 1 <=> Tail(list) = <<>>
         /\ \A x \in Deals!Part :
              /\ Untouched(list, x) => Untouched(Tail(list), x) /\ Head(list)[2] # x
              /\ EndsInserted(list, x) =>
                   \/ EndsInserted(Tail(list), x)
                   \/ Head(list) = <<"insert", x>> /\ Untouched(Tail(list), x)
<1> DEFINE rest == Tail(list)
<1>1. /\ Len(list) \in Nat \ {0} /\ Head(list) = list[1] /\ list[1] \in Statement
      /\ rest \in Seq(Statement) /\ Len(rest) = Len(list) - 1
      /\ \A i \in 1..Len(rest) : rest[i] = list[i + 1]
  OBVIOUS
<1>2. Len(list) = 1 <=> rest = <<>>
  <2>1. \A s \in Seq(Statement) : s = <<>> <=> Len(s) = 0
    OBVIOUS
  <2> HIDE DEF rest
  <2> QED
    BY <1>1, <2>1
<1> HIDE DEF rest
<1>3. ASSUME NEW x \in Deals!Part, Untouched(list, x)
      PROVE  Untouched(rest, x) /\ Head(list)[2] # x
  BY <1>1, <1>3 DEF Untouched
<1>4. ASSUME NEW x \in Deals!Part, EndsInserted(list, x)
      PROVE  \/ EndsInserted(rest, x)
             \/ Head(list) = <<"insert", x>> /\ Untouched(rest, x)
  <2>1. PICK i \in 1..Len(list) :
          /\ list[i] = <<"insert", x>>
          /\ \A k \in (i + 1)..Len(list) : list[k][2] # x
    BY <1>4 DEF EndsInserted
  <2>2. CASE i = 1
    BY <1>1, <2>1, <2>2 DEF Untouched
  <2>3. CASE i # 1
    <3>1. PICK m \in 1..Len(rest) : i = m + 1
      BY <1>1, <2>1, <2>3
    <3>2. rest[m] = <<"insert", x>>
      BY <1>1, <2>1, <3>1
    <3>3. \A k \in (m + 1)..Len(rest) : rest[k][2] # x
      BY <1>1, <2>1, <3>1
    <3> QED
      BY <3>2, <3>3 DEF EndsInserted
  <2> QED
    BY <2>2, <2>3
<1> QED
  BY <1>1, <1>2, <1>3, <1>4 DEF rest

\* A part that an update names is inserted last, and no other is touched.
Renewed(x, named) == x \in named \/ (x = "tiers" /\ "actions" \in named)

LEMMA OneAfterTheOther ==
  ASSUME NEW a \in Seq(Statement), NEW b \in Seq(Statement), NEW x
  PROVE  /\ a \o b \in Seq(Statement)
         /\ a \o b = <<>> => a = <<>> /\ b = <<>>
         /\ Untouched(a, x) /\ Untouched(b, x) => Untouched(a \o b, x)
         /\ EndsInserted(b, x) => EndsInserted(a \o b, x)
         /\ EndsInserted(a, x) /\ Untouched(b, x) => EndsInserted(a \o b, x)
<1> DEFINE ab == a \o b
<1>1. /\ Len(a) \in Nat /\ Len(b) \in Nat /\ Len(ab) = Len(a) + Len(b) /\ ab \in Seq(Statement)
      /\ \A i \in 1..Len(ab) : ab[i] = IF i <= Len(a) THEN a[i] ELSE b[i - Len(a)]
  OBVIOUS
<1>2. ab = <<>> => a = <<>> /\ b = <<>>
  <2>1. ASSUME ab = <<>> PROVE Len(a) = 0 /\ Len(b) = 0
    BY <1>1, <2>1
  <2> QED
    BY <2>1
<1> HIDE DEF ab
<1>3. ASSUME Untouched(a, x), Untouched(b, x) PROVE Untouched(ab, x)
  <2>1. ASSUME NEW i \in 1..Len(ab) PROVE ab[i][2] # x
    <3>1. \/ i \in 1..Len(a) /\ ab[i] = a[i]
          \/ i - Len(a) \in 1..Len(b) /\ ab[i] = b[i - Len(a)]
      BY <1>1
    <3> QED
      BY <1>1, <1>3, <3>1 DEF Untouched
  <2> QED
    BY <2>1 DEF Untouched
<1>4. ASSUME EndsInserted(b, x) PROVE EndsInserted(ab, x)
  <2>1. PICK i \in 1..Len(b) :
          /\ b[i] = <<"insert", x>>
          /\ \A k \in (i + 1)..Len(b) : b[k][2] # x
    BY <1>4 DEF EndsInserted
  <2>2. PICK m \in 1..Len(ab) : m = Len(a) + i
    BY <1>1
  <2>3. ab[m] = <<"insert", x>>
    BY <1>1, <2>1, <2>2
  <2>4. ASSUME NEW k \in (m + 1)..Len(ab) PROVE ab[k][2] # x
    <3>1. k - Len(a) \in (i + 1)..Len(b) /\ ab[k] = b[k - Len(a)]
      BY <1>1, <2>2
    <3> QED
      BY <2>1, <3>1
  <2> QED
    BY <2>3, <2>4 DEF EndsInserted
<1>5. ASSUME EndsInserted(a, x), Untouched(b, x) PROVE EndsInserted(ab, x)
  <2>1. PICK i \in 1..Len(a) :
          /\ a[i] = <<"insert", x>>
          /\ \A k \in (i + 1)..Len(a) : a[k][2] # x
    BY <1>5 DEF EndsInserted
  <2>3. i \in 1..Len(ab) /\ ab[i] = <<"insert", x>>
    BY <1>1, <2>1
  <2>4. ASSUME NEW k \in (i + 1)..Len(ab) PROVE ab[k][2] # x
    <3>1. \/ k \in (i + 1)..Len(a) /\ ab[k] = a[k]
          \/ k - Len(a) \in 1..Len(b) /\ ab[k] = b[k - Len(a)]
      BY <1>1
    <3> QED
      BY <1>5, <2>1, <3>1 DEF Untouched
  <2> QED
    BY <2>3, <2>4 DEF EndsInserted
<1> QED
  BY <1>1, <1>2, <1>3, <1>4, <1>5 DEF ab

\* Two statements that replace a part.
LEMMA PairOfStatements ==
  ASSUME NEW a \in Statement, NEW b \in Statement
  PROVE  /\ <<a, b>> \in Seq(Statement) /\ <<a>> \in Seq(Statement)
         /\ <<a, b>> # <<>> /\ <<a>> # <<>>
         /\ \A x \in Deals!Part :
              /\ b = <<"insert", x>> => EndsInserted(<<a, b>>, x) /\ EndsInserted(<<b>>, x)
              /\ a[2] # x => Untouched(<<a>>, x)
              /\ a[2] # x /\ b[2] # x => Untouched(<<a, b>>, x)
<1>1. <<a, b>> \in Seq(Statement) /\ <<a>> \in Seq(Statement)
  OBVIOUS
<1>2. \A x \in Deals!Part : b = <<"insert", x>> => EndsInserted(<<a, b>>, x)
  <2> SUFFICES ASSUME NEW x \in Deals!Part, b = <<"insert", x>> PROVE EndsInserted(<<a, b>>, x)
    OBVIOUS
  <2>1. Len(<<a, b>>) = 2 /\ <<a, b>>[2] = b /\ 2 \in 1..2
    OBVIOUS
  <2> QED
    BY <2>1 DEF EndsInserted
<1>3. \A x \in Deals!Part : b = <<"insert", x>> => EndsInserted(<<b>>, x)
  <2> SUFFICES ASSUME NEW x \in Deals!Part, b = <<"insert", x>> PROVE EndsInserted(<<b>>, x)
    OBVIOUS
  <2>1. Len(<<b>>) = 1 /\ <<b>>[1] = b /\ 1 \in 1..1
    OBVIOUS
  <2> QED
    BY <2>1 DEF EndsInserted
<1>4. \A x \in Deals!Part :
        /\ a[2] # x => Untouched(<<a>>, x)
        /\ a[2] # x /\ b[2] # x => Untouched(<<a, b>>, x)
  BY DEF Untouched
<1> QED
  BY <1>1, <1>2, <1>3, <1>4

LEMMA StatementsRenew ==
  ASSUME NEW named \in SUBSET {"scopes", "conditions", "actions"}, named # {}
  PROVE  /\ Deals!Statements(named) \in Seq(Statement) /\ Deals!Statements(named) # <<>>
         /\ \A x \in Deals!Part :
              /\ Renewed(x, named) => EndsInserted(Deals!Statements(named), x)
              /\ ~Renewed(x, named) => Untouched(Deals!Statements(named), x)
<1>1. ASSUME NEW x \in Deals!Part
      PROVE  /\ Deals!Replace(x) \in Seq(Statement) /\ Deals!Replace(x) # <<>>
             /\ EndsInserted(Deals!Replace(x), x)
             /\ \A y \in Deals!Part \ {x} : Untouched(Deals!Replace(x), y)
  <2>1. <<"delete", x>> \in Statement /\ <<"insert", x>> \in Statement
    BY DEF Statement
  <2> QED
    BY <2>1, PairOfStatements DEF Deals!Replace
<1>2. {"scopes", "conditions", "actions", "tiers"} = Deals!Part
  BY DEF Deals!Part
<1>3. <<>> \in Seq(Statement) /\ \A x : Untouched(<<>>, x)
  BY DEF Untouched
<1> DEFINE T == <<<<"delete", "tiers">>>>  I == <<<<"insert", "tiers">>>>
           TA == T \o Deals!Replace("actions")  A == TA \o I
<1>4. T \in Seq(Statement) /\ \A x \in Deals!Part \ {"tiers"} : Untouched(T, x)
  <2>1. <<"delete", "tiers">> \in Statement
    BY DEF Statement, Deals!Part
  <2> QED
    BY <2>1, PairOfStatements
<1>5. /\ I \in Seq(Statement) /\ I # <<>> /\ EndsInserted(I, "tiers")
      /\ \A x \in Deals!Part \ {"tiers"} : Untouched(I, x)
  <2>1. <<"insert", "tiers">> \in Statement /\ "tiers" \in Deals!Part
    BY DEF Statement, Deals!Part
  <2> QED
    BY <2>1, PairOfStatements
<1> HIDE DEF T, I
<1>6. /\ TA \in Seq(Statement) /\ EndsInserted(TA, "actions")
      /\ Untouched(TA, "scopes") /\ Untouched(TA, "conditions")
  BY <1>1, <1>2, <1>4, OneAfterTheOther
<1> HIDE DEF TA
<1>7. /\ A \in Seq(Statement) /\ A # <<>>
      /\ EndsInserted(A, "actions") /\ EndsInserted(A, "tiers")
      /\ Untouched(A, "scopes") /\ Untouched(A, "conditions")
  BY <1>2, <1>5, <1>6, OneAfterTheOther
<1> HIDE DEF A
<1> DEFINE a == IF "scopes" \in named THEN Deals!Replace("scopes") ELSE <<>>
           b == IF "conditions" \in named THEN Deals!Replace("conditions") ELSE <<>>
           c == IF "actions" \in named THEN A ELSE <<>>
           ab == a \o b
<1>8. /\ a \in Seq(Statement) /\ (a = <<>> <=> "scopes" \notin named)
      /\ \A x \in Deals!Part : IF x \in named /\ x = "scopes" THEN EndsInserted(a, x)
                         ELSE Untouched(a, x)
  BY <1>1, <1>2, <1>3
<1>9. /\ b \in Seq(Statement) /\ (b = <<>> <=> "conditions" \notin named)
      /\ \A x \in Deals!Part : IF x \in named /\ x = "conditions" THEN EndsInserted(b, x)
                         ELSE Untouched(b, x)
  BY <1>1, <1>2, <1>3
<1>10. /\ c \in Seq(Statement) /\ (c = <<>> <=> "actions" \notin named)
       /\ \A x \in Deals!Part : IF "actions" \in named /\ x \in {"actions", "tiers"}
                          THEN EndsInserted(c, x) ELSE Untouched(c, x)
  BY <1>2, <1>3, <1>7
<1> HIDE DEF a, b, c
<1>11. /\ ab \in Seq(Statement)
       /\ (ab = <<>> => "scopes" \notin named /\ "conditions" \notin named)
       /\ \A x \in Deals!Part : IF x \in named /\ x \in {"scopes",
              "conditions"} THEN EndsInserted(ab, x)
                          ELSE Untouched(ab, x)
  <2>1. ab \in Seq(Statement) /\ (ab = <<>> => "scopes" \notin named /\ "conditions" \notin named)
    BY <1>8, <1>9, OneAfterTheOther
  <2>2. ASSUME NEW x \in Deals!Part
        PROVE  IF x \in named /\ x \in {"scopes", "conditions"} THEN EndsInserted(ab, x)
               ELSE Untouched(ab, x)
    <3>1. /\ Untouched(a, x) /\ Untouched(b, x) => Untouched(ab, x)
          /\ EndsInserted(b, x) => EndsInserted(ab, x)
          /\ EndsInserted(a, x) /\ Untouched(b, x) => EndsInserted(ab, x)
      BY <1>8, <1>9, OneAfterTheOther
    <3> QED
      BY <1>8, <1>9, <3>1
  <2> QED
    BY <2>1, <2>2
<1> HIDE DEF ab
<1>12. /\ ab \o c \in Seq(Statement) /\ ab \o c # <<>>
       /\ \A x \in Deals!Part : IF Renewed(x, named) THEN EndsInserted(ab \o c, x)
                          ELSE Untouched(ab \o c, x)
  <2>1. ab \o c \in Seq(Statement) /\ ab \o c # <<>>
    BY <1>10, <1>11, OneAfterTheOther
  <2>2. ASSUME NEW x \in Deals!Part
        PROVE  IF Renewed(x, named) THEN EndsInserted(ab \o c, x) ELSE Untouched(ab \o c, x)
    <3>1. /\ Untouched(ab, x) /\ Untouched(c, x) => Untouched(ab \o c, x)
          /\ EndsInserted(c, x) => EndsInserted(ab \o c, x)
          /\ EndsInserted(ab, x) /\ Untouched(c, x) => EndsInserted(ab \o c, x)
      BY <1>10, <1>11, OneAfterTheOther
    <3> QED
      BY <1>2, <1>10, <1>11, <3>1 DEF Renewed
  <2> QED
    BY <2>1, <2>2
<1>13. Deals!Statements(named) = a \o b \o c
  BY DEF Deals!Statements, a, b, c, A, TA, T, I
<1> QED
  BY <1>12, <1>13 DEF ab

-----------------------------------------------------------------------------

\* The tables: a row for every id, an absent one has sold nothing, and every use that was
\* recorded has taken a slot.
SlotsTaken ==
  /\ offers = [p \in Promotions |-> offers[p]] /\ usages = [p \in Promotions |-> usages[p]]
  /\ \A p \in Promotions :
       /\ offers[p] = [status |-> offers[p].status, code |-> offers[p].code,
                     usageCount |-> offers[p].usageCount]
       /\ offers[p].usageCount \in Nat /\ usages[p] \in Nat
       /\ usages[p] <= offers[p].usageCount /\ offers[p].usageCount <= UsageLimit
       /\ offers[p].status = "absent" => offers[p].usageCount = 0

PartTables ==
  /\ offerParts = [p \in Promotions |-> offerParts[p]]
  /\ partsEntered = [p \in Promotions |-> partsEntered[p]]
  /\ \A p \in Promotions :
       offerParts[p] = [x \in Deals!Part |-> offerParts[p][x]] /\ partsEntered[p] = [x \in
           Deals!Part |-> partsEntered[p][x]]

\* What each handler relies on while it is the only one.
CopyFits(j) == j.parts = [x \in Deals!Part |-> j.parts[x]] /\ j.status = "draft"

UpdateFits(j) ==
  /\ j.promotion \in Deals!There /\ j.loaded = offerParts[j.promotion]
  /\ j.row = [status |-> j.row.status, code |-> j.row.code, usageCount |-> j.row.usageCount]
  /\ j.row.usageCount = offers[j.promotion].usageCount /\ j.row.status # "absent"
  /\ j.named \in SUBSET {"scopes", "conditions", "actions"}

PartsFit(j) ==
  /\ j = [promotion |-> j.promotion, parts |-> j.parts, todo |-> j.todo]
  /\ j.promotion \in Deals!There /\ j.parts = partsEntered[j.promotion]
  /\ j.todo \in Seq(Statement) /\ j.todo # <<>>
  /\ \A x \in Deals!Part :
       \/ EndsInserted(j.todo, x)
       \/ Untouched(j.todo, x) /\ offerParts[j.promotion][x] = partsEntered[j.promotion][x]

RemoveFits(j) ==
  j = [promotion |-> j.promotion, todo |-> j.todo] /\ j.promotion \in Promotions

UseFits(j) == j.promotion \in Deals!There /\ usages[j.promotion] < offers[j.promotion].usageCount

OfferJobs ==
  \A r \in Requests :
    /\ pc[r] \in {"idle", "copy", "update", "parts", "remove", "use"}
    /\ pc[r] = "copy" => CopyFits(job[r])
    /\ pc[r] = "update" => UpdateFits(job[r])
    /\ pc[r] = "parts" => PartsFit(job[r])
    /\ pc[r] = "remove" => RemoveFits(job[r])
    /\ pc[r] = "use" => UseFits(job[r])

\* A promotion that no handler is at work on is whole, unless one ended half way.
WholeAtRest ==
  \A p \in Deals!There \ partsTorn :
    (\A r \in Requests : pc[r] \in {"parts", "remove"} => job[r].promotion # p)
      => offerParts[p] = partsEntered[p]

OffersInv == Slots /\ SlotsTaken /\ PartTables /\ OfferJobs /\ WholeAtRest

LEMMA OffersInit == UsageLimit \in Nat /\ OfferStart => OffersInv
<1> SUFFICES ASSUME UsageLimit \in Nat, OfferStart PROVE OffersInv
  OBVIOUS
<1>1. Slots /\ OfferJobs
  BY DEF OfferStart, Quiet, Slots, OfferJobs
<1>2. PICK p \in Promotions :
         /\ offers = [q \in Promotions |-> IF q # p THEN Deals!NoRow
              ELSE [status |-> "active", code |-> CHOOSE c \in Codes : TRUE, usageCount |-> 0]]
         /\ offerParts = [q \in Promotions |-> IF q = p THEN [x \in
                Deals!Part |-> 1] ELSE Deals!NoParts]
         /\ partsEntered = offerParts /\ usages = [q \in Promotions |-> 0]
  BY DEF OfferStart, Deals!PromotionsInit
<1>3. SlotsTaken
  <2>1. ASSUME NEW q \in Promotions
        PROVE  /\ offers[q] = [status |-> offers[q].status, code |-> offers[q].code,
                             usageCount |-> offers[q].usageCount]
               /\ offers[q].usageCount = 0 /\ usages[q] = 0
    <3>1. PICK d : d = CHOOSE c \in Codes : TRUE
      OBVIOUS
    <3>2. offers[q] =
            IF q # p THEN Deals!NoRow ELSE [status |-> "active", code |-> d, usageCount |-> 0]
      BY <1>2, <3>1
    <3> QED
      BY <1>2, <3>2 DEF Deals!NoRow
  <2>2. offers = [q \in Promotions |-> offers[q]] /\ usages = [q \in Promotions |-> usages[q]]
    BY <1>2
  <2> QED
    BY <2>1, <2>2 DEF SlotsTaken
<1>4. PartTables /\ WholeAtRest
  BY <1>2 DEF PartTables, WholeAtRest, Deals!NoParts
<1> QED
  BY <1>1, <1>3, <1>4 DEF OffersInv

LEMMA OffersNext ==
  OneAtATime /\ UsageLimit \in Nat /\ OffersInv /\ [Deals!Next]_offerVars => OffersInv'
<1> SUFFICES ASSUME OneAtATime, UsageLimit \in Nat, OffersInv, [Deals!Next]_offerVars
             PROVE  OffersInv'
  OBVIOUS
<1> USE DEF OffersInv
\* A step that starts a handler, or one that has only one.
<1>a. ASSUME NEW r \in Requests, NEW l, NEW j, Deals!Begin(r, l, j) \/ Deals!Continue(r, l, j)
      PROVE  /\ Slots' /\ pc'[r] = l /\ job'[r] = j
             /\ \A q \in Requests : q = r
  BY <1>a DEF Deals!Begin, Deals!Continue, Slots, OneAtATime
<1>b. ASSUME NEW r \in Requests, Deals!Finish(r)
      PROVE  Slots' /\ pc'[r] = "idle" /\ OfferJobs' /\ \A q \in Requests : q = r
  <2>1. Slots' /\ pc'[r] = "idle" /\ \A q \in Requests : q = r
    BY <1>b DEF Deals!Finish, Slots, OneAtATime
  <2> QED
    BY <2>1 DEF OfferJobs
<1>c. ASSUME NEW r \in Requests, Deals!AtOnce(r)
      PROVE  Slots' /\ OfferJobs' /\ \A q \in Requests : q = r /\ pc[q] = "idle"
  <2>1. Slots' /\ UNCHANGED <<pc, job>> /\ pc[r] = "idle" /\ \A q \in Requests : q = r
    BY <1>c DEF Deals!AtOnce, Slots, OneAtATime
  <2> QED
    BY <2>1 DEF OfferJobs
<1>d. ASSUME UNCHANGED <<offers, usages>> PROVE SlotsTaken'
  BY <1>d DEF SlotsTaken
<1>e. ASSUME UNCHANGED <<offerParts, partsEntered>> PROVE PartTables'
  BY <1>e DEF PartTables
\* At rest nobody is at work.
<1>f. ASSUME NEW r \in Requests, \A q \in Requests : q = r,
             pc[r] \notin {"parts", "remove"}, NEW p \in Deals!There \ partsTorn
      PROVE  offerParts[p] = partsEntered[p]
  BY <1>f DEF WholeAtRest
<1>g. ASSUME NEW r \in Requests, \A q \in Requests : q = r,
             pc[r] \notin {"parts", "remove"},
             UNCHANGED <<offerParts, partsEntered, partsTorn>>, Deals!There' = Deals!There
      PROVE  WholeAtRest'
  BY <1>f, <1>g DEF WholeAtRest
<1>1. ASSUME NEW r \in Requests, NEW p \in Promotions, NEW c, Deals!Create(r, p, c)
      PROVE  OffersInv'
  <2>1. Deals!AtOnce(r) /\ UNCHANGED <<usages, partsTorn>> /\ offers[p].status = "absent"
    BY <1>1 DEF Deals!Create, Deals!There
  <2>2. PICK s \in {"draft", "active"} :
           offers' = [offers EXCEPT ![p] = [status |-> s, code |-> c, usageCount |-> 0]]
    BY <1>1 DEF Deals!Create
  <2>3. SlotsTaken'
    BY <2>1, <2>2 DEF SlotsTaken
  <2>4. PICK e :
          /\ offerParts' = [offerParts EXCEPT ![p] = [x \in Deals!Part |-> e]]
          /\ partsEntered' = [partsEntered EXCEPT ![p] = offerParts'[p]]
    BY <1>1 DEF Deals!Create
  <2>5. PartTables' /\ offerParts'[p] = partsEntered'[p]
    BY <2>4 DEF PartTables
  <2>6. \A q \in Promotions \ {p} :
          /\ offerParts'[q] = offerParts[q] /\ partsEntered'[q] = partsEntered[q]
          /\ offers'[q] = offers[q]
    BY <2>2, <2>4 DEF PartTables, SlotsTaken
  <2>7. WholeAtRest'
    BY <2>1, <2>5, <2>6, <1>c, <1>f DEF WholeAtRest, Deals!There
  <2> QED
    BY <2>1, <2>3, <2>5, <2>7, <1>c
<1>2. ASSUME NEW r \in Requests, NEW p \in Promotions, Deals!DuplicateRead(r, p)
      PROVE  OffersInv'
  <2>1. PICK c : Deals!Begin(r, "copy", [of |-> p, code |-> c, status |-> Deals!CopyStatus(p),
                                   parts |-> offerParts[p]])
    BY <1>2 DEF Deals!DuplicateRead
  <2>2. PICK j :
          j = [of |-> p, code |-> c, status |-> Deals!CopyStatus(p), parts |-> offerParts[p]]
    OBVIOUS
  <2>3. CopyFits(j)
    BY <2>2 DEF Deals!CopyStatus, CopyFits, PartTables
  <2>4. Slots' /\ pc'[r] = "copy" /\ job'[r] = j /\ \A q \in Requests : q = r
    BY <2>1, <2>2, <1>a
  <2>5. UNCHANGED Deals!promotionVars /\ pc[r] = "idle"
    BY <1>2, <2>1 DEF Deals!DuplicateRead, Deals!Begin
  <2>6. UNCHANGED <<offers, offerParts, partsEntered, usages,
          partsTorn>> /\ Deals!There' = Deals!There
    BY <2>5 DEF Deals!promotionVars, Deals!There
  <2>7. OfferJobs'
    BY <2>3, <2>4 DEF OfferJobs, CopyFits
  <2> QED
    BY <2>4, <2>5, <2>6, <2>7, <1>d, <1>e, <1>g
<1>3. ASSUME NEW r \in Requests, NEW p \in Promotions, Deals!DuplicateRow(r, p)
      PROVE  OffersInv'
  <2>1. PICK list : list = <<<<"insert", "scopes">>, <<"insert", "conditions">>,
                             <<"insert", "actions">>, <<"insert", "tiers">>>>
    OBVIOUS
  <2>2. PICK j : j = [promotion |-> p, parts |-> job[r].parts, todo |-> list]
    OBVIOUS
  <2>3. /\ pc[r] = "copy" /\ p \notin Deals!There /\ Deals!Continue(r, "parts", j)
        /\ UNCHANGED <<offerParts, usages, partsTorn>>
        /\ offers' = [offers EXCEPT ![p] = [status |-> job[r].status, code |-> job[r].code,
                                        usageCount |-> 0]]
        /\ partsEntered' = [partsEntered EXCEPT ![p] = job[r].parts]
    BY <1>3, <2>1, <2>2 DEF Deals!DuplicateRow
  <2>4. Slots' /\ pc'[r] = "parts" /\ job'[r] = j /\ \A q \in Requests : q = r
    BY <2>3, <1>a
  <2>5. CopyFits(job[r])
    BY <2>3 DEF OfferJobs
  <2>6. SlotsTaken'
    BY <2>3, <2>5 DEF SlotsTaken, Deals!There, CopyFits
  <2>7. PartTables' /\ partsEntered'[p] = job[r].parts
    BY <2>3, <2>5 DEF PartTables, CopyFits
  <2>8. p \in Deals!There'
    BY <2>3, <2>5 DEF Deals!There, CopyFits, SlotsTaken
  <2>9. list \in Seq(Statement) /\ list # <<>> /\ \A x \in Deals!Part : EndsInserted(list, x)
    <3>1. list \in Seq(Statement) /\ list # <<>> /\ Len(list) = 4
      BY <2>1 DEF Statement, Deals!Part
    <3>2. ASSUME NEW x \in Deals!Part PROVE EndsInserted(list, x)
      <4>1. \A k \in 1..4 : list[k][2] = CASE k = 1 -> "scopes" [] k = 2 -> "conditions"
                                           [] k = 3 -> "actions" [] k = 4 -> "tiers"
        BY <2>1
      <4>2. \E i \in 1..4 : list[i] = <<"insert", x>>
        BY <2>1 DEF Deals!Part
      <4>3. PICK i \in 1..4 : list[i] = <<"insert", x>>
        BY <4>2
      <4>4. \A k \in (i + 1)..4 : list[k][2] # x
        BY <4>1, <4>3
      <4> QED
        BY <3>1, <4>3, <4>4 DEF EndsInserted
    <3> QED
      BY <3>1, <3>2
  <2>10. PartsFit(j)'
    BY <2>2, <2>7, <2>8, <2>9, <2>4 DEF PartsFit
  <2>11. OfferJobs'
    BY <2>4, <2>10 DEF OfferJobs, PartsFit
  <2>12. WholeAtRest'
    <3>1. ASSUME NEW q \in Deals!There' \ partsTorn', q # p
          PROVE offerParts'[q] = partsEntered'[q]
      <4>1. q \in Deals!There \ partsTorn /\ offerParts'[q] = offerParts[q] /\ partsEntered'[q] =
              partsEntered[q]
        BY <2>3, <3>1 DEF Deals!There, SlotsTaken, PartTables
      <4> QED
        BY <2>3, <2>4, <4>1, <1>f
    <3> QED
      BY <2>2, <2>4, <3>1 DEF WholeAtRest
  <2> QED
    BY <2>4, <2>6, <2>7, <2>11, <2>12
<1>4. ASSUME NEW r \in Requests, NEW p \in Promotions, NEW s \in {offers[p].status, "paused"},
             NEW named \in SUBSET {"scopes", "conditions", "actions"},
             Deals!UpdateRead(r, p, s, named)
      PROVE  OffersInv'
  <2>1. PICK row : row = [offers[p] EXCEPT !.status = s]
    OBVIOUS
  <2>2. PICK j : j = [promotion |-> p, row |-> row, loaded |-> offerParts[p], named |-> named,
                      edit |-> partEdits']
    OBVIOUS
  <2>3. /\ p \in Deals!There /\ Deals!Begin(r, "update", j)
        /\ UNCHANGED <<offers, offerParts, partsEntered, usages, partsTorn>>
    BY <1>4, <2>1, <2>2 DEF Deals!UpdateRead
  <2>4. /\ Slots' /\ pc'[r] = "update" /\ job'[r] = j /\ pc[r] = "idle"
        /\ \A q \in Requests : q = r
    BY <2>3, <1>a DEF Deals!Begin
  <2>5. row = [status |-> s, code |-> offers[p].code, usageCount |-> offers[p].usageCount]
    BY <2>1 DEF SlotsTaken
  <2>6. Deals!There' = Deals!There
    BY <2>3 DEF Deals!There
  <2>7. s # "absent"
    BY <2>3 DEF Deals!There
  <2>8. UpdateFits(j)'
    BY <2>2, <2>3, <2>4, <2>5, <2>6, <2>7 DEF UpdateFits
  <2>9. OfferJobs'
    BY <2>4, <2>8 DEF OfferJobs, UpdateFits
  <2> QED
    BY <2>3, <2>4, <2>6, <2>9, <1>d, <1>e, <1>g
<1>5. ASSUME NEW r \in Requests, NEW p \in Promotions, NEW s \in {"active", "paused",
             "cancelled"},
             Deals!SetStatus(r, p, s)
      PROVE  OffersInv'
  <2>1. /\ p \in Deals!There /\ Deals!AtOnce(r) /\ offers' = [offers EXCEPT ![p].status = s]
        /\ UNCHANGED <<offerParts, partsEntered, usages, partsTorn>>
    BY <1>5 DEF Deals!SetStatus
  <2>2. PICK y : y = [offers[p] EXCEPT !.status = s]
    OBVIOUS
  <2>3. y = [status |-> s, code |-> offers[p].code, usageCount |-> offers[p].usageCount]
    BY <2>2 DEF SlotsTaken
  <2>4. offers' = [offers EXCEPT ![p] = y]
    BY <2>1, <2>2
  <2>5. SlotsTaken' /\ Deals!There' = Deals!There
    <3>1. \A q \in Promotions : offers'[q] = IF q = p THEN y ELSE offers[q]
      BY <2>4 DEF SlotsTaken
    <3>2. offers' = [q \in Promotions |-> offers'[q]]
      BY <2>4 DEF SlotsTaken
    <3> QED
      BY <2>1, <2>3, <3>1, <3>2 DEF SlotsTaken, Deals!There
  <2> QED
    BY <2>1, <2>5, <1>c, <1>e, <1>g
<1>6. ASSUME NEW r \in Requests, NEW p \in Promotions, Deals!RemoveRead(r, p) PROVE OffersInv'
  <2>1. PICK j : j = [promotion |-> p,
         todo |-> <<"rewards", "usages", "scopes", "conditions", "actions", "row">>]
    OBVIOUS
  <2>2. Deals!Begin(r, "remove", j) /\ UNCHANGED Deals!promotionVars
    BY <1>6, <2>1 DEF Deals!RemoveRead
  <2>3. UNCHANGED <<offers, offerParts, partsEntered, usages, partsTorn>>
    BY <2>2 DEF Deals!promotionVars
  <2>4. /\ Slots' /\ pc'[r] = "remove" /\ job'[r] = j /\ pc[r] = "idle"
        /\ \A q \in Requests : q = r
    BY <2>2, <1>a DEF Deals!Begin
  <2>5. RemoveFits(j)
    BY <2>1 DEF RemoveFits
  <2>6. OfferJobs'
    BY <2>4, <2>5 DEF OfferJobs, RemoveFits
  <2>7. Deals!There' = Deals!There
    BY <2>3 DEF Deals!There
  <2> QED
    BY <2>3, <2>4, <2>6, <2>7, <1>d, <1>e, <1>g
<1>7. ASSUME NEW r \in Requests, NEW p \in Promotions, Deals!ConsumeSlot(r, p) PROVE OffersInv'
  <2>1. /\ p \in Deals!There /\ offers[p].usageCount < UsageLimit
        /\ offers' = [offers EXCEPT ![p].usageCount = @ + 1]
        /\ Deals!Begin(r, "use", [promotion |-> p])
        /\ UNCHANGED <<offerParts, partsEntered, usages, partsTorn>>
    BY <1>7 DEF Deals!ConsumeSlot, Deals!Quota
  <2>2. PICK y : y = [offers[p] EXCEPT !.usageCount = @ + 1]
    OBVIOUS
  <2>3. y = [status |-> offers[p].status, code |-> offers[p].code,
             usageCount |-> offers[p].usageCount + 1]
    BY <2>2 DEF SlotsTaken
  <2>4. offers' = [offers EXCEPT ![p] = y]
    BY <2>1, <2>2
  <2>5. \A q \in Promotions : offers'[q] = IF q = p THEN y ELSE offers[q]
    BY <2>4 DEF SlotsTaken
  <2>6. offers' = [q \in Promotions |-> offers'[q]]
    BY <2>4 DEF SlotsTaken
  <2>7. Deals!There' = Deals!There
    BY <2>3, <2>5 DEF Deals!There
  <2>8. SlotsTaken'
    <3>1. ASSUME NEW q \in Promotions
          PROVE  /\ offers'[q] = [status |-> offers'[q].status, code |-> offers'[q].code,
                                usageCount |-> offers'[q].usageCount]
                 /\ offers'[q].usageCount \in Nat /\ usages'[q] \in Nat
                 /\ usages'[q] <= offers'[q].usageCount /\ offers'[q].usageCount <= UsageLimit
                 /\ offers'[q].status = "absent" => offers'[q].usageCount = 0
      <4>1. CASE q = p
        BY <2>1, <2>3, <2>5, <4>1 DEF SlotsTaken, Deals!There
      <4>2. CASE q # p
        BY <2>1, <2>5, <4>2 DEF SlotsTaken
      <4> QED
        BY <4>1, <4>2
    <3>2. usages' = [q \in Promotions |-> usages'[q]]
      BY <2>1 DEF SlotsTaken
    <3> QED
      BY <2>6, <3>1, <3>2 DEF SlotsTaken
  <2>9. PICK j : j = [promotion |-> p]
    OBVIOUS
  <2>10. /\ Slots' /\ pc'[r] = "use" /\ job'[r] = j /\ pc[r] = "idle"
         /\ \A q \in Requests : q = r
    BY <2>1, <2>9, <1>a DEF Deals!Begin
  <2>11. usages'[p] < offers'[p].usageCount
    BY <2>1, <2>3, <2>5 DEF SlotsTaken
  <2>12. OfferJobs'
    BY <2>1, <2>7, <2>9, <2>10, <2>11 DEF OfferJobs, UseFits
  <2> QED
    BY <2>1, <2>7, <2>8, <2>10, <2>12, <1>e, <1>g
<1>8. ASSUME NEW r \in Requests, Deals!UpdateRow(r) PROVE OffersInv'
  <2>1. PICK p : p = job[r].promotion
    OBVIOUS
  <2>2. PICK new : new = [x \in Deals!Part |-> IF Renewed(x, job[r].named) THEN job[r].edit
                                         ELSE job[r].loaded[x]]
    OBVIOUS
  <2>3. /\ pc[r] = "update" /\ p \in Deals!There /\ UNCHANGED <<usages, partsTorn>>
        /\ offers' = [offers EXCEPT ![p] = job[r].row]
        /\ offerParts' = [offerParts EXCEPT ![p] = Deals!Cascaded(job[r].loaded, @)]
        /\ partsEntered' = [partsEntered EXCEPT ![p] = new]
        /\ \/ job[r].named = {} /\ Deals!Finish(r)
           \/ /\ job[r].named # {}
              /\ Deals!Continue(r, "parts", [promotion |-> p, parts |-> new,
                                       todo |-> Deals!Statements(job[r].named)])
    BY <1>8, <2>1, <2>2 DEF Deals!UpdateRow, Renewed
  <2>4. UpdateFits(job[r])
    BY <2>3 DEF OfferJobs
  <2>5. p \in Promotions /\ job[r].loaded = offerParts[p]
    BY <2>1, <2>4 DEF UpdateFits, Deals!There
  <2>6. Deals!Cascaded(job[r].loaded, offerParts[p]) = offerParts[p]
    BY <2>5 DEF Deals!Cascaded, PartTables
  <2>7. UNCHANGED offerParts
    BY <2>3, <2>5, <2>6 DEF PartTables
  <2>8. \A q \in Promotions : offers'[q] = IF q = p THEN job[r].row ELSE offers[q]
    BY <2>3 DEF SlotsTaken
  <2>9. offers' = [q \in Promotions |-> offers'[q]]
    BY <2>3 DEF SlotsTaken
  <2>10. Deals!There' = Deals!There
    BY <2>3, <2>4, <2>8 DEF Deals!There, UpdateFits
  <2>11. SlotsTaken'
    BY <2>1, <2>3, <2>4, <2>5, <2>8, <2>9 DEF SlotsTaken, UpdateFits, Deals!There
  <2>12. PartTables' /\ partsEntered'[p] = new
    BY <2>2, <2>3, <2>5, <2>7 DEF PartTables
  <2>13. \A q \in Promotions \ {p} : partsEntered'[q] = partsEntered[q]
    BY <2>3 DEF PartTables
  <2>14. \A q \in Requests : q = r
    BY DEF OneAtATime
  <2>15. \A x \in Deals!Part : Renewed(x, job[r].named) \/ new[x] = offerParts[p][x]
    BY <2>2, <2>5
  <2>16. ASSUME NEW q \in Deals!There \ partsTorn, q # p PROVE offerParts'[q] = partsEntered'[q]
    BY <1>f, <2>3, <2>7, <2>13, <2>14, <2>16 DEF Deals!There
  <2>17. CASE job[r].named = {}
    <3>1. Slots' /\ OfferJobs'
      BY <2>3, <2>17, <1>b
    <3>2. new = offerParts[p]
      BY <2>2, <2>5, <2>17 DEF Renewed, PartTables
    <3>3. WholeAtRest'
      BY <2>3, <2>7, <2>10, <2>12, <2>16, <3>2 DEF WholeAtRest
    <3> QED
      BY <2>11, <2>12, <3>1, <3>3
  <2>18. CASE job[r].named # {}
    <3>1. PICK j : j = [promotion |-> p, parts |-> new, todo |-> Deals!Statements(job[r].named)]
      OBVIOUS
    <3>2. Slots' /\ pc'[r] = "parts" /\ job'[r] = j
      BY <2>3, <2>18, <3>1, <1>a
    <3>3. /\ Deals!Statements(job[r].named) \in Seq(Statement)
          /\ Deals!Statements(job[r].named) # <<>>
          /\ \A x \in Deals!Part :
               /\ Renewed(x, job[r].named) => EndsInserted(Deals!Statements(job[r].named), x)
               /\ ~Renewed(x, job[r].named) => Untouched(Deals!Statements(job[r].named), x)
      BY <2>4, <2>18, StatementsRenew DEF UpdateFits
    <3>4. \A x \in Deals!Part :
            \/ EndsInserted(Deals!Statements(job[r].named), x)
            \/ /\ Untouched(Deals!Statements(job[r].named), x)
               /\ offerParts'[p][x] = partsEntered'[p][x]
      BY <2>7, <2>12, <2>15, <3>3
    <3>5. PartsFit(j)'
      BY <2>3, <2>10, <2>12, <3>1, <3>2, <3>3, <3>4 DEF PartsFit
    <3>6. OfferJobs'
      BY <2>14, <3>2, <3>5 DEF OfferJobs, PartsFit
    <3>7. WholeAtRest'
      BY <2>3, <2>10, <2>14, <2>16, <3>1, <3>2 DEF WholeAtRest
    <3> QED
      BY <2>11, <2>12, <3>2, <3>6, <3>7
  <2> QED
    BY <2>17, <2>18
<1>9. ASSUME NEW r \in Requests, Deals!PartStatement(r) PROVE OffersInv'
  <2>1. PICK p : p = job[r].promotion
    OBVIOUS
  <2>2. PICK list : list = job[r].todo
    OBVIOUS
  <2>3. PICK do : do = Head(list)
    OBVIOUS
  <2>4. /\ pc[r] = "parts" /\ p \in Deals!There
        /\ UNCHANGED <<offers, partsEntered, usages, partsTorn>>
        /\ offerParts' = [offerParts EXCEPT ![p][do[2]] = IF do[1] =
               "insert" THEN job[r].parts[do[2]] ELSE 0]
        /\ IF Len(list) = 1 THEN Deals!Finish(r)
           ELSE Deals!Continue(r, "parts", [job[r] EXCEPT !.todo = Tail(@)])
    BY <1>9, <2>1, <2>2, <2>3 DEF Deals!PartStatement
  <2>5. PartsFit(job[r])
    BY <2>4 DEF OfferJobs
  <2>6. list \in Seq(Statement) /\ list # <<>> /\ p \in Promotions /\ job[r].parts =
          partsEntered[p]
    BY <2>1, <2>2, <2>5 DEF PartsFit, Deals!There
  <2>7. /\ do \in Statement /\ Tail(list) \in Seq(Statement)
        /\ Len(list) = 1 <=> Tail(list) = <<>>
        /\ \A x \in Deals!Part :
              /\ Untouched(list, x) => Untouched(Tail(list), x) /\ do[2] # x
              /\ EndsInserted(list, x) =>
                   \/ EndsInserted(Tail(list), x)
                   \/ do = <<"insert", x>> /\ Untouched(Tail(list), x)
    BY <2>3, <2>6, RestOfStatements
  <2>8. PICK y : y = [offerParts[p] EXCEPT ![do[2]] =
                        IF do[1] = "insert" THEN partsEntered[p][do[2]] ELSE 0]
    OBVIOUS
  <2>9. offerParts' = [offerParts EXCEPT ![p] = y]
    BY <2>4, <2>6, <2>8
  <2>10. /\ y = [x \in Deals!Part |-> y[x]]
         /\ \A x \in Deals!Part : y[x] = IF x = do[2] THEN (IF do[1] =
                "insert" THEN partsEntered[p][x] ELSE 0)
                                   ELSE offerParts[p][x]
    BY <2>6, <2>8 DEF PartTables
  <2>11. PartTables' /\ offerParts'[p] = y /\ \A q \in Promotions \ {p} :
           offerParts'[q] = offerParts[q]
    <3>1. /\ offerParts'[p] = y /\ \A q \in Promotions \ {p} : offerParts'[q] = offerParts[q]
          /\ offerParts' = [q \in Promotions |-> offerParts'[q]]
      BY <2>6, <2>9 DEF PartTables
    <3>2. \A q \in Promotions : offerParts'[q] = [x \in Deals!Part |-> offerParts'[q][x]]
      BY <2>10, <3>1 DEF PartTables
    <3> QED
      BY <2>4, <3>1, <3>2 DEF PartTables
  <2>12. \A x \in Deals!Part :
           \/ EndsInserted(Tail(list), x)
           \/ Untouched(Tail(list), x) /\ y[x] = partsEntered[p][x]
    BY <2>1, <2>2, <2>5, <2>7, <2>10 DEF PartsFit
  <2>13. Deals!There' = Deals!There /\ \A q \in Requests : q = r
    BY <2>4 DEF Deals!There, OneAtATime
  <2>14. ASSUME NEW q \in Deals!There \ partsTorn, q # p PROVE offerParts'[q] = partsEntered'[q]
    <3>1. \A s \in Requests : pc[s] \in {"parts", "remove"} => job[s].promotion # q
      BY <2>1, <2>13, <2>14
    <3> QED
      BY <2>4, <2>11, <2>14, <3>1 DEF WholeAtRest, Deals!There
  <2>15. CASE Len(list) = 1
    <3>1. Slots' /\ OfferJobs'
      BY <2>4, <2>15, <1>b
    <3>2. Tail(list) = <<>>
      BY <2>7, <2>15
    <3>3. \A x \in Deals!Part : ~EndsInserted(Tail(list), x)
      BY <3>2, NothingInserts
    <3>4. y = partsEntered[p]
      BY <2>6, <2>10, <2>12, <3>3 DEF PartTables
    <3>5. WholeAtRest'
      BY <2>4, <2>11, <2>13, <2>14, <3>4 DEF WholeAtRest
    <3> QED
      BY <2>4, <2>11, <3>1, <3>5, <1>d
  <2>16. CASE Len(list) # 1
    <3>1. PICK j : j = [job[r] EXCEPT !.todo = Tail(@)]
      OBVIOUS
    <3>2. Slots' /\ pc'[r] = "parts" /\ job'[r] = j
      BY <2>4, <2>16, <3>1, <1>a
    <3>3. j = [promotion |-> p, parts |-> job[r].parts, todo |-> Tail(list)]
      BY <2>1, <2>2, <2>5, <3>1 DEF PartsFit
    <3>4. PartsFit(j)'
      <4>1. j.promotion = p /\ j.parts = partsEntered'[p] /\ j.todo = Tail(list)
        BY <2>4, <2>6, <3>3
      <4>2. \A x \in Deals!Part :
              \/ EndsInserted(j.todo, x)
              \/ Untouched(j.todo, x) /\ offerParts'[p][x] = partsEntered'[p][x]
        BY <2>4, <2>11, <2>12, <4>1
      <4>3. j.todo \in Seq(Statement) /\ j.todo # <<>>
        BY <2>7, <2>16, <4>1
      <4>4. j = [promotion |-> j.promotion, parts |-> j.parts, todo |-> j.todo]
        BY <3>3
      <4> QED
        BY <2>4, <2>13, <3>2, <4>1, <4>2, <4>3, <4>4 DEF PartsFit
    <3>5. OfferJobs'
      BY <2>13, <3>2, <3>4 DEF OfferJobs, PartsFit
    <3>6. WholeAtRest'
      BY <2>4, <2>13, <2>14, <3>2, <3>3 DEF WholeAtRest
    <3> QED
      BY <2>4, <2>11, <3>2, <3>5, <3>6, <1>d
  <2> QED
    BY <2>15, <2>16
<1>10. ASSUME NEW r \in Requests, Deals!RemoveStatement(r) PROVE OffersInv'
  <2>1. PICK p : p = job[r].promotion
    OBVIOUS
  <2>2. PICK what : what = Head(job[r].todo)
    OBVIOUS
  <2>3. /\ pc[r] = "remove" /\ UNCHANGED partsTorn
        /\ offers' = IF what = "row" THEN [offers EXCEPT ![p] = Deals!NoRow] ELSE offers
        /\ usages' = IF what \in {"usages", "row"} THEN [usages EXCEPT ![p] = 0] ELSE usages
        /\ offerParts' = [offerParts EXCEPT ![p] = [x \in Deals!Part |->
                 IF what \in {x, "row"} \/ (what = "actions" /\ x = "tiers") THEN 0 ELSE @[x]]]
        /\ partsEntered' = IF what = "row" THEN [partsEntered EXCEPT ![p] =
               Deals!NoParts] ELSE partsEntered
        /\ IF what = "row" THEN Deals!Finish(r)
           ELSE Deals!Continue(r, "remove", [job[r] EXCEPT !.todo = Tail(@)])
    BY <1>10, <2>1, <2>2 DEF Deals!RemoveStatement
  <2>4. RemoveFits(job[r]) /\ p \in Promotions
    BY <2>1, <2>3 DEF OfferJobs, RemoveFits
  <2>5. /\ \A q \in Promotions : offers'[q] = IF what = "row" /\ q =
             p THEN Deals!NoRow ELSE offers[q]
        /\ offers' = [q \in Promotions |-> offers'[q]]
    BY <2>3 DEF SlotsTaken
  <2>6. /\ \A q \in Promotions : usages'[q] = IF what \in {"usages", "row"} /\ q = p THEN 0
                                              ELSE usages[q]
        /\ usages' = [q \in Promotions |-> usages'[q]]
    BY <2>3 DEF SlotsTaken
  <2>0. /\ Deals!NoRow.status = "absent" /\ Deals!NoRow.usageCount = 0
        /\ Deals!NoRow =
               [status |-> Deals!NoRow.status, code |-> Deals!NoRow.code, usageCount |-> Deals!NoRow.usageCount]
    BY DEF Deals!NoRow
  <2>7. SlotsTaken'
    <3>1. ASSUME NEW q \in Promotions
          PROVE  /\ offers'[q] = [status |-> offers'[q].status, code |-> offers'[q].code,
                                usageCount |-> offers'[q].usageCount]
                 /\ offers'[q].usageCount \in Nat /\ usages'[q] \in Nat
                 /\ usages'[q] <= offers'[q].usageCount /\ offers'[q].usageCount <= UsageLimit
                 /\ offers'[q].status = "absent" => offers'[q].usageCount = 0
      <4>1. CASE what = "row" /\ q = p
        BY <2>0, <2>5, <2>6, <4>1
      <4>2. CASE ~(what = "row" /\ q = p)
        BY <2>5, <2>6, <4>2 DEF SlotsTaken
      <4> QED
        BY <4>1, <4>2
    <3> QED
      BY <2>5, <2>6, <3>1 DEF SlotsTaken
  <2>8. PartTables' /\ \A q \in Promotions \ {p} :
          offerParts'[q] = offerParts[q] /\ partsEntered'[q] = partsEntered[q]
    <3>1. PICK y : y = [x \in Deals!Part |-> IF what \in {x, "row"}
            \/ (what = "actions" /\ x = "tiers")
                                       THEN 0 ELSE offerParts[p][x]]
      OBVIOUS
    <3>2. offerParts' = [offerParts EXCEPT ![p] = y]
      BY <2>3, <2>4, <3>1
    <3> QED
      BY <2>3, <3>1, <3>2 DEF PartTables, Deals!NoParts
  <2>9. \A q \in Requests : q = r
    BY DEF OneAtATime
  <2>10. ASSUME NEW q \in Deals!There' \ partsTorn', q # p
         PROVE offerParts'[q] = partsEntered'[q]
    <3>1. \A s \in Requests : pc[s] \in {"parts", "remove"} => job[s].promotion # q
      BY <2>1, <2>9, <2>10
    <3>2. q \in Deals!There \ partsTorn
      BY <2>3, <2>5, <2>10 DEF Deals!There
    <3> QED
      BY <2>8, <2>10, <3>1, <3>2 DEF WholeAtRest, Deals!There
  <2>11. CASE what = "row"
    <3>1. Slots' /\ OfferJobs'
      BY <2>3, <2>11, <1>b
    <3>2. p \notin Deals!There'
      BY <2>4, <2>5, <2>11, <2>0 DEF Deals!There
    <3>3. WholeAtRest'
      BY <2>10, <3>2 DEF WholeAtRest
    <3> QED
      BY <2>7, <2>8, <3>1, <3>3
  <2>12. CASE what # "row"
    <3>1. PICK j : j = [job[r] EXCEPT !.todo = Tail(@)]
      OBVIOUS
    <3>2. Slots' /\ pc'[r] = "remove" /\ job'[r] = j
      BY <2>3, <2>12, <3>1, <1>a
    <3>3. RemoveFits(j) /\ j.promotion = p
      BY <2>1, <2>4, <3>1 DEF RemoveFits
    <3>4. OfferJobs'
      BY <2>9, <3>2, <3>3 DEF OfferJobs, RemoveFits
    <3>5. WholeAtRest'
      BY <2>9, <2>10, <3>2, <3>3 DEF WholeAtRest
    <3> QED
      BY <2>7, <2>8, <3>2, <3>4, <3>5
  <2> QED
    BY <2>11, <2>12
<1>11. ASSUME NEW r \in Requests, Deals!RecordUse(r) PROVE OffersInv'
  <2>1. /\ pc[r] = "use" /\ usages' = [usages EXCEPT ![job[r].promotion] = @ + 1]
        /\ Deals!Finish(r)
        /\ UNCHANGED <<offers, offerParts, partsEntered, partsTorn>>
    BY <1>11 DEF Deals!RecordUse
  <2>2. UseFits(job[r])
    BY <2>1 DEF OfferJobs
  <2>3. /\ \A q \in Promotions : usages'[q] = IF q = job[r].promotion THEN usages[q] + 1
                                              ELSE usages[q]
        /\ usages' = [q \in Promotions |-> usages'[q]]
    BY <2>1 DEF SlotsTaken
  <2>4. SlotsTaken'
    BY <2>1, <2>2, <2>3 DEF SlotsTaken, UseFits, Deals!There
  <2>5. Deals!There' = Deals!There
    BY <2>1 DEF Deals!There
  <2> QED
    BY <2>1, <2>4, <2>5, <1>b, <1>e, <1>g
<1>12. ASSUME NEW r \in Requests, Deals!Abandon(r) PROVE OffersInv'
  <2>1. /\ Deals!Finish(r) /\ UNCHANGED <<offers, offerParts, partsEntered, usages>>
        /\ partsTorn' = IF pc[r] \in {"parts",
               "remove"} THEN partsTorn \cup {job[r].promotion} ELSE partsTorn
    BY <1>12 DEF Deals!Abandon, Deals!GiveUp
  <2>2. Deals!There' = Deals!There /\ \A q \in Requests : q = r
    BY <2>1 DEF Deals!There, OneAtATime
  <2>3. ASSUME NEW p \in Deals!There' \ partsTorn' PROVE offerParts'[p] = partsEntered'[p]
    <3>1. p \in Deals!There \ partsTorn /\ \A s \in Requests :
            pc[s] \in {"parts", "remove"} => job[s].promotion # p
      BY <2>1, <2>2, <2>3
    <3> QED
      BY <2>1, <3>1 DEF WholeAtRest
  <2>4. WholeAtRest'
    BY <2>3 DEF WholeAtRest
  <2> QED
    BY <2>1, <2>4, <1>b, <1>d, <1>e
<1>13. CASE UNCHANGED offerVars
  <2>1. UNCHANGED <<offers, offerParts, partsEntered, usages, partsTorn, pc, job>>
    BY <1>13 DEF offerVars, Deals!promotionVars, Deals!handling
  <2>2. Deals!There' = Deals!There
    BY <2>1 DEF Deals!There
  <2>3. Slots' /\ SlotsTaken' /\ PartTables'
    BY <2>1, <1>d, <1>e DEF Slots
  <2>4. OfferJobs'
    BY <2>1, <2>2 DEF OfferJobs, CopyFits, UpdateFits, PartsFit, RemoveFits, UseFits
  <2>5. WholeAtRest'
    BY <2>1, <2>2 DEF WholeAtRest
  <2> QED
    BY <2>3, <2>4, <2>5
<1> QED
  BY <1>1, <1>2, <1>3, <1>4, <1>5, <1>6, <1>7, <1>8, <1>9, <1>10, <1>11, <1>12, <1>13
  DEF Deals!Next, Deals!Cancel

\* While handlers do not overlap, every use that was recorded has taken a slot of the
\* quota, and no more slots are taken than there are.
THEOREM UsesTakeSlots ==
  ASSUME OneAtATime, UsageLimit \in Nat
  PROVE  OfferSpec => []Deals!SlotsCoverUses
<1>1. OffersInv => Deals!SlotsCoverUses
  BY DEF OffersInv, SlotsTaken, Deals!SlotsCoverUses
<1> QED
  BY <1>1, OffersInit, OffersNext, PTL DEF OfferSpec

\* While handlers do not overlap, a promotion that shoppers get has all the parts that
\* were entered, unless an edit, a copy or a removal of it ended half way.
THEOREM ActiveOffersAreWhole ==
  ASSUME OneAtATime, UsageLimit \in Nat
  PROVE  OfferSpec => []Deals!ActiveIsWhole
<1>1. OffersInv => Deals!ActiveIsWhole
  BY DEF OffersInv, WholeAtRest, Deals!ActiveIsWhole, Deals!Active
<1> QED
  BY <1>1, OffersInit, OffersNext, PTL DEF OfferSpec

-----------------------------------------------------------------------------
(* Flash sales: what an item may sell, and what a sale offers *)

FlashStart == Flash!SalesInit /\ Quiet

flashVars == <<Flash!saleVars, Flash!handling>>

FlashSpec == FlashStart /\ [][Flash!Next]_flashVars

\* The tables: a sale for every id, an absent one has no items, and none has sold more of
\* an item than there was.
SaleTable ==
  /\ sales = [s \in Sales |-> sales[s]]
  /\ \A s \in Sales : sales[s] = [status |-> sales[s].status, window |-> sales[s].window]

NothingPastLimit ==
  /\ onSale = [s \in Sales |-> onSale[s]] /\ saleEntered = [s \in Sales |-> saleEntered[s]]
  /\ \A s \in Sales : onSale[s] = [v \in DOMAIN onSale[s] |-> onSale[s][v]]
  /\ \A s \in Sales : \A v \in DOMAIN onSale[s] :
       /\ onSale[s][v] = [price |-> onSale[s][v].price, left |-> onSale[s][v].left]
       /\ onSale[s][v].left \in Nat

AbsentHasNone == \A s \in Sales \ Flash!There : DOMAIN onSale[s] = {}

\* What each handler relies on while it is the only one.
Unsold(rows) ==
  /\ rows = [v \in DOMAIN rows |-> rows[v]]
  /\ \A v \in DOMAIN rows : rows[v] = [price |-> 1, left |-> 1]

SaleJobFits(l, j) ==
  /\ l \in {"idle", "fields", "save sale", "delete items", "items", "buy"}
  /\ l \in {"fields", "save sale"} => j.sale \in Flash!There /\ j.row.status # "absent"
  /\ l \in {"delete items", "items"} =>
       j.sale \in Flash!There /\ saleEntered[j.sale] = DOMAIN j.items
  /\ l \in {"save sale", "delete items", "items"} => Unsold(j.items)
  /\ l = "items" => DOMAIN onSale[j.sale] = {}
  /\ l = "buy" =>
       j.sale \subseteq Sales /\ \A s \in j.sale :
         j.item \in DOMAIN onSale[s] /\ onSale[s][j.item].left > 0

SaleJobs == \A r \in Requests : SaleJobFits(pc[r], job[r])

\* A sale whose items no handler is replacing offers what was entered, unless one ended
\* half way.
OffersAtRest ==
  \A s \in Flash!There \ saleTorn :
    (\A r \in Requests : pc[r] \in {"items", "delete items"} => job[r].sale # s)
      => DOMAIN onSale[s] = saleEntered[s]

FlashInv ==
  Slots /\ SaleTable /\ NothingPastLimit /\ AbsentHasNone /\ SaleJobs /\ OffersAtRest

\* At the start every sale has all its items, and has sold none.
LEMMA FlashInit == FlashStart => FlashInv
<1> SUFFICES ASSUME FlashStart PROVE FlashInv
  OBVIOUS
<1>1. Slots /\ SaleJobs
  BY DEF FlashStart, Quiet, Slots, SaleJobs, SaleJobFits
<1>2. /\ sales \in [Sales -> {Flash!NoSale, [status |-> "active", window |-> "open"]}]
      /\ onSale = [s \in Sales |-> IF sales[s] =
             Flash!NoSale THEN Flash!NoItems ELSE Flash!ItemRows(Items)]
      /\ saleEntered = [s \in Sales |-> DOMAIN onSale[s]]
  BY DEF FlashStart, Flash!SalesInit
<1>3. SaleTable
  BY <1>2 DEF SaleTable, Flash!NoSale
<1>4. \A s \in Sales : onSale[s] = IF sales[s] =
        Flash!NoSale THEN Flash!NoItems ELSE Flash!ItemRows(Items)
  BY <1>2
<1>5. Flash!NoItems = [v \in DOMAIN Flash!NoItems |-> Flash!NoItems[v]] /\ DOMAIN Flash!NoItems =
        {}
  BY DEF Flash!NoItems
<1>6. /\ Flash!ItemRows(Items) = [v \in DOMAIN Flash!ItemRows(Items) |-> Flash!ItemRows(Items)[v]]
      /\ \A v \in DOMAIN Flash!ItemRows(Items) :
             Flash!ItemRows(Items)[v] = [price |-> 1, left |-> 1]
  BY DEF Flash!ItemRows
<1>7. NothingPastLimit
  BY <1>2, <1>4, <1>5, <1>6 DEF NothingPastLimit
<1>8. AbsentHasNone
  BY <1>2, <1>4, <1>5 DEF AbsentHasNone, Flash!There, Flash!NoSale
<1>9. OffersAtRest
  BY <1>2 DEF OffersAtRest, Flash!There
<1> QED
  BY <1>1, <1>3, <1>7, <1>8, <1>9 DEF FlashInv

LEMMA FlashNext == OneAtATime /\ FlashInv /\ [Flash!Next]_flashVars => FlashInv'
<1> SUFFICES ASSUME OneAtATime, FlashInv, [Flash!Next]_flashVars PROVE FlashInv'
  OBVIOUS
<1> USE DEF FlashInv
\* The slot after a step that starts or continues a handler, or ends it.
<1>a. ASSUME NEW r \in Requests, NEW l, NEW j, Flash!Begin(r, l, j) \/ Flash!Continue(r, l, j),
             SaleJobFits(l, j)'
      PROVE  /\ Slots' /\ SaleJobs' /\ pc'[r] = l /\ job'[r] = j
             /\ \A q \in Requests : q = r
  <2>1. Slots' /\ pc'[r] = l /\ job'[r] = j /\ \A q \in Requests : q = r
    BY <1>a DEF Flash!Begin, Flash!Continue, Slots, OneAtATime
  <2> QED
    BY <1>a, <2>1 DEF SaleJobs, SaleJobFits
<1>b. ASSUME NEW r \in Requests, Flash!Finish(r)
      PROVE  Slots' /\ pc'[r] = "idle" /\ SaleJobs' /\ \A q \in Requests : q = r
  <2>1. Slots' /\ pc'[r] = "idle" /\ \A q \in Requests : q = r
    BY <1>b DEF Flash!Finish, Slots, OneAtATime
  <2> QED
    BY <2>1 DEF SaleJobs, SaleJobFits
<1>c. ASSUME NEW r \in Requests, Flash!AtOnce(r)
      PROVE  Slots' /\ SaleJobs' /\ \A q \in Requests : q = r /\ pc[q] = "idle"
  <2>1. Slots' /\ UNCHANGED <<pc, job>> /\ pc[r] = "idle" /\ \A q \in Requests : q = r
    BY <1>c DEF Flash!AtOnce, Slots, OneAtATime
  <2> QED
    BY <2>1 DEF SaleJobs, SaleJobFits
<1>d. ASSUME UNCHANGED <<onSale, saleEntered>> PROVE NothingPastLimit'
  BY <1>d DEF NothingPastLimit
<1>e. ASSUME UNCHANGED onSale, Flash!There \subseteq Flash!There' PROVE AbsentHasNone'
  BY <1>e DEF AbsentHasNone
\* At rest nobody replaces items.
<1>f. ASSUME NEW r \in Requests, \A q \in Requests : q = r,
             pc[r] \notin {"items", "delete items"}, NEW s \in Flash!There \ saleTorn
      PROVE  DOMAIN onSale[s] = saleEntered[s]
  BY <1>f DEF OffersAtRest
<1>g. ASSUME NEW r \in Requests, \A q \in Requests : q = r,
             pc[r] \notin {"items", "delete items"},
             UNCHANGED <<onSale, saleEntered, saleTorn>>, Flash!There' = Flash!There
      PROVE  OffersAtRest'
  BY <1>f, <1>g DEF OffersAtRest
\* A step that changes the status or the window of a sale that is there.
<1>h. ASSUME NEW s \in Flash!There, NEW x, sales' = [sales EXCEPT ![s] = x],
             x = [status |-> x.status, window |-> x.window], x.status # "absent"
      PROVE  SaleTable' /\ Flash!There' = Flash!There
  <2>1. /\ \A t \in Sales : sales'[t] = IF t = s THEN x ELSE sales[t]
        /\ sales' = [t \in Sales |-> sales'[t]]
    BY <1>h DEF SaleTable
  <2> QED
    BY <1>h, <2>1 DEF SaleTable, Flash!There
<1>i. ASSUME NEW s \in Flash!There, NEW status, sales' = [sales EXCEPT ![s].status = status],
             status # "absent"
      PROVE  SaleTable' /\ Flash!There' = Flash!There
  <2>1. PICK x : x = [sales[s] EXCEPT !.status = status]
    OBVIOUS
  <2>2. x = [status |-> status, window |-> sales[s].window]
    BY <2>1 DEF SaleTable, Flash!There
  <2> QED
    BY <1>i, <1>h, <2>1, <2>2
<1>1. ASSUME NEW s \in Sales, Flash!TimePasses(s) PROVE FlashInv'
  <2>1. PICK w : sales' = [sales EXCEPT ![s].window = w]
    BY <1>1 DEF Flash!TimePasses
  <2>2. s \in Flash!There /\ UNCHANGED <<pc, job, onSale, saleEntered, saleTorn>>
    BY <1>1 DEF Flash!TimePasses, Flash!handling
  <2>3. PICK x : x = [sales[s] EXCEPT !.window = w]
    OBVIOUS
  <2>4. x = [status |-> sales[s].status, window |-> w]
    BY <2>3 DEF SaleTable
  <2>5. SaleTable' /\ Flash!There' = Flash!There
    BY <2>1, <2>2, <2>3, <2>4, <1>h DEF Flash!There
  <2>6. SaleJobs' /\ Slots'
    BY <2>2, <2>5 DEF SaleJobs, SaleJobFits, Slots
  <2>7. OffersAtRest'
    BY <2>2, <2>5 DEF OffersAtRest
  <2> QED
    BY <2>2, <2>5, <2>6, <2>7, <1>d, <1>e
<1>2. ASSUME NEW r \in Requests, NEW s \in Sales, Flash!CreateSale(r, s) PROVE FlashInv'
  <2>1. PICK status \in {"active", "paused"}, window \in {"ahead", "open"},
             S \in SUBSET Items \ {{}} :
          /\ sales' = [sales EXCEPT ![s] = [status |-> status, window |-> window]]
          /\ Flash!Begin(r, "items", [sale |-> s, items |-> Flash!ItemRows(S)])
          /\ saleEntered' = [saleEntered EXCEPT ![s] = S]
    BY <1>2 DEF Flash!CreateSale
  <2>2. s \notin Flash!There /\ UNCHANGED <<onSale, saleTorn>>
    BY <1>2 DEF Flash!CreateSale
  <2>3. PICK j : j = [sale |-> s, items |-> Flash!ItemRows(S)]
    OBVIOUS
  <2>4. DOMAIN j.items = S /\ Unsold(j.items) /\ j.sale = s
    BY <2>3 DEF Flash!ItemRows, Unsold
  <2>5. /\ \A t \in Sales : sales'[t] = IF t = s THEN [status |-> status, window |-> window]
                                        ELSE sales[t]
        /\ sales' = [t \in Sales |-> sales'[t]]
    BY <2>1 DEF SaleTable
  <2>6. SaleTable' /\ Flash!There' = Flash!There \cup {s}
    BY <2>5 DEF SaleTable, Flash!There
  <2>7. NothingPastLimit' /\ saleEntered'[s] = S /\ \A t \in Sales \ {s} :
          saleEntered'[t] = saleEntered[t]
    BY <2>1, <2>2 DEF NothingPastLimit
  <2>8. DOMAIN onSale'[s] = {}
    BY <2>2 DEF AbsentHasNone
  <2>9. SaleJobFits("items", j)'
    BY <2>4, <2>6, <2>7, <2>8 DEF SaleJobFits
  <2>10. /\ Slots' /\ SaleJobs' /\ pc'[r] = "items" /\ job'[r] = j /\ pc[r] = "idle"
         /\ \A q \in Requests : q = r
    BY <2>1, <2>3, <2>9, <1>a DEF Flash!Begin
  <2>11. AbsentHasNone'
    BY <2>2, <2>6 DEF AbsentHasNone
  <2>12. OffersAtRest'
    BY <2>2, <2>4, <2>6, <2>7, <2>10, <1>f DEF OffersAtRest, Flash!There
  <2> QED
    BY <2>6, <2>7, <2>10, <2>11, <2>12
<1>3. ASSUME NEW r \in Requests, NEW s \in Sales, Flash!UpdateRead(r, s) PROVE FlashInv'
  <2>1. s \in Flash!There /\ UNCHANGED <<sales, onSale, saleEntered, saleTorn>>
    BY <1>3 DEF Flash!UpdateRead
  <2>2. Flash!There' = Flash!There
    BY <2>1 DEF Flash!There
  <2>3. PICK l, j : l \in {"fields", "save sale"} /\ Flash!Begin(r, l, j) /\ SaleJobFits(l, j)
    <3>1. CASE Flash!Begin(r, "fields", [sale |-> s, row |-> sales[s]])
      <4>1. SaleJobFits("fields", [sale |-> s, row |-> sales[s]])
        BY <2>1 DEF SaleJobFits, Flash!There
      <4> QED
        BY <3>1, <4>1
    <3>2. ASSUME NEW S \in SUBSET Items,
                 Flash!Begin(r, "save sale", [sale |-> s, row |-> sales[s], items |-> Flash!ItemRows(S)])
          PROVE  \E l, j : l \in {"fields",
                     "save sale"} /\ Flash!Begin(r, l, j) /\ SaleJobFits(l, j)
      <4>1. Unsold(Flash!ItemRows(S))
        BY DEF Flash!ItemRows, Unsold
      <4>2. SaleJobFits("save sale", [sale |-> s, row |-> sales[s], items |-> Flash!ItemRows(S)])
        BY <2>1, <4>1 DEF SaleJobFits, Flash!There
      <4> QED
        BY <3>2, <4>2
    <3> QED
      BY <1>3, <3>1, <3>2 DEF Flash!UpdateRead
  <2>4. SaleJobFits(l, j)'
    BY <2>1, <2>2, <2>3 DEF SaleJobFits
  <2>5. Slots' /\ SaleJobs' /\ pc[r] = "idle" /\ \A q \in Requests : q = r
    BY <2>3, <2>4, <1>a DEF Flash!Begin
  <2>6. SaleTable'
    BY <2>1 DEF SaleTable
  <2> QED
    BY <2>1, <2>2, <2>5, <2>6, <1>d, <1>e, <1>g
<1>4. ASSUME NEW r \in Requests, Flash!UpdateFields(r) PROVE FlashInv'
  <2>1. PICK status \in {job[r].row.status, "active"} :
          sales' = [sales EXCEPT ![job[r].sale].status = status]
    BY <1>4 DEF Flash!UpdateFields
  <2>2. pc[r] = "fields" /\ Flash!Finish(r) /\ UNCHANGED <<onSale, saleEntered, saleTorn>>
    BY <1>4 DEF Flash!UpdateFields
  <2>3. job[r].sale \in Flash!There /\ status # "absent"
    BY <2>1, <2>2 DEF SaleJobs, SaleJobFits
  <2>4. SaleTable' /\ Flash!There' = Flash!There
    BY <2>1, <2>3, <1>i
  <2> QED
    BY <2>2, <2>4, <1>b, <1>d, <1>e, <1>g
<1>5. ASSUME NEW r \in Requests, Flash!UpdateSale(r) PROVE FlashInv'
  <2>1. PICK status \in {job[r].row.status, "active"} :
          sales' = [sales EXCEPT ![job[r].sale].status = status]
    BY <1>5 DEF Flash!UpdateSale
  <2>2. PICK s : s = job[r].sale
    OBVIOUS
  <2>3. PICK j : j = [sale |-> job[r].sale, items |-> job[r].items]
    OBVIOUS
  <2>4. /\ pc[r] = "save sale" /\ Flash!Continue(r, "delete items", j)
        /\ UNCHANGED <<onSale, saleTorn>>
        /\ saleEntered' = [saleEntered EXCEPT ![s] = DOMAIN job[r].items]
    BY <1>5, <2>2, <2>3 DEF Flash!UpdateSale
  <2>5. s \in Flash!There /\ status # "absent" /\ Unsold(job[r].items)
    BY <2>1, <2>2, <2>4 DEF SaleJobs, SaleJobFits
  <2>6. SaleTable' /\ Flash!There' = Flash!There
    BY <2>1, <2>2, <2>5, <1>i
  <2>7. /\ NothingPastLimit' /\ saleEntered'[s] = DOMAIN job[r].items
        /\ \A t \in Sales \ {s} : saleEntered'[t] = saleEntered[t]
    BY <2>4, <2>5 DEF NothingPastLimit, Flash!There
  <2>8. j.sale = s /\ j.items = job[r].items
    BY <2>2, <2>3
  <2>9. SaleJobFits("delete items", j)'
    BY <2>5, <2>6, <2>7, <2>8 DEF SaleJobFits
  <2>10. Slots' /\ SaleJobs' /\ pc'[r] = "delete items" /\ job'[r] = j /\ \A q \in Requests :
           q = r
    BY <2>4, <2>9, <1>a
  <2>11. OffersAtRest'
    BY <2>4, <2>6, <2>7, <2>8, <2>10, <1>f DEF OffersAtRest, Flash!There
  <2> QED
    BY <2>4, <2>6, <2>7, <2>10, <2>11, <1>e
<1>6. ASSUME NEW r \in Requests, Flash!DeleteItems(r) PROVE FlashInv'
  <2>1. PICK s : s = job[r].sale
    OBVIOUS
  <2>2. PICK j : j = job[r]
    OBVIOUS
  <2>3. /\ pc[r] = "delete items" /\ Flash!Continue(r, "items", j)
        /\ UNCHANGED <<sales, saleEntered, saleTorn>>
        /\ onSale' = [onSale EXCEPT ![s] = Flash!NoItems]
    BY <1>6, <2>1, <2>2 DEF Flash!DeleteItems, Flash!Cleared
  <2>4. SaleJobFits("delete items", j) /\ j.sale = s
    BY <2>1, <2>2, <2>3 DEF SaleJobs
  <2>5. s \in Flash!There /\ s \in Sales /\ Flash!There' = Flash!There
    BY <2>3, <2>4 DEF SaleJobFits, Flash!There
  <2>6. /\ \A t \in Sales : onSale'[t] = IF t = s THEN Flash!NoItems ELSE onSale[t]
        /\ onSale' = [t \in Sales |-> onSale'[t]]
    BY <2>3 DEF NothingPastLimit
  <2>7. Flash!NoItems = [v \in
          DOMAIN Flash!NoItems |-> Flash!NoItems[v]] /\ DOMAIN Flash!NoItems = {}
    BY DEF Flash!NoItems
  <2>8. NothingPastLimit'
    <3>1. ASSUME NEW t \in Sales
          PROVE  /\ onSale'[t] = [v \in DOMAIN onSale'[t] |-> onSale'[t][v]]
                 /\ \A v \in DOMAIN onSale'[t] :
                      /\ onSale'[t][v] =
                             [price |-> onSale'[t][v].price, left |-> onSale'[t][v].left]
                      /\ onSale'[t][v].left \in Nat
      <4>1. CASE t = s
        BY <2>6, <2>7, <4>1
      <4>2. CASE t # s
        BY <2>6, <4>2 DEF NothingPastLimit
      <4> QED
        BY <4>1, <4>2
    <3> QED
      BY <2>3, <2>6, <3>1 DEF NothingPastLimit
  <2>9. SaleJobFits("items", j)'
    BY <2>3, <2>4, <2>5, <2>6, <2>7 DEF SaleJobFits
  <2>10. Slots' /\ SaleJobs' /\ pc'[r] = "items" /\ job'[r] = j /\ \A q \in Requests : q = r
    BY <2>3, <2>9, <1>a
  <2>11. AbsentHasNone' /\ SaleTable'
    BY <2>3, <2>5, <2>6, <2>7 DEF AbsentHasNone, SaleTable
  <2>12. OffersAtRest'
    <3>1. ASSUME NEW t \in Flash!There' \ saleTorn', t # s
          PROVE DOMAIN onSale'[t] = saleEntered'[t]
      <4>1. \A q \in Requests : pc[q] \in {"items", "delete items"} => job[q].sale # t
        BY <2>1, <2>10, <3>1
      <4> QED
        BY <2>3, <2>5, <2>6, <3>1, <4>1 DEF OffersAtRest, Flash!There
    <3> QED
      BY <2>4, <2>10, <3>1 DEF OffersAtRest
  <2> QED
    BY <2>8, <2>10, <2>11, <2>12
<1>7. ASSUME NEW r \in Requests, Flash!InsertItems(r) PROVE FlashInv'
  <2>1. PICK s : s = job[r].sale
    OBVIOUS
  <2>2. PICK new : new = job[r].items
    OBVIOUS
  <2>3. PICK y : y = [v \in DOMAIN onSale[s] \cup DOMAIN new |->
                        IF v \in DOMAIN onSale[s] THEN onSale[s][v] ELSE new[v]]
    OBVIOUS
  <2>4. /\ pc[r] = "items" /\ Flash!Finish(r) /\ UNCHANGED <<sales, saleEntered, saleTorn>>
        /\ onSale' = [onSale EXCEPT ![s] =
                 [v \in DOMAIN @ \cup DOMAIN new |-> IF v \in DOMAIN @ THEN @[v] ELSE new[v]]]
    BY <1>7, <2>1, <2>2 DEF Flash!InsertItems
  <2>5. SaleJobFits("items", job[r])
    BY <2>4 DEF SaleJobs
  <2>6. s \in Flash!There /\ s \in Sales /\ saleEntered[s] = DOMAIN new /\ DOMAIN onSale[s] =
          {} /\ Unsold(new)
    BY <2>1, <2>2, <2>5 DEF SaleJobFits, Flash!There
  <2>7. y = new
    BY <2>3, <2>6 DEF Unsold
  <2>8. /\ \A t \in Sales : onSale'[t] = IF t = s THEN new ELSE onSale[t]
        /\ onSale' = [t \in Sales |-> onSale'[t]]
    <3>1. onSale' = [onSale EXCEPT ![s] = y]
      BY <2>3, <2>4, <2>6 DEF NothingPastLimit
    <3> QED
      BY <2>7, <3>1 DEF NothingPastLimit
  <2>9. NothingPastLimit'
    <3>1. ASSUME NEW t \in Sales
          PROVE  /\ onSale'[t] = [v \in DOMAIN onSale'[t] |-> onSale'[t][v]]
                 /\ \A v \in DOMAIN onSale'[t] :
                      /\ onSale'[t][v] =
                             [price |-> onSale'[t][v].price, left |-> onSale'[t][v].left]
                      /\ onSale'[t][v].left \in Nat
      <4>1. CASE t = s
        BY <2>6, <2>8, <4>1 DEF Unsold
      <4>2. CASE t # s
        BY <2>8, <4>2 DEF NothingPastLimit
      <4> QED
        BY <4>1, <4>2
    <3> QED
      BY <2>4, <2>8, <3>1 DEF NothingPastLimit
  <2>10. Slots' /\ SaleJobs' /\ Flash!There' = Flash!There /\ \A q \in Requests : q = r
    BY <2>4, <1>b DEF Flash!There
  <2>11. AbsentHasNone' /\ SaleTable'
    BY <2>4, <2>6, <2>8, <2>10 DEF AbsentHasNone, SaleTable
  <2>12. OffersAtRest'
    <3>1. ASSUME NEW t \in Flash!There' \ saleTorn' PROVE DOMAIN onSale'[t] = saleEntered'[t]
      <4>1. CASE t = s
        BY <2>4, <2>6, <2>8, <4>1
      <4>2. CASE t # s
        <5>1. \A q \in Requests : pc[q] \in {"items", "delete items"} => job[q].sale # t
          BY <2>1, <2>10, <4>2
        <5> QED
          BY <2>4, <2>8, <2>10, <3>1, <4>2, <5>1 DEF OffersAtRest, Flash!There
      <4> QED
        BY <4>1, <4>2
    <3> QED
      BY <3>1 DEF OffersAtRest
  <2> QED
    BY <2>9, <2>10, <2>11, <2>12
<1>8. ASSUME NEW r \in Requests, NEW s \in Sales, Flash!Pause(r, s) \/ Flash!Activate(r, s)
      PROVE FlashInv'
  <2>1. /\ s \in Flash!There /\ Flash!AtOnce(r) /\ UNCHANGED <<onSale, saleEntered, saleTorn>>
        /\ \E status \in {"paused", "active"} : sales' = [sales EXCEPT ![s].status = status]
    BY <1>8 DEF Flash!Pause, Flash!Activate
  <2>2. SaleTable' /\ Flash!There' = Flash!There
    BY <2>1, <1>i
  <2> QED
    BY <2>1, <2>2, <1>c, <1>d, <1>e, <1>g
<1>9. ASSUME NEW r \in Requests, NEW v \in Items, Flash!Buy(r, v) PROVE FlashInv'
  <2>1. UNCHANGED <<sales, onSale, saleEntered, saleTorn>>
    BY <1>9 DEF Flash!Buy, Flash!saleVars
  <2>2. Flash!There' = Flash!There
    BY <2>1 DEF Flash!There
  <2>3. PICK j : Flash!Begin(r, "buy", j) /\ SaleJobFits("buy", j)
    <3>1. CASE Flash!TakesSale(v) = {}
      <4>1. SaleJobFits("buy", [item |-> v, sale |-> {}, price |-> 2])
        BY DEF SaleJobFits
      <4>2. Flash!Begin(r, "buy", [item |-> v, sale |-> {}, price |-> 2])
        BY <1>9, <3>1 DEF Flash!Buy
      <4> QED
        BY <4>1, <4>2
    <3>2. CASE Flash!TakesSale(v) # {}
      <4>1. PICK s \in Flash!TakesSale(v) :
              Flash!Begin(r, "buy", [item |-> v, sale |-> {s}, price |-> onSale[s][v].price])
        BY <1>9, <3>2 DEF Flash!Buy
      <4>2. s \in Sales /\ v \in DOMAIN onSale[s] /\ onSale[s][v].left > 0
        BY <4>1 DEF Flash!TakesSale, Flash!Visible, Flash!There
      <4>3. PICK j : j = [item |-> v, sale |-> {s}, price |-> onSale[s][v].price]
        OBVIOUS
      <4>4. SaleJobFits("buy", j)
        BY <4>2, <4>3 DEF SaleJobFits
      <4> QED
        BY <4>1, <4>3, <4>4
    <3> QED
      BY <3>1, <3>2
  <2>4. SaleJobFits("buy", j)'
    BY <2>1, <2>2, <2>3 DEF SaleJobFits
  <2>5. Slots' /\ SaleJobs' /\ pc[r] = "idle" /\ \A q \in Requests : q = r
    BY <2>3, <2>4, <1>a DEF Flash!Begin
  <2>6. SaleTable'
    BY <2>1 DEF SaleTable
  <2> QED
    BY <2>1, <2>2, <2>5, <2>6, <1>d, <1>e, <1>g
<1>10. ASSUME NEW r \in Requests, Flash!BuyCommit(r) PROVE FlashInv'
  <2>1. PICK v : v = job[r].item
    OBVIOUS
  <2>2. PICK S : S = job[r].sale
    OBVIOUS
  <2>3. /\ pc[r] = "buy" /\ Flash!Finish(r) /\ UNCHANGED <<sales, saleEntered, saleTorn>>
        /\ onSale' = [s \in Sales |-> IF s \in S /\ v \in DOMAIN onSale[s]
                       THEN [onSale[s] EXCEPT ![v].left = @ - 1] ELSE onSale[s]]
    BY <1>10, <2>1, <2>2 DEF Flash!BuyCommit
  <2>4. \A s \in S : s \in Sales /\ v \in DOMAIN onSale[s] /\ onSale[s][v].left > 0
    BY <2>1, <2>2, <2>3 DEF SaleJobs, SaleJobFits
  <2>5. onSale' = [s \in Sales |-> onSale'[s]] /\ \A s \in Sales \ S : onSale'[s] = onSale[s]
    BY <2>3
  <2>6. ASSUME NEW s \in S
        PROVE  /\ DOMAIN onSale'[s] = DOMAIN onSale[s]
               /\ onSale'[s] = [w \in DOMAIN onSale'[s] |-> onSale'[s][w]]
               /\ \A w \in DOMAIN onSale'[s] :
                    /\ onSale'[s][w] =
                           [price |-> onSale'[s][w].price, left |-> onSale'[s][w].left]
                    /\ onSale'[s][w].left \in Nat
    <3>1. PICK x : x = [onSale[s][v] EXCEPT !.left = @ - 1]
      OBVIOUS
    <3>2. s \in Sales /\ v \in DOMAIN onSale[s] /\ onSale[s][v].left > 0
      BY <2>4
    <3>3. x = [price |-> onSale[s][v].price, left |-> onSale[s][v].left - 1]
      BY <3>1, <3>2 DEF NothingPastLimit
    <3>4. onSale'[s] = [onSale[s] EXCEPT ![v] = x]
      BY <2>3, <3>1, <3>2
    <3>5. /\ DOMAIN onSale'[s] = DOMAIN onSale[s]
          /\ \A w \in DOMAIN onSale[s] : onSale'[s][w] = IF w = v THEN x ELSE onSale[s][w]
          /\ onSale'[s] = [w \in DOMAIN onSale'[s] |-> onSale'[s][w]]
      BY <3>2, <3>4 DEF NothingPastLimit
    <3>6. ASSUME NEW w \in DOMAIN onSale[s]
          PROVE  /\ onSale'[s][w] = [price |-> onSale'[s][w].price, left |-> onSale'[s][w].left]
                 /\ onSale'[s][w].left \in Nat
      <4>1. CASE w = v
        <5>1. onSale[s][v].left - 1 \in Nat
          BY <3>2 DEF NothingPastLimit
        <5> QED
          BY <3>3, <3>5, <4>1, <5>1
      <4>2. CASE w # v
        BY <3>2, <3>5, <4>2 DEF NothingPastLimit
      <4> QED
        BY <4>1, <4>2
    <3> QED
      BY <3>5, <3>6
  <2>7. \A s \in Sales : DOMAIN onSale'[s] = DOMAIN onSale[s]
    BY <2>5, <2>6
  <2>8. NothingPastLimit'
    <3>1. ASSUME NEW t \in Sales
          PROVE  /\ onSale'[t] = [w \in DOMAIN onSale'[t] |-> onSale'[t][w]]
                 /\ \A w \in DOMAIN onSale'[t] :
                      /\ onSale'[t][w] =
                             [price |-> onSale'[t][w].price, left |-> onSale'[t][w].left]
                      /\ onSale'[t][w].left \in Nat
      <4>1. CASE t \in S
        BY <2>6, <4>1
      <4>2. CASE t \notin S
        <5>1. onSale'[t] = onSale[t]
          BY <2>5, <4>2
        <5> QED
          BY <5>1 DEF NothingPastLimit
      <4> QED
        BY <4>1, <4>2
    <3> QED
      BY <2>3, <2>5, <3>1 DEF NothingPastLimit
  <2>9. Slots' /\ SaleJobs' /\ Flash!There' = Flash!There /\ \A q \in Requests : q = r
    BY <2>3, <1>b DEF Flash!There
  <2>10. AbsentHasNone' /\ SaleTable'
    BY <2>3, <2>7, <2>9 DEF AbsentHasNone, SaleTable
  <2>11. OffersAtRest'
    BY <2>3, <2>7, <2>9, <1>f DEF OffersAtRest, Flash!There
  <2> QED
    BY <2>8, <2>9, <2>10, <2>11
<1>11. ASSUME NEW r \in Requests, Flash!Abandon(r) PROVE FlashInv'
  <2>1. /\ Flash!Finish(r) /\ UNCHANGED <<sales, onSale, saleEntered>>
        /\ saleTorn' = IF pc[r] \in {"items",
               "delete items"} THEN saleTorn \cup {job[r].sale} ELSE saleTorn
    BY <1>11 DEF Flash!Abandon, Flash!GiveUp
  <2>2. Flash!There' = Flash!There /\ \A q \in Requests : q = r
    BY <2>1 DEF Flash!There, OneAtATime
  <2>3. ASSUME NEW s \in Flash!There' \ saleTorn' PROVE DOMAIN onSale'[s] = saleEntered'[s]
    <3>1. s \in Flash!There \ saleTorn /\ \A q \in Requests :
            pc[q] \in {"items", "delete items"} => job[q].sale # s
      BY <2>1, <2>2, <2>3
    <3> QED
      BY <2>1, <3>1 DEF OffersAtRest
  <2>4. OffersAtRest' /\ SaleTable'
    BY <2>1, <2>3 DEF OffersAtRest, SaleTable
  <2> QED
    BY <2>1, <2>2, <2>4, <1>b, <1>d, <1>e
<1>12. CASE UNCHANGED flashVars
  <2>1. UNCHANGED <<sales, onSale, saleEntered, saleTorn, pc, job>>
    BY <1>12 DEF flashVars, Flash!saleVars, Flash!handling
  <2>2. Flash!There' = Flash!There
    BY <2>1 DEF Flash!There
  <2>3. Slots' /\ SaleTable'
    BY <2>1 DEF Slots, SaleTable
  <2>4. SaleJobs'
    BY <2>1, <2>2 DEF SaleJobs, SaleJobFits
  <2>5. OffersAtRest'
    BY <2>1, <2>2 DEF OffersAtRest
  <2> QED
    BY <2>1, <2>2, <2>3, <2>4, <2>5, <1>d, <1>e
<1> QED
  BY <1>1, <1>2, <1>3, <1>4, <1>5, <1>6, <1>7, <1>8, <1>9, <1>10, <1>11, <1>12 DEF Flash!Next

\* While handlers do not overlap, no item is sold past its limit, however often its sale is
\* paused, edited and activated.
THEOREM NoItemPastLimit == ASSUME OneAtATime PROVE FlashSpec => []Flash!NeverPastLimit
<1>1. FlashInv => Flash!NeverPastLimit
  BY DEF FlashInv, NothingPastLimit, Flash!NeverPastLimit
<1> QED
  BY <1>1, FlashInit, FlashNext, PTL DEF FlashSpec

\* While handlers do not overlap, a sale that shoppers see offers the variants that were
\* entered for it, unless a handler ended between the DELETE and the INSERT of its items.
THEOREM SalesOfferWhatWasEntered == ASSUME OneAtATime PROVE FlashSpec =>
    []Flash!OffersWhatWasEntered
<1>1. FlashInv => Flash!OffersWhatWasEntered
  BY DEF FlashInv, OffersAtRest, Flash!OffersWhatWasEntered, Flash!Visible
<1> QED
  BY <1>1, FlashInit, FlashNext, PTL DEF FlashSpec

-----------------------------------------------------------------------------
(* Reviews: one per purchase, and what the card of a product tells *)

LEMMA ReviewsCounted == \A S : Opinions!Cardinality(S) = Cardinality(S)
  BY DEF Opinions!Cardinality, Cardinality

ReviewStart == Opinions!ReviewsInit /\ Quiet

reviewingVars == <<Opinions!reviewVars, Opinions!handling>>

ReviewSpec == ReviewStart /\ [][Opinions!Next]_reviewingVars

\* The sum behind the average, of the rows f: the fold of the model, as a function of them.
StarsAdded(iter, f, S) ==
  iter = [s \in SUBSET S |->
            IF s = {} THEN 0
            ELSE f[CHOOSE x \in s : TRUE].rating + iter[s \ {CHOOSE x \in s : TRUE}]]

AllStars(f, S) == (CHOOSE iter : StarsAdded(iter, f, S))[S]

\* The average of the rows S of f.
MeanOf(f, S) ==
  IF S = {} THEN 0
  ELSE (100 * AllStars(f, S) + Opinions!Cardinality(S) \div 2) \div Opinions!Cardinality(S)

\* What the product's card should tell.
Card(f, S) == [average |-> MeanOf(f, S), count |-> Opinions!Cardinality(S)]

\* The number of the next review, as the INSERT takes it.
NewNumber == Opinions!Cardinality(Opinions!There) + 1

\* The average of the model is that of the rows as they are.
LEMMA AverageIsMean == \A S : Opinions!Average(S) = MeanOf(reviews, S)
  BY DEF Opinions!Average, MeanOf, Opinions!MapThenSumSet, Opinions!MapThenFoldSet, StarsAdded,
     AllStars, Opinions!Cardinality

\* Rows with the same stars have the same average.
LEMMA MeanOfSame ==
  ASSUME NEW f, NEW g, NEW S, \A i \in S : f[i].rating = g[i].rating
  PROVE  Card(f, S) = Card(g, S)
<1>1. \A it : StarsAdded(it, f, S) <=> StarsAdded(it, g, S)
  <2>1. ASSUME NEW s \in SUBSET S, NEW it
        PROVE  (IF s = {} THEN 0
                ELSE f[CHOOSE x \in s : TRUE].rating + it[s \ {CHOOSE x \in s : TRUE}])
               = IF s = {} THEN 0
                 ELSE g[CHOOSE x \in s : TRUE].rating + it[s \ {CHOOSE x \in s : TRUE}]
    OBVIOUS
  <2> QED
    BY <2>1 DEF StarsAdded
<1>2. (CHOOSE it : StarsAdded(it, f, S)) = (CHOOSE it : StarsAdded(it, g, S))
  BY <1>1
<1>3. AllStars(f, S) = AllStars(g, S)
  BY <1>2 DEF AllStars
<1> QED
  BY <1>3 DEF MeanOf, Card

-----------------------------------------------------------------------------

\* Reviews are numbered in the order in which they came, each of another purchase.
ReviewTable ==
  /\ reviews = [i \in Opinions!There |-> reviews[i]]
  /\ rating = [p \in Opinions!Products |-> rating[p]]
  /\ \E n \in Nat : Opinions!There = 1..n
  /\ \A i \in Opinions!There :
       /\ reviews[i] = [variant |-> reviews[i].variant, order |-> reviews[i].order,
                        rating |-> reviews[i].rating, status |-> reviews[i].status,
                        hasReply |-> reviews[i].hasReply]
       /\ reviews[i].variant \in Variants /\ reviews[i].order \in delivered
       /\ reviews[i].hasReply \in BOOLEAN
  /\ \A m \in messages : m.review \in Opinions!There

EachOfAnother ==
  \A i, j \in Opinions!There :
    i # j => reviews[i].variant # reviews[j].variant \/ reviews[i].order # reviews[j].order

\* Two rows that differ at most in their status and the mark of a reply.
SameReview(a, b) == a.variant = b.variant /\ a.order = b.order /\ a.rating = b.rating

ReviewJobFits(l, j) ==
  /\ l \in {"idle", "submit", "moderate", "aggregate", "write rating", "mark"}
  /\ l = "submit" =>
       /\ j.row = [variant |-> j.row.variant, order |-> j.row.order, rating |-> j.row.rating,
                   status |-> "Pending", hasReply |-> FALSE]
       /\ j.row.variant \in Variants /\ j.row.order \in delivered
       /\ \A i \in Opinions!There : reviews[i].variant # j.row.variant
              \/ reviews[i].order # j.row.order
  /\ l = "moderate" =>
       /\ j.id \in Opinions!There
       /\ j.row = [variant |-> reviews[j.id].variant, order |-> reviews[j.id].order,
                   rating |-> reviews[j.id].rating, status |-> j.row.status,
                   hasReply |-> reviews[j.id].hasReply]
       /\ j.recompute = Opinions!MovesAverage(reviews[j.id].status, j.row.status)
  /\ l = "write rating" => j.rating = Card(reviews, Opinions!Approved(j.product))
  /\ l = "mark" => j.id \in Opinions!There /\ Opinions!Message(j.id, "Reply") \in messages

ReviewJobs == \A r \in Requests : ReviewJobFits(pc[r], job[r])

\* The card of a product whose rating no handler is computing tells the average.
CardsTell ==
  ~reviewTorn =>
    \A p \in Opinions!Products :
      (\A r \in Requests : pc[r] \in {"aggregate", "write rating"} => job[r].product # p)
        => rating[p] = Card(reviews, Opinions!Approved(p))

\* A review that no handler is marking has the mark when it has a reply.
MarksTell ==
  ~reviewTorn =>
    \A i \in Opinions!There :
      (\A r \in Requests : pc[r] = "mark" => job[r].id # i)
        => (reviews[i].hasReply <=> Opinions!Message(i, "Reply") \in messages)

ReviewsInv ==
  Slots /\ ReviewTable /\ EachOfAnother /\ ReviewJobs /\ CardsTell /\ MarksTell

LEMMA ReviewsStart == ReviewStart => ReviewsInv
<1> SUFFICES ASSUME ReviewStart PROVE ReviewsInv
  OBVIOUS
<1>1. Slots /\ ReviewJobs
  BY DEF ReviewStart, Quiet, Slots, ReviewJobs, ReviewJobFits
<1>2. Opinions!There = {} /\ messages = {} /\ \A p \in Opinions!Products :
        Opinions!Approved(p) = {}
  BY DEF ReviewStart, Opinions!ReviewsInit, Opinions!There, Opinions!Approved, Opinions!OfProduct
<1>3. Opinions!Cardinality({}) = 0
  BY ReviewsCounted, FS_EmptySet
<1>4. \A p \in Opinions!Products : rating[p] = Card(reviews, Opinions!Approved(p))
  BY <1>2, <1>3 DEF ReviewStart, Opinions!ReviewsInit, Card, MeanOf
<1>5. Opinions!There = 1..0 /\ 0 \in Nat
  BY <1>2
<1>6. ReviewTable
  BY <1>2, <1>5 DEF ReviewTable, ReviewStart, Opinions!ReviewsInit, Opinions!There
<1> QED
  BY <1>1, <1>2, <1>4, <1>6 DEF ReviewsInv, EachOfAnother, CardsTell, MarksTell

LEMMA ReviewsNext ==
  ASSUME OneAtATime
  PROVE  ReviewsInv /\ [Opinions!Next]_reviewingVars => ReviewsInv'
<1> SUFFICES ASSUME ReviewsInv, [Opinions!Next]_reviewingVars PROVE ReviewsInv'
  OBVIOUS
<1> USE DEF ReviewsInv
<1>a. ASSUME NEW r \in Requests, NEW l, NEW j,
             Opinions!Begin(r, l, j) \/ Opinions!Continue(r, l, j), ReviewJobFits(l, j)'
      PROVE  /\ Slots' /\ ReviewJobs' /\ pc'[r] = l /\ job'[r] = j
             /\ \A q \in Requests : q = r
  BY <1>a DEF Slots, ReviewJobs, Opinions!Begin, Opinions!Continue, OneAtATime
<1>b. ASSUME NEW r \in Requests, Opinions!Finish(r)
      PROVE  /\ Slots' /\ ReviewJobs' /\ pc'[r] = "idle"
             /\ \A q \in Requests : q = r
  BY <1>b DEF Slots, ReviewJobs, ReviewJobFits, Opinions!Finish, OneAtATime
<1>c. ASSUME NEW r \in Requests, Opinions!AtOnce(r)
      PROVE  Slots' /\ ReviewJobs' /\ pc'[r] = "idle" /\ pc[r] = "idle" /\ \A q \in Requests :
                 q = r
  BY <1>c DEF Slots, ReviewJobs, ReviewJobFits, Opinions!AtOnce, OneAtATime
<1>d. ASSUME Opinions!There' = Opinions!There, UNCHANGED rating, \A m \in messages' :
             m.review \in Opinions!There,
             delivered \subseteq delivered', reviews' = [i \in Opinions!There |-> reviews'[i]],
             \A i \in Opinions!There :
               /\ SameReview(reviews[i], reviews'[i])
               /\ reviews'[i] = [variant |-> reviews'[i].variant, order |-> reviews'[i].order,
                                 rating |-> reviews'[i].rating, status |-> reviews'[i].status,
                                 hasReply |-> reviews'[i].hasReply]
               /\ reviews'[i].hasReply \in BOOLEAN
      PROVE  ReviewTable' /\ EachOfAnother'
  <2>1. ReviewTable'
    BY <1>d DEF ReviewTable, SameReview
  <2> QED
    BY <1>d, <2>1 DEF EachOfAnother, SameReview
<1>e. ASSUME NEW p, Opinions!There' = Opinions!There,
             \A i \in Opinions!There :
               /\ SameReview(reviews[i], reviews'[i])
               /\ reviews[i].status = "Approved" <=> reviews'[i].status = "Approved"
      PROVE  /\ Opinions!Approved(p)' = Opinions!Approved(p)
             /\ Card(reviews', Opinions!Approved(p)') = Card(reviews, Opinions!Approved(p))
  <2>1. Opinions!Approved(p)' = Opinions!Approved(p) /\ Opinions!Approved(p) \subseteq
          Opinions!There
    BY <1>e DEF Opinions!Approved, Opinions!OfProduct, SameReview
  <2> QED
    BY <1>e, <2>1, MeanOfSame DEF SameReview
<1>f. ASSUME UNCHANGED <<reviews>>
      PROVE  Opinions!There' = Opinions!There /\ \A p :
                 Opinions!Approved(p)' = Opinions!Approved(p)
  BY <1>f DEF Opinions!There, Opinions!Approved, Opinions!OfProduct
<1>g. ASSUME UNCHANGED <<reviews, messages, rating>>, delivered \subseteq delivered'
      PROVE  ReviewTable' /\ EachOfAnother'
  <2>1. Opinions!There' = Opinions!There /\ messages' = messages /\ reviews' = reviews
    BY <1>g, <1>f
  <2>2. \A i \in Opinions!There : /\ SameReview(reviews[i], reviews'[i])
    BY <2>1 DEF SameReview
  <2> QED
    BY <1>g, <2>1, <2>2, <1>d DEF ReviewTable
<1>1. ASSUME NEW r \in Requests, NEW v \in Variants, NEW o \in Orders,
             Opinions!SubmitRead(r, v, o)
      PROVE  ReviewsInv'
  <2>1. UNCHANGED <<reviews, messages, rating, reviewTorn, delivered>>
    BY <1>1 DEF Opinions!SubmitRead, Opinions!reviewVars
  <2>2. PICK n \in Stars :
          Opinions!Begin(r, "submit", [row |-> [variant |-> v, order |-> o, rating |-> n,
                                       status |-> "Pending", hasReply |-> FALSE]])
    BY <1>1 DEF Opinions!SubmitRead
  <2>3. PICK j : j = [row |-> [variant |-> v, order |-> o, rating |-> n,
                               status |-> "Pending", hasReply |-> FALSE]]
    OBVIOUS
  <2>4. o \in delivered /\ \A i \in Opinions!There : reviews[i].variant # v
          \/ reviews[i].order # o
    BY <1>1 DEF Opinions!SubmitRead, Opinions!AlreadyReviewed
  <2>5. Opinions!There' = Opinions!There /\ \A p : Opinions!Approved(p)' = Opinions!Approved(p)
    BY <2>1, <1>f
  <2>6. ReviewJobFits("submit", j)'
    BY <2>1, <2>3, <2>4, <2>5 DEF ReviewJobFits
  <2>7. Slots' /\ ReviewJobs' /\ pc'[r] = "submit" /\ \A q \in Requests : q = r
    BY <2>2, <2>3, <2>6, <1>a
  <2>8. pc[r] = "idle"
    BY <2>2 DEF Opinions!Begin
  <2>9. CardsTell'
    BY <2>1, <2>5, <2>7, <2>8 DEF CardsTell
  <2>10. MarksTell'
    BY <2>1, <2>5, <2>7, <2>8 DEF MarksTell, Opinions!Message
  <2> QED
    BY <2>1, <2>7, <2>9, <2>10, <1>g
<1>2. ASSUME NEW r \in Requests, Opinions!SubmitInsert(r) PROVE ReviewsInv'
  <2>1. PICK i : i = NewNumber
    OBVIOUS
  <2>2. PICK row : row = job[r].row
    OBVIOUS
  <2>3. /\ pc[r] = "submit" /\ Opinions!Finish(r)
        /\ UNCHANGED <<delivered, messages, rating, reviewTorn>>
        /\ reviews' = [k \in Opinions!There \cup {i} |-> IF k = i THEN row ELSE reviews[k]]
    BY <1>2, <2>1, <2>2 DEF Opinions!SubmitInsert, NewNumber, Opinions!Cardinality
  <2>4. PICK n \in Nat : Opinions!There = 1..n
    BY DEF ReviewTable
  <2>5. i = n + 1
    BY <2>1, <2>4, ReviewsCounted, FS_Interval DEF NewNumber
  <2>6. Opinions!There' = Opinions!There \cup {i} /\ i \notin Opinions!There /\ Opinions!There' =
          1..(n + 1) /\ n + 1 \in Nat
    BY <2>3, <2>4, <2>5 DEF Opinions!There
  <2>7. /\ row = [variant |-> row.variant, order |-> row.order, rating |-> row.rating,
                  status |-> "Pending", hasReply |-> FALSE]
        /\ row.variant \in Variants /\ row.order \in delivered
        /\ \A k \in Opinions!There : reviews[k].variant # row.variant
               \/ reviews[k].order # row.order
    BY <2>2, <2>3 DEF ReviewJobs, ReviewJobFits
  <2>8. reviews'[i] = row /\ \A k \in Opinions!There : reviews'[k] = reviews[k]
    BY <2>3, <2>6
  <2>9. row.status = "Pending" /\ row.hasReply = FALSE
    BY <2>7
  <2>10. Slots' /\ ReviewJobs' /\ pc'[r] = "idle" /\ \A q \in Requests : q = r
    BY <2>3, <1>b
  <2>11. ReviewTable'
    <3>1. reviews' = [k \in Opinions!There' |-> reviews'[k]]
      BY <2>3, <2>6
    <3>2. \A m \in messages' : m.review \in Opinions!There'
      BY <2>3, <2>6 DEF ReviewTable
    <3>3. ASSUME NEW k \in Opinions!There'
          PROVE  /\ reviews'[k] = [variant |-> reviews'[k].variant, order |-> reviews'[k].order,
                                   rating |-> reviews'[k].rating, status |-> reviews'[k].status,
                                   hasReply |-> reviews'[k].hasReply]
                 /\ reviews'[k].variant \in Variants /\ reviews'[k].order \in delivered'
                 /\ reviews'[k].hasReply \in BOOLEAN
      <4>1. CASE k = i
        BY <2>3, <2>7, <2>8, <2>9, <4>1
      <4>2. CASE k \in Opinions!There
        BY <2>3, <2>8, <4>2 DEF ReviewTable
      <4> QED
        BY <2>6, <4>1, <4>2
    <3> QED
      BY <2>3, <2>6, <3>1, <3>2, <3>3 DEF ReviewTable
  <2>12. EachOfAnother'
    BY <2>6, <2>7, <2>8 DEF EachOfAnother
  <2>13. CardsTell'
    <3>1. ASSUME NEW p \in Opinions!Products PROVE Card(reviews', Opinions!Approved(p)') =
                 Card(reviews, Opinions!Approved(p))
      <4>1. Opinions!Approved(p)' = Opinions!Approved(p) /\ Opinions!Approved(p) \subseteq
              Opinions!There
        BY <2>6, <2>8, <2>9 DEF Opinions!Approved, Opinions!OfProduct
      <4> QED
        BY <2>8, <4>1, MeanOfSame
    <3> QED
      BY <2>3, <2>10, <3>1 DEF CardsTell
  <2>14. MarksTell'
    <3>1. Opinions!Message(i, "Reply") \notin messages
      BY <2>6 DEF Opinions!Message, ReviewTable
    <3> QED
      BY <2>3, <2>6, <2>8, <2>9, <2>10, <3>1 DEF MarksTell, Opinions!Message
  <2> QED
    BY <2>10, <2>11, <2>12, <2>13, <2>14
<1>3. ASSUME NEW r \in Requests, NEW i \in Opinions!There, Opinions!ModerateRead(r, i)
      PROVE ReviewsInv'
  <2>1. UNCHANGED <<reviews, messages, rating, reviewTorn, delivered>>
    BY <1>3 DEF Opinions!ModerateRead, Opinions!reviewVars
  <2>2. PICK to \in {"Approved", "Rejected", "Hidden"} :
          Opinions!Begin(r, "moderate", [id |-> i, row |-> [reviews[i] EXCEPT !.status = to],
                                recompute |-> Opinions!MovesAverage(reviews[i].status, to)])
    BY <1>3 DEF Opinions!ModerateRead
  <2>3. PICK j : j = [id |-> i, row |-> [reviews[i] EXCEPT !.status = to],
                      recompute |-> Opinions!MovesAverage(reviews[i].status, to)]
    OBVIOUS
  <2>4. PICK row : row = reviews[i]
    OBVIOUS
  <2>5. row = [variant |-> row.variant, order |-> row.order, rating |-> row.rating,
               status |-> row.status, hasReply |-> row.hasReply]
    BY <2>4 DEF ReviewTable
  <2>6. [row EXCEPT !.status = to] =
          [variant |-> row.variant, order |-> row.order, rating |-> row.rating,
           status |-> to, hasReply |-> row.hasReply]
    BY <2>5
  <2>7. /\ j.id = i /\ j.recompute = Opinions!MovesAverage(reviews[i].status, to)
        /\ j.row.status = to
        /\ j.row = [variant |-> row.variant, order |-> row.order, rating |-> row.rating,
                    status |-> to, hasReply |-> row.hasReply]
    BY <2>3, <2>4, <2>6
  <2>8. Opinions!There' = Opinions!There /\ \A p : Opinions!Approved(p)' = Opinions!Approved(p)
    BY <2>1, <1>f
  <2>9. ReviewJobFits("moderate", j)'
    BY <2>1, <2>4, <2>7, <2>8 DEF ReviewJobFits, Opinions!MovesAverage
  <2>10. Slots' /\ ReviewJobs' /\ pc'[r] = "moderate" /\ \A q \in Requests : q = r
    BY <2>2, <2>3, <2>9, <1>a
  <2>11. pc[r] = "idle"
    BY <2>2 DEF Opinions!Begin
  <2>12. CardsTell'
    BY <2>1, <2>8, <2>10, <2>11 DEF CardsTell
  <2>13. MarksTell'
    BY <2>1, <2>8, <2>10, <2>11 DEF MarksTell, Opinions!Message
  <2> QED
    BY <2>1, <2>10, <2>12, <2>13, <1>g
<1>4. ASSUME NEW r \in Requests, Opinions!ModerateSave(r) PROVE ReviewsInv'
  <2>1. PICK i : i = job[r].id
    OBVIOUS
  <2>2. PICK row : row = job[r].row
    OBVIOUS
  <2>3. /\ pc[r] = "moderate" /\ UNCHANGED <<delivered, messages, rating, reviewTorn>>
        /\ reviews' = [reviews EXCEPT ![i] = row]
        /\ IF job[r].recompute
           THEN Opinions!Continue(r, "aggregate", [product |-> ProductOf(row.variant)]) ELSE Opinions!Finish(r)
    BY <1>4, <2>1, <2>2 DEF Opinions!ModerateSave
  <2>4. /\ i \in Opinions!There
        /\ row = [variant |-> reviews[i].variant, order |-> reviews[i].order,
                  rating |-> reviews[i].rating, status |-> row.status,
                  hasReply |-> reviews[i].hasReply]
        /\ job[r].recompute = Opinions!MovesAverage(reviews[i].status, row.status)
    BY <2>1, <2>2, <2>3 DEF ReviewJobs, ReviewJobFits
  <2>5. /\ Opinions!There' = Opinions!There /\ reviews'[i] = row
        /\ reviews' = [k \in Opinions!There |-> reviews'[k]]
        /\ \A k \in Opinions!There \ {i} : reviews'[k] = reviews[k]
    BY <2>3, <2>4 DEF Opinions!There, ReviewTable
  <2>6. SameReview(row, reviews[i]) /\ row.hasReply = reviews[i].hasReply
    BY <2>4 DEF SameReview
  <2>7. \A k \in Opinions!There :
          SameReview(reviews[k], reviews'[k]) /\ reviews'[k].hasReply = reviews[k].hasReply
    BY <2>5, <2>6 DEF SameReview
  <2>8. ReviewTable' /\ EachOfAnother'
    <3>1. ASSUME NEW k \in Opinions!There
          PROVE  reviews'[k] = [variant |-> reviews'[k].variant, order |-> reviews'[k].order,
                                rating |-> reviews'[k].rating, status |-> reviews'[k].status,
                                hasReply |-> reviews'[k].hasReply]
      <4>1. CASE k = i
        BY <2>4, <2>5, <2>6, <4>1 DEF SameReview
      <4>2. CASE k # i
        BY <2>5, <4>2 DEF ReviewTable
      <4> QED
        BY <4>1, <4>2
    <3>2. \A k \in Opinions!There : reviews'[k].hasReply \in BOOLEAN
      BY <2>7 DEF ReviewTable
    <3>3. \A m \in messages' : m.review \in Opinions!There
      BY <2>3 DEF ReviewTable
    <3> QED
      BY <2>3, <2>5, <2>7, <3>1, <3>2, <3>3, <1>d
  <2>9. /\ Slots' /\ ReviewJobs' /\ pc'[r] \in {"idle", "aggregate"} /\ \A q \in Requests : q = r
        /\ job[r].recompute => pc'[r] = "aggregate" /\ job'[r].product = ProductOf(row.variant)
    <3>1. PICK j : j = [product |-> ProductOf(row.variant)]
      OBVIOUS
    <3>2. ReviewJobFits("aggregate", j)'
      BY DEF ReviewJobFits
    <3>3. CASE job[r].recompute
      BY <2>3, <3>1, <3>2, <3>3, <1>a
    <3>4. CASE ~job[r].recompute
      BY <2>3, <3>4, <1>b
    <3> QED
      BY <3>3, <3>4
  <2>10. CardsTell'
    <3> SUFFICES ASSUME ~reviewTorn, NEW p \in Opinions!Products,
                        pc'[r] \in {"aggregate", "write rating"} => job'[r].product # p
                 PROVE  rating[p] = Card(reviews', Opinions!Approved(p)')
      BY <2>3, <2>9 DEF CardsTell
    <3>1. rating[p] = Card(reviews, Opinions!Approved(p))
      BY <2>3, <2>9 DEF CardsTell
    <3>2. CASE job[r].recompute
      <4>1. ProductOf(row.variant) # p /\ row.variant = reviews[i].variant
        BY <2>6, <2>9, <3>2 DEF SameReview
      <4>2. Opinions!Approved(p)' = Opinions!Approved(p) /\ Opinions!Approved(p) \subseteq
              Opinions!There
        BY <2>5, <4>1 DEF Opinions!Approved, Opinions!OfProduct
      <4>3. \A k \in Opinions!Approved(p) : reviews[k].rating = reviews'[k].rating
        BY <2>7, <4>2 DEF SameReview
      <4>4. Card(reviews, Opinions!Approved(p)) = Card(reviews', Opinions!Approved(p))
        BY <4>3, MeanOfSame
      <4> QED
        BY <3>1, <4>2, <4>4
    <3>3. CASE ~job[r].recompute
      <4>1. row.status # "Approved" /\ reviews[i].status # "Approved"
        BY <2>4, <3>3 DEF Opinions!MovesAverage
      <4>2. \A k \in Opinions!There : reviews[k].status = "Approved" <=> reviews'[k].status =
              "Approved"
        BY <2>5, <4>1
      <4> QED
        BY <2>5, <2>7, <3>1, <4>2, <1>e
    <3> QED
      BY <3>2, <3>3
  <2>11. MarksTell'
    BY <2>3, <2>5, <2>7, <2>9 DEF MarksTell, Opinions!Message
  <2> QED
    BY <2>8, <2>9, <2>10, <2>11
<1>5. ASSUME NEW r \in Requests, Opinions!Aggregate(r) PROVE ReviewsInv'
  <2>1. PICK p : p = job[r].product
    OBVIOUS
  <2>2. PICK j :
          j = [product |-> p, rating |-> [average |-> Opinions!Average(Opinions!Approved(p)),
                                                 count |-> Opinions!Cardinality(Opinions!Approved(p))]]
    OBVIOUS
  <2>3. pc[r] = "aggregate" /\ Opinions!Continue(r, "write rating", j)
    BY <1>5, <2>1, <2>2 DEF Opinions!Aggregate, Opinions!Cardinality
  <2>4. UNCHANGED <<reviews, messages, rating, reviewTorn, delivered>>
    BY <1>5 DEF Opinions!Aggregate, Opinions!reviewVars
  <2>5. Opinions!There' = Opinions!There /\ \A q : Opinions!Approved(q)' = Opinions!Approved(q)
    BY <2>4, <1>f
  <2>6. j.product = p /\ j.rating = Card(reviews, Opinions!Approved(p))
    <3>1. Opinions!Average(Opinions!Approved(p)) = MeanOf(reviews, Opinions!Approved(p))
      BY AverageIsMean
    <3> QED
      BY <2>2, <3>1 DEF Card
  <2>7. ReviewJobFits("write rating", j)'
    BY <2>4, <2>5, <2>6 DEF ReviewJobFits
  <2>8. Slots' /\ ReviewJobs' /\ pc'[r] = "write rating" /\ job'[r] = j /\ \A q \in Requests :
          q = r
    BY <2>3, <2>7, <1>a
  <2>9. CardsTell'
    BY <2>1, <2>3, <2>4, <2>5, <2>6, <2>8 DEF CardsTell
  <2>10. MarksTell'
    BY <2>3, <2>4, <2>5, <2>8 DEF MarksTell, Opinions!Message
  <2> QED
    BY <2>4, <2>8, <2>9, <2>10, <1>g
<1>6. ASSUME NEW r \in Requests, Opinions!WriteRating(r) PROVE ReviewsInv'
  <2>1. PICK p : p = job[r].product
    OBVIOUS
  <2>2. /\ pc[r] = "write rating" /\ Opinions!Finish(r)
        /\ UNCHANGED <<delivered, reviews, messages, reviewTorn>>
        /\ rating' = [rating EXCEPT ![p] = job[r].rating]
    BY <1>6, <2>1 DEF Opinions!WriteRating
  <2>3. Opinions!There' = Opinions!There /\ \A q : Opinions!Approved(q)' = Opinions!Approved(q)
    BY <2>2, <1>f
  <2>4. Slots' /\ ReviewJobs' /\ pc'[r] = "idle" /\ \A q \in Requests : q = r
    BY <2>2, <1>b
  <2>5. job[r].rating = Card(reviews, Opinions!Approved(p))
    BY <2>1, <2>2 DEF ReviewJobs, ReviewJobFits
  <2>6. /\ rating' = [q \in Opinions!Products |-> rating'[q]]
        /\ \A q \in Opinions!Products :
             rating'[q] = IF q = p THEN Card(reviews, Opinions!Approved(p)) ELSE rating[q]
    BY <2>2, <2>5 DEF ReviewTable
  <2>7. CardsTell'
    BY <2>1, <2>2, <2>3, <2>4, <2>6 DEF CardsTell
  <2>8. MarksTell'
    BY <2>2, <2>3, <2>4 DEF MarksTell, Opinions!Message
  <2>9. ReviewTable'
    BY <2>2, <2>3, <2>6 DEF ReviewTable
  <2>10. EachOfAnother'
    BY <2>2, <2>3 DEF EachOfAnother
  <2> QED
    BY <2>4, <2>7, <2>8, <2>9, <2>10
<1>7. ASSUME NEW r \in Requests, NEW i \in Opinions!There, Opinions!Reply(r, i) PROVE ReviewsInv'
  <2>1. PICK type \in {"Reply", "InternalNote"} :
          /\ messages' = messages \cup {Opinions!Message(i, type)}
          /\ IF type = "Reply" THEN Opinions!Begin(r, "mark", [id |-> i]) ELSE Opinions!AtOnce(r)
          /\ UNCHANGED <<delivered, reviews, rating, reviewTorn>>
    BY <1>7 DEF Opinions!Reply
  <2>2. Opinions!There' = Opinions!There /\ \A q : Opinions!Approved(q)' = Opinions!Approved(q)
    BY <2>1, <1>f
  <2>3. Opinions!Message(i, type).review = i /\ Opinions!Message(i, type).type = type
    BY DEF Opinions!Message
  <2>4. ReviewTable' /\ EachOfAnother'
    <3>1. \A m \in messages' : m.review \in Opinions!There
      BY <2>1, <2>3 DEF ReviewTable
    <3>2. \A k \in Opinions!There : SameReview(reviews[k], reviews'[k]) /\ reviews'[k] =
            reviews[k]
      BY <2>1 DEF SameReview
    <3> QED
      BY <2>1, <2>2, <3>1, <3>2, <1>d DEF ReviewTable
  <2>5. pc[r] = "idle" /\ \A q \in Requests : q = r
    BY <2>1, <1>c DEF Opinions!Begin, OneAtATime
  <2>6. CASE type = "Reply"
    <3>1. PICK j : j = [id |-> i]
      OBVIOUS
    <3>2. ReviewJobFits("mark", j)'
      BY <2>1, <2>2, <2>6, <3>1 DEF ReviewJobFits, Opinions!Message
    <3>3. Slots' /\ ReviewJobs' /\ pc'[r] = "mark" /\ job'[r] = j
      BY <2>1, <2>6, <3>1, <3>2, <1>a
    <3>4. CardsTell'
      BY <2>1, <2>2, <2>5, <3>3 DEF CardsTell
    <3>5. \A k \in Opinions!There : k # i =>
            Opinions!Message(k, "Reply") # Opinions!Message(i, type)
      BY DEF Opinions!Message
    <3>6. \A k \in Opinions!There : Opinions!Message(k, "Reply")' = Opinions!Message(k, "Reply")
      BY DEF Opinions!Message
    <3>7. MarksTell'
      BY <2>1, <2>2, <2>5, <3>1, <3>3, <3>5, <3>6 DEF MarksTell
    <3> QED
      BY <2>4, <3>3, <3>4, <3>7
  <2>7. CASE type # "Reply"
    <3>1. Slots' /\ ReviewJobs' /\ pc'[r] = "idle"
      BY <2>1, <2>7, <1>c
    <3>2. CardsTell'
      BY <2>1, <2>2, <2>5, <3>1 DEF CardsTell
    <3>3. \A k \in Opinions!There : Opinions!Message(k, "Reply") # Opinions!Message(i, type)
      BY <2>3, <2>7 DEF Opinions!Message
    <3>4. \A k \in Opinions!There : Opinions!Message(k, "Reply")' = Opinions!Message(k, "Reply")
      BY DEF Opinions!Message
    <3>5. MarksTell'
      BY <2>1, <2>2, <2>5, <3>1, <3>3, <3>4 DEF MarksTell
    <3> QED
      BY <2>4, <3>1, <3>2, <3>5
  <2> QED
    BY <2>6, <2>7
<1>8. ASSUME NEW r \in Requests, Opinions!MarkReplied(r) PROVE ReviewsInv'
  <2>1. PICK i : i = job[r].id
    OBVIOUS
  <2>2. PICK y : y = [reviews[i] EXCEPT !.hasReply = TRUE]
    OBVIOUS
  <2>3. pc[r] = "mark" /\ Opinions!Finish(r) /\ UNCHANGED <<delivered, messages, rating,
          reviewTorn>>
    BY <1>8 DEF Opinions!MarkReplied
  <2>4. i \in Opinions!There /\ Opinions!Message(i, "Reply") \in messages
    BY <2>1, <2>3 DEF ReviewJobs, ReviewJobFits
  <2>5. reviews' = [reviews EXCEPT ![i] = y]
    BY <1>8, <2>1, <2>2, <2>4 DEF Opinions!MarkReplied, Opinions!Marked, Opinions!There
  <2>6. y = [variant |-> reviews[i].variant, order |-> reviews[i].order,
             rating |-> reviews[i].rating, status |-> reviews[i].status, hasReply |-> TRUE]
    <3>1. PICK row : row = reviews[i]
      OBVIOUS
    <3>2. row = [variant |-> row.variant, order |-> row.order, rating |-> row.rating,
                 status |-> row.status, hasReply |-> row.hasReply]
      BY <2>4, <3>1 DEF ReviewTable
    <3>3. PICK yes : yes = TRUE
      OBVIOUS
    <3>4. [row EXCEPT !.hasReply = yes] =
            [variant |-> row.variant, order |-> row.order, rating |-> row.rating,
             status |-> row.status, hasReply |-> yes]
      BY <3>2
    <3> QED
      BY <2>2, <3>1, <3>3, <3>4
  <2>7. /\ Opinions!There' = Opinions!There /\ reviews'[i] = y
        /\ reviews' = [k \in Opinions!There |-> reviews'[k]]
        /\ \A k \in Opinions!There \ {i} : reviews'[k] = reviews[k]
    BY <2>4, <2>5 DEF Opinions!There, ReviewTable
  <2>8. /\ SameReview(reviews[i], y) /\ y.status = reviews[i].status /\ y.hasReply = TRUE
        /\ y = [variant |-> y.variant, order |-> y.order, rating |-> y.rating,
                status |-> y.status, hasReply |-> y.hasReply]
    BY <2>6 DEF SameReview
  <2>9. \A k \in Opinions!There :
          /\ SameReview(reviews[k], reviews'[k]) /\ reviews'[k].status = reviews[k].status
          /\ reviews'[k].hasReply = IF k = i THEN TRUE ELSE reviews[k].hasReply
    BY <2>7, <2>8 DEF SameReview
  <2>10. ReviewTable' /\ EachOfAnother'
    <3>1. \A k \in Opinions!There :
            reviews'[k] = [variant |-> reviews'[k].variant, order |-> reviews'[k].order,
                           rating |-> reviews'[k].rating, status |-> reviews'[k].status,
                           hasReply |-> reviews'[k].hasReply]
      BY <2>7, <2>8 DEF ReviewTable
    <3>2. \A k \in Opinions!There : reviews'[k].hasReply \in BOOLEAN
      BY <2>9 DEF ReviewTable
    <3>3. \A m \in messages' : m.review \in Opinions!There
      BY <2>3 DEF ReviewTable
    <3> QED
      BY <2>3, <2>7, <2>9, <3>1, <3>2, <3>3, <1>d
  <2>11. Slots' /\ ReviewJobs' /\ pc'[r] = "idle" /\ \A q \in Requests : q = r
    BY <2>3, <1>b
  <2>12. CardsTell'
    <3>1. \A p \in Opinions!Products : Card(reviews', Opinions!Approved(p)') =
            Card(reviews, Opinions!Approved(p))
      BY <2>7, <2>9, <1>e
    <3> QED
      BY <2>3, <2>11, <3>1 DEF CardsTell
  <2>13. MarksTell'
    BY <2>1, <2>3, <2>4, <2>7, <2>9, <2>11 DEF MarksTell, Opinions!Message
  <2> QED
    BY <2>10, <2>11, <2>12, <2>13
<1>9. ASSUME NEW r \in Requests, Opinions!Abandon(r) PROVE ReviewsInv'
  <2>1. /\ Opinions!Finish(r) /\ UNCHANGED <<delivered, reviews, messages, rating>>
        /\ reviewTorn' = (reviewTorn \/ pc[r] \in {"aggregate", "write rating", "mark"})
    BY <1>9 DEF Opinions!Abandon, Opinions!GiveUp
  <2>2. Opinions!There' = Opinions!There /\ \A q : Opinions!Approved(q)' = Opinions!Approved(q)
    BY <2>1, <1>f
  <2>3. Slots' /\ ReviewJobs' /\ pc'[r] = "idle" /\ \A q \in Requests : q = r
    BY <2>1, <1>b
  <2>4. CardsTell'
    BY <2>1, <2>2, <2>3 DEF CardsTell
  <2>5. MarksTell'
    BY <2>1, <2>2, <2>3 DEF MarksTell, Opinions!Message
  <2> QED
    BY <2>1, <2>3, <2>4, <2>5, <1>g
<1>10. ASSUME NEW o \in Orders, Opinions!Deliver(o) PROVE ReviewsInv'
  <2>1. delivered \subseteq delivered' /\ UNCHANGED <<pc, job, reviews, messages, rating,
          reviewTorn>>
    BY <1>10 DEF Opinions!Deliver, Opinions!handling
  <2>2. Opinions!There' = Opinions!There /\ \A q : Opinions!Approved(q)' = Opinions!Approved(q)
    BY <2>1, <1>f
  <2>3. Slots'
    BY <2>1 DEF Slots
  <2>4. ASSUME NEW r \in Requests PROVE ReviewJobFits(pc[r], job[r])'
    <3>1. ReviewJobFits(pc[r], job[r])
      BY DEF ReviewJobs
    <3> QED
      BY <2>1, <2>2, <3>1 DEF ReviewJobFits, Opinions!Message, Opinions!MovesAverage
  <2>5. ReviewJobs'
    BY <2>1, <2>4 DEF ReviewJobs
  <2>6. CardsTell'
    BY <2>1, <2>2 DEF CardsTell
  <2>7. MarksTell'
    BY <2>1, <2>2 DEF MarksTell, Opinions!Message
  <2> QED
    BY <2>1, <2>3, <2>5, <2>6, <2>7, <1>g
<1>11. CASE UNCHANGED reviewingVars
  <2>1. UNCHANGED <<pc, job, delivered, reviews, messages, rating, reviewTorn>>
    BY <1>11 DEF reviewingVars, Opinions!reviewVars, Opinions!handling
  <2>2. Opinions!There' = Opinions!There /\ \A q : Opinions!Approved(q)' = Opinions!Approved(q)
    BY <2>1, <1>f
  <2>3. Slots'
    BY <2>1 DEF Slots
  <2>4. ASSUME NEW r \in Requests PROVE ReviewJobFits(pc[r], job[r])'
    <3>1. ReviewJobFits(pc[r], job[r])
      BY DEF ReviewJobs
    <3> QED
      BY <2>1, <2>2, <3>1 DEF ReviewJobFits, Opinions!Message, Opinions!MovesAverage
  <2>5. ReviewJobs'
    BY <2>1, <2>4 DEF ReviewJobs
  <2>6. CardsTell'
    BY <2>1, <2>2 DEF CardsTell
  <2>7. MarksTell'
    BY <2>1, <2>2 DEF MarksTell, Opinions!Message
  <2> QED
    BY <2>1, <2>3, <2>5, <2>6, <2>7, <1>g
<1> QED
  BY <1>1, <1>2, <1>3, <1>4, <1>5, <1>6, <1>7, <1>8, <1>9, <1>10, <1>11 DEF Opinions!Next

\* While handlers do not overlap, a customer reviews a variant once for each delivered order
\* that has it: what SubmitRead looked up is still so at the INSERT.
THEOREM ReviewedOncePerPurchase ==
  ASSUME OneAtATime
  PROVE  ReviewSpec => []Opinions!OncePerPurchase
<1>1. ReviewsInv => Opinions!OncePerPurchase
  BY DEF ReviewsInv, Opinions!OncePerPurchase, ReviewTable, EachOfAnother
<1> QED
  BY <1>1, ReviewsStart, ReviewsNext, PTL DEF ReviewSpec

\* While handlers do not overlap, the rating on a product's card is that of the reviews its
\* page shows, for any number of reviews and any stars, unless a moderation was cut short.
THEOREM CardTellsTheAverage ==
  ASSUME OneAtATime
  PROVE  ReviewSpec => []Opinions!RatingIsAverage
<1>1. ReviewsInv => Opinions!RatingIsAverage
  <2> SUFFICES ASSUME ReviewsInv, ~reviewTorn,
                      \A r \in Requests : pc[r] \notin {"aggregate", "write rating"},
                      NEW p \in Opinions!Products
               PROVE  rating[p] = [average |-> Opinions!Average(Opinions!Shown(p, {}, {})),
                                   count |-> Opinions!Cardinality(Opinions!Shown(p, {}, {}))]
    BY DEF Opinions!RatingIsAverage, Opinions!Cardinality
  <2>1. rating[p] = Card(reviews, Opinions!Approved(p))
    BY DEF ReviewsInv, CardsTell
  <2>2. Opinions!Shown(p, {}, {}) = Opinions!Approved(p)
    BY DEF Opinions!Shown, Opinions!Given
  <2>3. Opinions!Average(Opinions!Approved(p)) = MeanOf(reviews, Opinions!Approved(p))
    BY AverageIsMean
  <2> QED
    BY <2>1, <2>2, <2>3 DEF Card
<1> QED
  BY <1>1, ReviewsStart, ReviewsNext, PTL DEF ReviewSpec

\* While handlers do not overlap, the reviews that wait for an answer are the approved ones
\* without a reply, unless an answer was cut short.
THEOREM WaitingHaveNoReply ==
  ASSUME OneAtATime
  PROVE  ReviewSpec => []Opinions!UnansweredWait
<1>1. ReviewsInv => Opinions!UnansweredWait
  <2> SUFFICES ASSUME ReviewsInv, ~reviewTorn, \A r \in Requests : pc[r] # "mark"
               PROVE  Opinions!Rows({}, {}, {}, TRUE) = {i \in
                          Opinions!Rows({"Approved"}, {}, {}, FALSE) :
                                                  Opinions!Message(i, "Reply") \notin messages}
    BY DEF Opinions!UnansweredWait
  <2>1. \A i \in Opinions!There : reviews[i].hasReply <=> Opinions!Message(i, "Reply") \in
          messages
    BY DEF ReviewsInv, MarksTell
  <2>2. Opinions!Rows({}, {}, {}, TRUE) = {i \in Opinions!There :
          reviews[i].status = "Approved" /\ ~reviews[i].hasReply}
    BY DEF Opinions!Rows, Opinions!Given
  <2>3. Opinions!Rows({"Approved"}, {}, {}, FALSE) = {i \in Opinions!There :
          reviews[i].status = "Approved"}
    BY DEF Opinions!Rows, Opinions!Given
  <2> QED
    BY <2>1, <2>2, <2>3
<1> QED
  BY <1>1, ReviewsStart, ReviewsNext, PTL DEF ReviewSpec

-----------------------------------------------------------------------------
(* Saved builds: how many a customer has, their parts, and who has viewed them *)

LEMMA BuildsCounted == \A S : Builds!Cardinality(S) = Cardinality(S)
  BY DEF Builds!Cardinality, Cardinality

BuildStart == Builds!BuildsInit /\ Quiet

buildingVars == <<Builds!buildVars, Builds!handling>>

BuildSpec == BuildStart /\ [][Builds!Next]_buildingVars

\* The visitors that counted for the build b.
VisitorsOf(b) == {c \in Customers : <<c, b>> \in counted}

\* Builds have the ids that were given out, with parts of their own.
BuildTable ==
  /\ builds = [b \in Builds!There |-> builds[b]] /\ nextBuild \in Nat
  /\ details = [b \in Builds!There |-> details[b]]
  /\ buildEntered = [b \in Builds!There |-> buildEntered[b]]
  /\ \A b \in Builds!There :
       /\ b \in Nat /\ b < nextBuild
       /\ builds[b] = [owner |-> builds[b].owner, isPublic |-> builds[b].isPublic,
                       views |-> builds[b].views, clones |-> builds[b].clones]

\* Every customer is within the limit.
OwnersFit ==
  \A c \in Customers : IsFiniteSet(Builds!OwnedBy(c)) /\ Cardinality(Builds!OwnedBy(c)) <=
      MaxBuilds

\* Visits are of builds whose id was given out.
VisitsFit ==
  /\ \A c, b : <<c, b>> \in counted => c \in Customers /\ b \in Nat /\ b < nextBuild
  /\ \A b : IsFiniteSet(VisitorsOf(b))

BuildJobFits(l, j) ==
  /\ l \in {"idle", "insert", "parts", "clear", "save", "clones", "view", "remember"}
  /\ l = "insert" => j.owner \in Customers /\ Cardinality(Builds!OwnedBy(j.owner)) < MaxBuilds
  /\ l \in {"parts", "clear", "save", "view", "remember"} => "build" \in DOMAIN j
  /\ l \in {"parts", "clear", "save", "view", "remember"} => j.build \in Builds!There
  /\ l = "parts" => details[j.build] = {} /\ buildEntered[j.build] = j.parts
  /\ l \in {"clear", "save"} =>
       /\ j.row = [owner |-> builds[j.build].owner, isPublic |-> j.row.isPublic,
                   views |-> builds[j.build].views, clones |-> j.row.clones]
       /\ j.replace \in BOOLEAN
  /\ l = "clear" => j.replace = TRUE
  /\ l = "save" =>
       IF j.replace THEN details[j.build] = {}
       ELSE j.build \in buildTorn \/ details[j.build] = buildEntered[j.build]
  /\ l \in {"view", "remember"} => j.visitor \in Customers /\ <<j.visitor,
         j.build>> \notin counted
  /\ l = "remember" =>
       j.build \in buildTorn \/ builds[j.build].views = Cardinality(VisitorsOf(j.build)) + 1

BuildJobs == \A r \in Requests : BuildJobFits(pc[r], job[r])

\* A build whose parts no handler is replacing is whole, unless a handler was cut short.
WholeBuilds ==
  \A b \in Builds!There \ buildTorn :
    (\A r \in Requests : pc[r] \in {"parts", "clear", "save"} => job[r].build # b)
      => details[b] = buildEntered[b]

\* A build that no handler is counting a visit of has counted its visitors.
ViewsCounted ==
  \A b \in Builds!There \ buildTorn :
    (\A r \in Requests : pc[r] = "remember" => job[r].build # b)
      => builds[b].views = Cardinality(VisitorsOf(b))

BuildsInv ==
  Slots /\ BuildTable /\ OwnersFit /\ VisitsFit /\ BuildJobs /\ WholeBuilds /\ ViewsCounted

LEMMA BuildsStart == ASSUME MaxBuilds \in Nat PROVE BuildStart => BuildsInv
<1> SUFFICES ASSUME BuildStart PROVE BuildsInv
  OBVIOUS
<1>1. Slots /\ BuildJobs
  BY DEF BuildStart, Quiet, Slots, BuildJobs, BuildJobFits
<1>2. Builds!There = {} /\ \A c : Builds!OwnedBy(c) = {} /\ VisitorsOf(c) = {}
  BY DEF BuildStart, Builds!BuildsInit, Builds!There, Builds!OwnedBy, VisitorsOf
<1>3. BuildTable
  BY <1>2 DEF BuildTable, BuildStart, Builds!BuildsInit
<1>4. OwnersFit /\ VisitsFit
  <2>1. IsFiniteSet({}) /\ Cardinality({}) <= MaxBuilds
    BY FS_EmptySet
  <2> QED
    BY <1>2, <2>1 DEF OwnersFit, VisitsFit, BuildStart, Builds!BuildsInit
<1> QED
  BY <1>1, <1>2, <1>3, <1>4 DEF BuildsInv, WholeBuilds, ViewsCounted

LEMMA BuildsNext ==
  ASSUME OneAtATime, MaxBuilds \in Nat
  PROVE  BuildsInv /\ [Builds!Next]_buildingVars => BuildsInv'
<1> SUFFICES ASSUME BuildsInv, [Builds!Next]_buildingVars PROVE BuildsInv'
  OBVIOUS
<1> USE DEF BuildsInv
<1>a. ASSUME NEW r \in Requests, NEW l, NEW j,
             Builds!Begin(r, l, j) \/ Builds!Continue(r, l, j), BuildJobFits(l, j)'
      PROVE  /\ Slots' /\ BuildJobs' /\ pc'[r] = l /\ job'[r] = j
             /\ \A q \in Requests : q = r
  BY <1>a DEF Slots, BuildJobs, Builds!Begin, Builds!Continue, OneAtATime
<1>b. ASSUME NEW r \in Requests, Builds!Finish(r)
      PROVE  Slots' /\ BuildJobs' /\ pc'[r] = "idle" /\ \A q \in Requests : q = r
  BY <1>b DEF Slots, BuildJobs, BuildJobFits, Builds!Finish, OneAtATime
<1>c. ASSUME NEW r \in Requests, Builds!AtOnce(r)
      PROVE  /\ Slots' /\ BuildJobs' /\ pc'[r] = "idle" /\ pc[r] = "idle"
             /\ \A q \in Requests : q = r
  BY <1>c DEF Slots, BuildJobs, BuildJobFits, Builds!AtOnce, OneAtATime
<1>d. ASSUME Builds!There' \subseteq Builds!There, \A b \in Builds!There' :
             builds'[b].owner = builds[b].owner
      PROVE  OwnersFit'
  <2> SUFFICES ASSUME NEW c \in Customers
               PROVE  IsFiniteSet(Builds!OwnedBy(c)') /\ Cardinality(Builds!OwnedBy(c)') <=
                          MaxBuilds
    BY DEF OwnersFit
  <2>1. Builds!OwnedBy(c)' \subseteq Builds!OwnedBy(c) /\ IsFiniteSet(Builds!OwnedBy(c))
    BY <1>d DEF Builds!OwnedBy, OwnersFit
  <2>2. IsFiniteSet(Builds!OwnedBy(c)') /\ Cardinality(Builds!OwnedBy(c)') <=
          Cardinality(Builds!OwnedBy(c))
    BY <2>1, FS_Subset
  <2>3. Cardinality(Builds!OwnedBy(c)') \in Nat /\ Cardinality(Builds!OwnedBy(c)) \in Nat
    BY <2>1, <2>2, FS_CardinalityType
  <2> QED
    BY <2>2, <2>3 DEF OwnersFit
<1>e. ASSUME UNCHANGED counted, nextBuild' \in {nextBuild, nextBuild + 1}
      PROVE  VisitsFit' /\ \A b : VisitorsOf(b)' = VisitorsOf(b)
  <2>1. \A b : VisitorsOf(b)' = VisitorsOf(b)
    BY <1>e DEF VisitorsOf
  <2>2. nextBuild \in Nat
    BY DEF BuildTable
  <2> QED
    BY <1>e, <2>1, <2>2 DEF VisitsFit
<1>f. ASSUME UNCHANGED <<builds, nextBuild, counted>>
      PROVE  /\ Builds!There' = Builds!There /\ OwnersFit' /\ VisitsFit'
             /\ \A b : VisitorsOf(b)' = VisitorsOf(b)
             /\ \A c : Builds!OwnedBy(c)' = Builds!OwnedBy(c)
  <2>1. Builds!There' = Builds!There
    BY <1>f DEF Builds!There
  <2>2. \A c : Builds!OwnedBy(c)' = Builds!OwnedBy(c)
    BY <1>f, <2>1 DEF Builds!OwnedBy
  <2> QED
    BY <1>f, <2>1, <2>2, <1>d, <1>e
<1>1. ASSUME NEW r \in Requests, NEW c \in Customers,
             Builds!Create(r, c) \/ \E b \in Builds!There : Builds!Clone(r, c, b)
      PROVE  BuildsInv'
  <2>1. UNCHANGED <<builds, details, nextBuild, counted, buildEntered, buildTorn>>
    BY <1>1 DEF Builds!Create, Builds!Clone, Builds!buildVars
  <2>2. PICK j : Builds!Begin(r, "insert", j) /\ j.owner = c
    <3>1. CASE Builds!Create(r, c)
      <4>1. PICK parts \in SUBSET Parts, public \in BOOLEAN :
              Builds!Begin(r, "insert", [owner |-> c, public |-> public, parts |-> parts, source |-> 0])
        BY <3>1 DEF Builds!Create
      <4> QED
        BY <4>1
    <3>2. ASSUME NEW b \in Builds!There, Builds!Clone(r, c, b)
          PROVE  \E j : Builds!Begin(r, "insert", j) /\ j.owner = c
      BY <3>2 DEF Builds!Clone
    <3> QED
      BY <1>1, <3>1, <3>2
  <2>3. Cardinality(Builds!OwnedBy(c)) < MaxBuilds
    BY <1>1, BuildsCounted DEF Builds!Create, Builds!Clone, Builds!Room, Builds!Cardinality
  <2>4. /\ Builds!There' = Builds!There /\ OwnersFit' /\ VisitsFit'
        /\ \A b : VisitorsOf(b)' = VisitorsOf(b)
        /\ \A d : Builds!OwnedBy(d)' = Builds!OwnedBy(d)
    BY <2>1, <1>f
  <2>5. BuildJobFits("insert", j)'
    BY <2>2, <2>3, <2>4 DEF BuildJobFits
  <2>6. Slots' /\ BuildJobs' /\ pc'[r] = "insert" /\ \A q \in Requests : q = r
    BY <2>2, <2>5, <1>a
  <2>7. pc[r] = "idle"
    BY <2>2 DEF Builds!Begin
  <2>8. BuildTable'
    BY <2>1, <2>4 DEF BuildTable
  <2>9. WholeBuilds'
    BY <2>1, <2>4, <2>6, <2>7 DEF WholeBuilds
  <2>10. ViewsCounted'
    BY <2>1, <2>4, <2>6, <2>7 DEF ViewsCounted
  <2> QED
    BY <2>4, <2>6, <2>8, <2>9, <2>10
<1>2. ASSUME NEW r \in Requests, Builds!InsertBuild(r) PROVE BuildsInv'
  <2>1. PICK b : b = nextBuild
    OBVIOUS
  <2>2. PICK row : row = [owner |-> job[r].owner, isPublic |-> job[r].public,
                          views |-> 0, clones |-> 0]
    OBVIOUS
  <2>3. PICK j : j = [build |-> b, parts |-> job[r].parts, source |-> job[r].source]
    OBVIOUS
  <2>4. /\ pc[r] = "insert" /\ nextBuild' = b + 1 /\ UNCHANGED <<counted, buildTorn>>
        /\ builds' = Builds!With(builds, b, row) /\ details' = Builds!With(details, b, {})
        /\ buildEntered' = Builds!With(buildEntered, b, job[r].parts)
        /\ Builds!Continue(r, "parts", j)
    BY <1>2, <2>1, <2>2, <2>3 DEF Builds!InsertBuild
  <2>5. j.build = b /\ j.parts = job[r].parts /\ "build" \in DOMAIN j
    BY <2>3
  <2>6. row.owner = job[r].owner /\ row.views = 0
        /\ row = [owner |-> row.owner, isPublic |-> row.isPublic, views |-> row.views,
                  clones |-> row.clones]
    BY <2>2
  <2>7. b \in Nat /\ b \notin Builds!There /\ b < nextBuild' /\ nextBuild' \in Nat /\ nextBuild' =
          nextBuild + 1
    BY <2>1, <2>4 DEF BuildTable
  <2>8. /\ Builds!There' = Builds!There \cup {b} /\ builds' = [k \in Builds!There' |-> builds'[k]]
        /\ builds'[b] = row /\ \A k \in Builds!There : builds'[k] = builds[k]
    BY <2>4, <2>7 DEF Builds!There, Builds!With
  <2>9. /\ DOMAIN details = Builds!There /\ DOMAIN buildEntered = Builds!There
    BY DEF BuildTable
  <2>10. /\ details' = [k \in Builds!There' |-> details'[k]]
         /\ buildEntered' = [k \in Builds!There' |-> buildEntered'[k]]
         /\ details'[b] = {} /\ buildEntered'[b] = job[r].parts
         /\ \A k \in Builds!There : details'[k] = details[k] /\ buildEntered'[k] = buildEntered[k]
    BY <2>4, <2>7, <2>8, <2>9 DEF Builds!With
  <2>11. BuildTable'
    <3>1. ASSUME NEW k \in Builds!There'
          PROVE  /\ k \in Nat /\ k < nextBuild'
                 /\ builds'[k] = [owner |-> builds'[k].owner, isPublic |-> builds'[k].isPublic,
                                  views |-> builds'[k].views, clones |-> builds'[k].clones]
      <4>1. CASE k = b
        BY <2>6, <2>7, <2>8, <4>1
      <4>2. CASE k \in Builds!There
        BY <2>7, <2>8, <4>2 DEF BuildTable
      <4> QED
        BY <2>8, <4>1, <4>2
    <3> QED
      BY <2>7, <2>8, <2>10, <3>1 DEF BuildTable
  <2>12. job[r].owner \in Customers /\ Cardinality(Builds!OwnedBy(job[r].owner)) < MaxBuilds
    BY <2>4 DEF BuildJobs, BuildJobFits
  <2>13. OwnersFit'
    <3> SUFFICES ASSUME NEW c \in Customers
                 PROVE  IsFiniteSet(Builds!OwnedBy(c)') /\ Cardinality(Builds!OwnedBy(c)') <=
                            MaxBuilds
      BY DEF OwnersFit
    <3>1. IsFiniteSet(Builds!OwnedBy(c)) /\ Cardinality(Builds!OwnedBy(c)) <= MaxBuilds
      BY DEF OwnersFit
    <3>2. CASE c = job[r].owner
      <4>1. Builds!OwnedBy(c)' = Builds!OwnedBy(c) \cup {b}
        BY <2>6, <2>8, <3>2 DEF Builds!OwnedBy
      <4>2. b \notin Builds!OwnedBy(c)
        BY <2>7 DEF Builds!OwnedBy
      <4>3. /\ IsFiniteSet(Builds!OwnedBy(c) \cup {b})
            /\ Cardinality(Builds!OwnedBy(c) \cup {b}) = Cardinality(Builds!OwnedBy(c)) + 1
        BY <3>1, <4>2, FS_AddElement
      <4>4. Cardinality(Builds!OwnedBy(c)) \in Nat /\ Cardinality(Builds!OwnedBy(c)) < MaxBuilds
        BY <2>12, <3>1, <3>2, FS_CardinalityType
      <4> QED
        BY <4>1, <4>3, <4>4
    <3>3. CASE c # job[r].owner
      <4>1. Builds!OwnedBy(c)' = Builds!OwnedBy(c)
        BY <2>6, <2>8, <3>3 DEF Builds!OwnedBy
      <4> QED
        BY <3>1, <4>1
    <3> QED
      BY <3>2, <3>3
  <2>14. VisitsFit' /\ \A k : VisitorsOf(k)' = VisitorsOf(k)
    BY <2>4, <2>7, <1>e
  <2>15. BuildJobFits("parts", j)'
    BY <2>5, <2>8, <2>10 DEF BuildJobFits
  <2>16. Slots' /\ BuildJobs' /\ pc'[r] = "parts" /\ job'[r] = j /\ \A q \in Requests : q = r
    BY <2>4, <2>15, <1>a
  <2>17. WholeBuilds'
    BY <2>4, <2>5, <2>8, <2>10, <2>16 DEF WholeBuilds
  <2>18. ViewsCounted'
    <3>1. VisitorsOf(b) = {}
      BY <2>1, <2>7 DEF VisitorsOf, VisitsFit
    <3> QED
      BY <2>4, <2>6, <2>8, <2>14, <2>16, <3>1, FS_EmptySet DEF ViewsCounted
  <2> QED
    BY <2>11, <2>13, <2>14, <2>16, <2>17, <2>18
<1>3. ASSUME NEW r \in Requests, Builds!InsertParts(r) PROVE BuildsInv'
  <2>1. PICK b : b = job[r].build
    OBVIOUS
  <2>2. PICK set : set = job[r].parts
    OBVIOUS
  <2>3. /\ pc[r] = "parts" /\ details' = [details EXCEPT ![b] = @ \cup set]
        /\ IF job[r].source = 0 THEN Builds!Finish(r) ELSE Builds!Continue(r, "clones", job[r])
        /\ UNCHANGED <<builds, nextBuild, counted, buildEntered, buildTorn>>
    BY <1>3, <2>1, <2>2 DEF Builds!InsertParts
  <2>4. b \in Builds!There /\ details[b] = {} /\ buildEntered[b] = set
    BY <2>1, <2>2, <2>3 DEF BuildJobs, BuildJobFits
  <2>5. /\ Builds!There' = Builds!There /\ OwnersFit' /\ VisitsFit'
        /\ \A k : VisitorsOf(k)' = VisitorsOf(k)
    BY <2>3, <1>f
  <2>6. details = [k \in Builds!There |-> details[k]]
    BY DEF BuildTable
  <2>7. /\ details' = [k \in Builds!There |-> details'[k]] /\ details'[b] = set
        /\ \A k \in Builds!There \ {b} : details'[k] = details[k]
    BY <2>3, <2>4, <2>6
  <2>8. Slots' /\ BuildJobs' /\ pc'[r] \in {"idle", "clones"} /\ \A q \in Requests : q = r
    <3>1. PICK j : j = job[r]
      OBVIOUS
    <3>2. BuildJobFits("clones", j)'
      BY DEF BuildJobFits
    <3> QED
      BY <2>3, <3>1, <3>2, <1>a, <1>b
  <2>9. BuildTable'
    BY <2>3, <2>5, <2>7 DEF BuildTable
  <2>10. WholeBuilds'
    BY <2>1, <2>3, <2>4, <2>5, <2>7, <2>8 DEF WholeBuilds
  <2>11. ViewsCounted'
    BY <2>3, <2>5, <2>8 DEF ViewsCounted
  <2> QED
    BY <2>5, <2>8, <2>9, <2>10, <2>11
<1>4. ASSUME NEW r \in Requests, NEW b \in Builds!There, Builds!Update(r, b) PROVE BuildsInv'
  <2>1. UNCHANGED <<builds, details, nextBuild, counted, buildEntered, buildTorn>>
    BY <1>4 DEF Builds!Update, Builds!buildVars
  <2>2. PICK public \in BOOLEAN :
          \/ \E parts \in SUBSET Parts :
               Builds!Begin(r, "clear", [build |-> b, row |-> [builds[b] EXCEPT !.isPublic =
                   public],
                                  replace |-> TRUE, parts |-> parts])
          \/ Builds!Begin(r, "save", [build |-> b, row |-> [builds[b] EXCEPT !.isPublic = public],
                               replace |-> FALSE])
    BY <1>4 DEF Builds!Update
  <2>3. PICK row : row = builds[b]
    OBVIOUS
  <2>4. row = [owner |-> row.owner, isPublic |-> row.isPublic, views |-> row.views,
               clones |-> row.clones]
    BY <2>3 DEF BuildTable
  <2>5. PICK x : x = [row EXCEPT !.isPublic = public]
    OBVIOUS
  <2>6. x = [owner |-> row.owner, isPublic |-> public, views |-> row.views, clones |-> row.clones]
    BY <2>4, <2>5
  <2>7. x = [owner |-> builds[b].owner, isPublic |-> x.isPublic, views |-> builds[b].views,
             clones |-> x.clones]
    BY <2>3, <2>6
  <2>8. /\ Builds!There' = Builds!There /\ OwnersFit' /\ VisitsFit'
        /\ \A k : VisitorsOf(k)' = VisitorsOf(k)
    BY <2>1, <1>f
  <2>9. BuildTable'
    BY <2>1, <2>8 DEF BuildTable
  <2>10. pc[r] = "idle" /\ \A q \in Requests : q = r
    BY <2>2 DEF Builds!Begin, OneAtATime
  <2>11. \A k \in Builds!There \ buildTorn : details[k] = buildEntered[k]
    BY <2>10 DEF WholeBuilds
  <2>12. ASSUME NEW l \in {"clear", "save"}, NEW j, Builds!Begin(r, l, j), j.build = b, j.row = x,
                "build" \in DOMAIN j, j.replace = (l = "clear")
         PROVE  BuildsInv'
    <3>1. BuildJobFits(l, j)'
      <4>1. CASE l = "clear"
        BY <2>1, <2>7, <2>8, <2>12, <4>1 DEF BuildJobFits
      <4>2. CASE l = "save"
        BY <2>1, <2>7, <2>8, <2>11, <2>12, <4>2 DEF BuildJobFits
      <4> QED
        BY <2>12, <4>1, <4>2
    <3>2. Slots' /\ BuildJobs' /\ pc'[r] = l /\ job'[r] = j
      BY <2>12, <3>1, <1>a
    <3>3. WholeBuilds'
      BY <2>1, <2>8, <2>10, <2>11, <3>2 DEF WholeBuilds
    <3>4. ViewsCounted'
      BY <2>1, <2>8, <2>10, <2>12, <3>2 DEF ViewsCounted
    <3> QED
      BY <2>8, <2>9, <3>2, <3>3, <3>4
  <2>13. ASSUME NEW parts \in SUBSET Parts,
                Builds!Begin(r, "clear", [build |-> b, row |-> x, replace |-> TRUE, parts |-> parts])
         PROVE  BuildsInv'
    <3>1. PICK j : j = [build |-> b, row |-> x, replace |-> TRUE, parts |-> parts]
      OBVIOUS
    <3>2. j.build = b /\ j.row = x /\ "build" \in DOMAIN j /\ j.replace = TRUE
      BY <3>1
    <3> QED
      BY <2>12, <2>13, <3>1, <3>2
  <2>14. ASSUME Builds!Begin(r, "save", [build |-> b, row |-> x, replace |-> FALSE])
         PROVE  BuildsInv'
    <3>1. PICK j : j = [build |-> b, row |-> x, replace |-> FALSE]
      OBVIOUS
    <3>2. j.build = b /\ j.row = x /\ "build" \in DOMAIN j /\ j.replace = FALSE
      BY <3>1
    <3> QED
      BY <2>12, <2>14, <3>1, <3>2
  <2> QED
    BY <2>2, <2>3, <2>5, <2>13, <2>14
<1>5. ASSUME NEW r \in Requests, Builds!ClearParts(r) PROVE BuildsInv'
  <2>1. PICK b : b = job[r].build
    OBVIOUS
  <2>2. PICK j : j = job[r]
    OBVIOUS
  <2>3. /\ pc[r] = "clear" /\ details' = [details EXCEPT ![b] = {}]
        /\ Builds!Continue(r, "save", j)
        /\ UNCHANGED <<builds, nextBuild, counted, buildEntered, buildTorn>>
    BY <1>5, <2>1, <2>2 DEF Builds!ClearParts, Builds!Replaced
  <2>4. BuildJobFits("clear", j) /\ j.build = b
    BY <2>1, <2>2, <2>3 DEF BuildJobs
  <2>5. b \in Builds!There
    BY <2>4 DEF BuildJobFits
  <2>6. /\ Builds!There' = Builds!There /\ OwnersFit' /\ VisitsFit'
        /\ \A k : VisitorsOf(k)' = VisitorsOf(k)
    BY <2>3, <1>f
  <2>7. details = [k \in Builds!There |-> details[k]]
    BY DEF BuildTable
  <2>8. /\ details' = [k \in Builds!There |-> details'[k]] /\ details'[b] = {}
        /\ \A k \in Builds!There \ {b} : details'[k] = details[k]
    BY <2>3, <2>5, <2>7
  <2>9. BuildJobFits("save", j)'
    BY <2>3, <2>4, <2>6, <2>8 DEF BuildJobFits
  <2>10. Slots' /\ BuildJobs' /\ pc'[r] = "save" /\ job'[r] = j /\ \A q \in Requests : q = r
    BY <2>3, <2>9, <1>a
  <2>11. BuildTable'
    BY <2>3, <2>6, <2>8 DEF BuildTable
  <2>12. WholeBuilds'
    BY <2>1, <2>2, <2>3, <2>6, <2>8, <2>10 DEF WholeBuilds
  <2>13. ViewsCounted'
    BY <2>3, <2>6, <2>10 DEF ViewsCounted
  <2> QED
    BY <2>6, <2>10, <2>11, <2>12, <2>13
<1>6. ASSUME NEW r \in Requests, Builds!SaveBuild(r) PROVE BuildsInv'
  <2>1. PICK b : b = job[r].build
    OBVIOUS
  <2>2. PICK row : row = job[r].row
    OBVIOUS
  <2>3. PICK j : j = [build |-> b, parts |-> job[r].parts, source |-> 0]
    OBVIOUS
  <2>4. /\ pc[r] = "save" /\ builds' = [builds EXCEPT ![b] = row]
        /\ UNCHANGED <<details, nextBuild, counted, buildTorn>>
        /\ IF job[r].replace
           THEN buildEntered' = [buildEntered EXCEPT ![b] =
               job[r].parts] /\ Builds!Continue(r, "parts", j)
           ELSE Builds!Finish(r) /\ UNCHANGED buildEntered
    BY <1>6, <2>1, <2>2, <2>3 DEF Builds!SaveBuild
  <2>5. j.build = b /\ j.parts = job[r].parts /\ "build" \in DOMAIN j
    BY <2>3
  <2>6. BuildJobFits("save", job[r])
    BY <2>4 DEF BuildJobs
  <2>7. /\ b \in Builds!There
        /\ row = [owner |-> builds[b].owner, isPublic |-> row.isPublic,
                  views |-> builds[b].views, clones |-> row.clones]
        /\ job[r].replace \in BOOLEAN
        /\ IF job[r].replace THEN details[b] = {} ELSE b \in buildTorn
               \/ details[b] = buildEntered[b]
    BY <2>1, <2>2, <2>6 DEF BuildJobFits
  <2>8. builds = [k \in Builds!There |-> builds[k]] /\ buildEntered = [k \in
          Builds!There |-> buildEntered[k]]
    BY DEF BuildTable
  <2>9. /\ Builds!There' = Builds!There /\ builds' = [k \in Builds!There |-> builds'[k]]
        /\ builds'[b] = row
        /\ \A k \in Builds!There \ {b} : builds'[k] = builds[k]
    BY <2>4, <2>7, <2>8 DEF Builds!There
  <2>10. row.owner = builds[b].owner /\ row.views = builds[b].views
         /\ row = [owner |-> row.owner, isPublic |-> row.isPublic, views |-> row.views,
                   clones |-> row.clones]
    BY <2>7
  <2>11. \A k \in Builds!There : builds'[k].owner = builds[k].owner /\ builds'[k].views =
           builds[k].views
    BY <2>9, <2>10
  <2>12. OwnersFit' /\ VisitsFit' /\ \A k : VisitorsOf(k)' = VisitorsOf(k)
    BY <2>4, <2>9, <2>11, <1>d, <1>e
  <2>13. buildEntered' = [k \in Builds!There |-> buildEntered'[k]] /\ \A k \in
           Builds!There \ {b} : buildEntered'[k] = buildEntered[k]
    BY <2>4, <2>7, <2>8
  <2>14. BuildTable'
    <3>1. ASSUME NEW k \in Builds!There
          PROVE  builds'[k] = [owner |-> builds'[k].owner, isPublic |-> builds'[k].isPublic,
                               views |-> builds'[k].views, clones |-> builds'[k].clones]
      <4>1. CASE k = b
        BY <2>9, <2>10, <4>1
      <4>2. CASE k # b
        BY <2>9, <4>2 DEF BuildTable
      <4> QED
        BY <4>1, <4>2
    <3> QED
      BY <2>4, <2>9, <2>13, <3>1 DEF BuildTable
  <2>15. CASE job[r].replace
    <3>1. buildEntered'[b] = job[r].parts
      BY <2>4, <2>7, <2>8, <2>15
    <3>2. BuildJobFits("parts", j)'
      BY <2>4, <2>5, <2>7, <2>9, <2>15, <3>1 DEF BuildJobFits
    <3>3. Slots' /\ BuildJobs' /\ pc'[r] = "parts" /\ job'[r] = j /\ \A q \in Requests : q = r
      BY <2>4, <2>15, <3>2, <1>a
    <3>4. WholeBuilds'
      BY <2>1, <2>4, <2>5, <2>9, <2>13, <3>3 DEF WholeBuilds
    <3>5. ViewsCounted'
      BY <2>4, <2>9, <2>11, <2>12, <3>3 DEF ViewsCounted
    <3> QED
      BY <2>12, <2>14, <3>3, <3>4, <3>5
  <2>16. CASE ~job[r].replace
    <3>1. Slots' /\ BuildJobs' /\ pc'[r] = "idle" /\ \A q \in Requests : q = r
      BY <2>4, <2>16, <1>b
    <3>2. WholeBuilds'
      BY <2>1, <2>4, <2>7, <2>9, <2>16, <3>1 DEF WholeBuilds
    <3>3. ViewsCounted'
      BY <2>4, <2>9, <2>11, <2>12, <3>1 DEF ViewsCounted
    <3> QED
      BY <2>12, <2>14, <3>1, <3>2, <3>3
  <2> QED
    BY <2>15, <2>16
<1>7. ASSUME NEW r \in Requests, NEW b \in Builds!There, Builds!Remove(r, b) PROVE BuildsInv'
  <2>1. /\ Builds!AtOnce(r) /\ UNCHANGED <<nextBuild, counted>> /\ buildTorn' = buildTorn \ {b}
        /\ builds' = [k \in Builds!There \ {b} |-> builds[k]]
        /\ details' = [k \in Builds!There \ {b} |-> details[k]]
        /\ buildEntered' = [k \in Builds!There \ {b} |-> buildEntered[k]]
    BY <1>7 DEF Builds!Remove
  <2>2. /\ Builds!There' = Builds!There \ {b}
        /\ \A k \in Builds!There' :
             /\ builds'[k] = builds[k] /\ details'[k] = details[k]
             /\ buildEntered'[k] = buildEntered[k]
    BY <2>1 DEF Builds!There
  <2>3. OwnersFit' /\ VisitsFit' /\ \A k : VisitorsOf(k)' = VisitorsOf(k)
    BY <2>1, <2>2, <1>d, <1>e
  <2>4. /\ Slots' /\ BuildJobs' /\ pc'[r] = "idle" /\ pc[r] = "idle" /\ \A q \in Requests : q = r
    BY <2>1, <1>c
  <2>5. BuildTable'
    BY <2>1, <2>2 DEF BuildTable
  <2>6. WholeBuilds'
    BY <2>1, <2>2, <2>4 DEF WholeBuilds
  <2>7. ViewsCounted'
    BY <2>1, <2>2, <2>3, <2>4 DEF ViewsCounted
  <2> QED
    BY <2>3, <2>4, <2>5, <2>6, <2>7
<1>8. ASSUME NEW r \in Requests, Builds!CountClone(r) \/ Builds!CountView(r) PROVE BuildsInv'
  <2>1. PICK b, x :
          /\ pc[r] \in {"clones", "view"}
          /\ UNCHANGED <<details, nextBuild, counted, buildEntered, buildTorn>>
          /\ builds' = IF b \in Builds!There THEN [builds EXCEPT ![b] = x] ELSE builds
          /\ b \in Builds!There => /\ x.owner = builds[b].owner
                            /\ x = [owner |-> x.owner, isPublic |-> x.isPublic, views |-> x.views,
                                    clones |-> x.clones]
          /\ \/ /\ pc[r] = "clones" /\ Builds!Finish(r) /\ (b \in Builds!There =>
                       x.views = builds[b].views)
             \/ /\ pc[r] = "view" /\ Builds!Continue(r, "remember", job[r]) /\ b = job[r].build
                /\ (b \in Builds!There => x.views = builds[b].views + 1)
    <3>1. CASE Builds!CountClone(r)
      <4>1. PICK b : b = job[r].source
        OBVIOUS
      <4>2. PICK row : row = builds[b]
        OBVIOUS
      <4>3. PICK x : x = [row EXCEPT !.clones = @ + 1]
        OBVIOUS
      <4>4. /\ pc[r] = "clones" /\ Builds!Finish(r)
            /\ UNCHANGED <<details, nextBuild, counted, buildEntered, buildTorn>>
            /\ builds' = IF b \in Builds!There THEN [builds EXCEPT ![b] = x] ELSE builds
        BY <3>1, <4>1, <4>2, <4>3 DEF Builds!CountClone, Builds!There
      <4>5. ASSUME b \in Builds!There
            PROVE  /\ x.owner = row.owner /\ x.views = row.views
                   /\ x = [owner |-> x.owner, isPublic |-> x.isPublic, views |-> x.views,
                           clones |-> x.clones]
        <5>1. row = [owner |-> row.owner, isPublic |-> row.isPublic, views |-> row.views,
                     clones |-> row.clones]
          BY <4>2, <4>5 DEF BuildTable
        <5>2. x = [owner |-> row.owner, isPublic |-> row.isPublic, views |-> row.views,
                   clones |-> row.clones + 1]
          BY <4>3, <5>1
        <5> QED
          BY <5>2
      <4>6. /\ pc[r] \in {"clones", "view"}
            /\ UNCHANGED <<details, nextBuild, counted, buildEntered, buildTorn>>
            /\ builds' = IF b \in Builds!There THEN [builds EXCEPT ![b] = x] ELSE builds
            /\ b \in Builds!There => /\ x.owner = builds[b].owner
                              /\ x = [owner |-> x.owner, isPublic |-> x.isPublic, views |-> x.views,
                                      clones |-> x.clones]
        BY <4>2, <4>4, <4>5
      <4>7. pc[r] = "clones" /\ Builds!Finish(r) /\ (b \in Builds!There =>
              x.views = builds[b].views)
        BY <4>1, <4>2, <4>4, <4>5
      <4> WITNESS b, x
      <4> QED
        BY <4>6, <4>7
    <3>2. CASE Builds!CountView(r)
      <4>1. PICK b : b = job[r].build
        OBVIOUS
      <4>2. PICK row : row = builds[b]
        OBVIOUS
      <4>3. PICK x : x = [row EXCEPT !.views = @ + 1]
        OBVIOUS
      <4>4. /\ pc[r] = "view" /\ Builds!Continue(r, "remember", job[r])
            /\ UNCHANGED <<details, nextBuild, counted, buildEntered, buildTorn>>
            /\ builds' = IF b \in Builds!There THEN [builds EXCEPT ![b] = x] ELSE builds
        BY <3>2, <4>1, <4>2, <4>3 DEF Builds!CountView, Builds!There
      <4>5. ASSUME b \in Builds!There
            PROVE  /\ x.owner = row.owner /\ x.views = row.views + 1
                   /\ x = [owner |-> x.owner, isPublic |-> x.isPublic, views |-> x.views,
                           clones |-> x.clones]
        <5>1. row = [owner |-> row.owner, isPublic |-> row.isPublic, views |-> row.views,
                     clones |-> row.clones]
          BY <4>2, <4>5 DEF BuildTable
        <5>2. x = [owner |-> row.owner, isPublic |-> row.isPublic, views |-> row.views + 1,
                   clones |-> row.clones]
          BY <4>3, <5>1
        <5> QED
          BY <5>2
      <4>6. /\ pc[r] \in {"clones", "view"}
            /\ UNCHANGED <<details, nextBuild, counted, buildEntered, buildTorn>>
            /\ builds' = IF b \in Builds!There THEN [builds EXCEPT ![b] = x] ELSE builds
            /\ b \in Builds!There => /\ x.owner = builds[b].owner
                              /\ x = [owner |-> x.owner, isPublic |-> x.isPublic, views |-> x.views,
                                      clones |-> x.clones]
        BY <4>2, <4>4, <4>5
      <4>7. /\ pc[r] = "view" /\ Builds!Continue(r, "remember", job[r]) /\ b = job[r].build
            /\ (b \in Builds!There => x.views = builds[b].views + 1)
        BY <4>1, <4>2, <4>4, <4>5
      <4> WITNESS b, x
      <4> QED
        BY <4>6, <4>7
    <3> QED
      BY <1>8, <3>1, <3>2
  <2>2. builds = [k \in Builds!There |-> builds[k]]
    BY DEF BuildTable
  <2>3. /\ Builds!There' = Builds!There /\ builds' = [k \in Builds!There |-> builds'[k]]
        /\ b \in Builds!There => builds'[b] = x
        /\ \A k \in Builds!There \ {b} : builds'[k] = builds[k]
    BY <2>1, <2>2 DEF Builds!There
  <2>4. \A k \in Builds!There : builds'[k].owner = builds[k].owner
    BY <2>1, <2>3
  <2>5. OwnersFit' /\ VisitsFit' /\ \A k : VisitorsOf(k)' = VisitorsOf(k)
    BY <2>1, <2>3, <2>4, <1>d, <1>e
  <2>6. BuildTable'
    <3>1. ASSUME NEW k \in Builds!There
          PROVE  builds'[k] = [owner |-> builds'[k].owner, isPublic |-> builds'[k].isPublic,
                               views |-> builds'[k].views, clones |-> builds'[k].clones]
      <4>1. CASE k = b
        BY <2>1, <2>3, <4>1
      <4>2. CASE k # b
        BY <2>3, <4>2 DEF BuildTable
      <4> QED
        BY <4>1, <4>2
    <3> QED
      BY <2>1, <2>3, <3>1 DEF BuildTable
  <2>7. CASE pc[r] = "clones"
    <3>1. Builds!Finish(r) /\ \A k \in Builds!There : builds'[k].views = builds[k].views
      BY <2>1, <2>3, <2>7
    <3>2. Slots' /\ BuildJobs' /\ pc'[r] = "idle" /\ \A q \in Requests : q = r
      BY <3>1, <1>b
    <3>3. WholeBuilds'
      BY <2>1, <2>3, <2>7, <3>2 DEF WholeBuilds
    <3>4. ViewsCounted'
      BY <2>1, <2>3, <2>5, <2>7, <3>1, <3>2 DEF ViewsCounted
    <3> QED
      BY <2>5, <2>6, <3>2, <3>3, <3>4
  <2>8. CASE pc[r] = "view"
    <3>1. PICK j : j = job[r]
      OBVIOUS
    <3>2. /\ Builds!Continue(r, "remember", j) /\ b = j.build
          /\ b \in Builds!There => x.views = builds[b].views + 1
      BY <2>1, <2>8, <3>1
    <3>3. b \in Builds!There /\ j.visitor \in Customers /\ <<j.visitor, j.build>> \notin counted
      BY <2>8, <3>1, <3>2 DEF BuildJobs, BuildJobFits
    <3>4. b \in buildTorn \/ builds[b].views = Cardinality(VisitorsOf(b))
      <4>1. \A q \in Requests : q = r
        BY DEF OneAtATime
      <4> QED
        BY <2>8, <3>3, <4>1 DEF ViewsCounted
    <3>5. BuildJobFits("remember", j)'
      <4>1. "build" \in DOMAIN j
        BY <2>8, <3>1 DEF BuildJobs, BuildJobFits
      <4>2. b \in buildTorn' \/ builds'[b].views = Cardinality(VisitorsOf(b)') + 1
        BY <2>1, <2>3, <2>5, <3>2, <3>3, <3>4
      <4>3. <<j.visitor, j.build>> \notin counted' /\ j.build \in Builds!There'
        BY <2>1, <2>3, <3>2, <3>3
      <4> QED
        BY <3>2, <3>3, <4>1, <4>2, <4>3 DEF BuildJobFits
    <3>6. Slots' /\ BuildJobs' /\ pc'[r] = "remember" /\ job'[r] = j /\ \A q \in Requests : q = r
      BY <3>2, <3>5, <1>a
    <3>7. WholeBuilds'
      BY <2>1, <2>3, <2>8, <3>6 DEF WholeBuilds
    <3>8. ViewsCounted'
      BY <2>1, <2>3, <2>5, <2>8, <3>2, <3>6 DEF ViewsCounted
    <3> QED
      BY <2>5, <2>6, <3>6, <3>7, <3>8
  <2> QED
    BY <2>1, <2>7, <2>8
<1>9. ASSUME NEW r \in Requests, NEW c \in Customers, NEW b \in Builds!There, Builds!View(r, c, b)
      PROVE  BuildsInv'
  <2>1. PICK j : j = [visitor |-> c, build |-> b]
    OBVIOUS
  <2>2. /\ Builds!Begin(r, "view", j) /\ <<c, b>> \notin counted
        /\ UNCHANGED <<builds, details, nextBuild, counted, buildEntered, buildTorn>>
    BY <1>9, <2>1 DEF Builds!View, Builds!NewVisit, Builds!buildVars
  <2>3. /\ Builds!There' = Builds!There /\ OwnersFit' /\ VisitsFit'
        /\ \A k : VisitorsOf(k)' = VisitorsOf(k)
    BY <2>2, <1>f
  <2>4. BuildJobFits("view", j)'
    BY <2>1, <2>2, <2>3 DEF BuildJobFits
  <2>5. Slots' /\ BuildJobs' /\ pc'[r] = "view" /\ \A q \in Requests : q = r
    BY <2>2, <2>4, <1>a
  <2>6. pc[r] = "idle"
    BY <2>2 DEF Builds!Begin
  <2>7. BuildTable'
    BY <2>2, <2>3 DEF BuildTable
  <2>8. WholeBuilds'
    BY <2>2, <2>3, <2>5, <2>6 DEF WholeBuilds
  <2>9. ViewsCounted'
    BY <2>2, <2>3, <2>5, <2>6 DEF ViewsCounted
  <2> QED
    BY <2>3, <2>5, <2>7, <2>8, <2>9
<1>10. ASSUME NEW r \in Requests, Builds!RememberView(r) PROVE BuildsInv'
  <2>1. PICK b : b = job[r].build
    OBVIOUS
  <2>2. PICK c : c = job[r].visitor
    OBVIOUS
  <2>3. /\ pc[r] = "remember" /\ counted' = counted \cup {<<c, b>>} /\ Builds!Finish(r)
        /\ UNCHANGED <<builds, details, nextBuild, buildEntered, buildTorn>>
    BY <1>10, <2>1, <2>2 DEF Builds!RememberView
  <2>4. /\ b \in Builds!There /\ c \in Customers /\ <<c, b>> \notin counted
        /\ b \in buildTorn \/ builds[b].views = Cardinality(VisitorsOf(b)) + 1
    BY <2>1, <2>2, <2>3 DEF BuildJobs, BuildJobFits
  <2>5. Builds!There' = Builds!There /\ \A d : Builds!OwnedBy(d)' = Builds!OwnedBy(d)
    BY <2>3 DEF Builds!There, Builds!OwnedBy
  <2>6. OwnersFit'
    BY <2>3, <2>5, <1>d
  <2>7. \A k : k # b => VisitorsOf(k)' = VisitorsOf(k)
    BY <2>3 DEF VisitorsOf
  <2>8. VisitorsOf(b)' = VisitorsOf(b) \cup {c} /\ c \notin VisitorsOf(b)
    BY <2>3, <2>4 DEF VisitorsOf
  <2>9. IsFiniteSet(VisitorsOf(b)') /\ Cardinality(VisitorsOf(b)') =
          Cardinality(VisitorsOf(b)) + 1
    <3>1. IsFiniteSet(VisitorsOf(b))
      BY DEF VisitsFit
    <3> QED
      BY <2>8, <3>1, FS_AddElement
  <2>10. VisitsFit'
    <3>1. \A d, k : <<d, k>> \in counted' => d \in Customers /\ k \in Nat /\ k < nextBuild'
      <4>1. b \in Nat /\ b < nextBuild /\ nextBuild' = nextBuild
        BY <2>3, <2>4 DEF BuildTable
      <4> QED
        BY <2>3, <2>4, <4>1 DEF VisitsFit
    <3>2. \A k : IsFiniteSet(VisitorsOf(k)')
      BY <2>7, <2>9 DEF VisitsFit
    <3> QED
      BY <3>1, <3>2 DEF VisitsFit
  <2>11. Slots' /\ BuildJobs' /\ pc'[r] = "idle" /\ \A q \in Requests : q = r
    BY <2>3, <1>b
  <2>12. BuildTable'
    BY <2>3, <2>5 DEF BuildTable
  <2>13. WholeBuilds'
    BY <2>3, <2>5, <2>11 DEF WholeBuilds
  <2>14. ViewsCounted'
    BY <2>1, <2>3, <2>4, <2>5, <2>7, <2>9, <2>11 DEF ViewsCounted
  <2> QED
    BY <2>6, <2>10, <2>11, <2>12, <2>13, <2>14
<1>11. ASSUME NEW r \in Requests, Builds!Abandon(r) PROVE BuildsInv'
  <2>1. /\ Builds!Finish(r) /\ UNCHANGED <<builds, details, nextBuild, counted, buildEntered>>
        /\ buildTorn' = IF "build" \in DOMAIN job[r] THEN buildTorn \cup
               {job[r].build} ELSE buildTorn
    BY <1>11 DEF Builds!Abandon, Builds!GiveUp
  <2>2. /\ Builds!There' = Builds!There /\ OwnersFit' /\ VisitsFit'
        /\ \A k : VisitorsOf(k)' = VisitorsOf(k)
    BY <2>1, <1>f
  <2>3. Slots' /\ BuildJobs' /\ pc'[r] = "idle" /\ \A q \in Requests : q = r
    BY <2>1, <1>b
  <2>4. pc[r] \in {"parts", "clear", "save", "remember"} => "build" \in DOMAIN job[r]
    BY DEF BuildJobs, BuildJobFits
  <2>5. BuildTable'
    BY <2>1, <2>2 DEF BuildTable
  <2>6. WholeBuilds'
    BY <2>1, <2>2, <2>3, <2>4 DEF WholeBuilds
  <2>7. ViewsCounted'
    BY <2>1, <2>2, <2>3, <2>4 DEF ViewsCounted
  <2> QED
    BY <2>2, <2>3, <2>5, <2>6, <2>7
<1>12. CASE UNCHANGED buildingVars
  <2>1. UNCHANGED <<pc, job, builds, details, nextBuild, counted, buildEntered, buildTorn>>
    BY <1>12 DEF buildingVars, Builds!buildVars, Builds!handling
  <2>2. /\ Builds!There' = Builds!There /\ OwnersFit' /\ VisitsFit'
        /\ \A k : VisitorsOf(k)' = VisitorsOf(k)
        /\ \A d : Builds!OwnedBy(d)' = Builds!OwnedBy(d)
    BY <2>1, <1>f
  <2>3. Slots' /\ BuildTable'
    BY <2>1, <2>2 DEF Slots, BuildTable
  <2>4. ASSUME NEW r \in Requests PROVE BuildJobFits(pc[r], job[r])'
    <3>1. BuildJobFits(pc[r], job[r])
      BY DEF BuildJobs
    <3> QED
      BY <2>1, <2>2, <3>1 DEF BuildJobFits
  <2>5. BuildJobs'
    BY <2>1, <2>4 DEF BuildJobs
  <2>6. WholeBuilds' /\ ViewsCounted'
    BY <2>1, <2>2 DEF WholeBuilds, ViewsCounted
  <2> QED
    BY <2>2, <2>3, <2>5, <2>6
<1> QED
  BY <1>1, <1>2, <1>3, <1>4, <1>5, <1>6, <1>7, <1>8, <1>9, <1>10, <1>11, <1>12 DEF Builds!Next

\* While handlers do not overlap, no customer has more builds than the limit, in whichever of
\* the two ways the builds came about: the count is still right when the build is inserted.
THEOREM BuildsKeepToLimit ==
  ASSUME OneAtATime, MaxBuilds \in Nat
  PROVE  BuildSpec => []Builds!BuildsWithinLimit
<1>1. BuildsInv => Builds!BuildsWithinLimit
  BY BuildsCounted DEF BuildsInv, OwnersFit, Builds!BuildsWithinLimit, Builds!Cardinality
<1> QED
  BY <1>1, BuildsStart, BuildsNext, PTL DEF BuildSpec

\* While handlers do not overlap, a build has the parts that were entered, and a clone those
\* of its source, unless a handler was cut short.
THEOREM BuildsAreWhole ==
  ASSUME OneAtATime, MaxBuilds \in Nat
  PROVE  BuildSpec => []Builds!BuildIsWhole
<1>1. BuildsInv => Builds!BuildIsWhole
  BY DEF BuildsInv, WholeBuilds, Builds!BuildIsWhole, Builds!Idle
<1> QED
  BY <1>1, BuildsStart, BuildsNext, PTL DEF BuildSpec

\* While handlers do not overlap, a visitor counts once for a build.
THEOREM VisitorsCountOnce ==
  ASSUME OneAtATime, MaxBuilds \in Nat
  PROVE  BuildSpec => []Builds!ViewedOnce
<1>1. BuildsInv => Builds!ViewedOnce
  <2> SUFFICES ASSUME BuildsInv, Builds!Idle, NEW b \in Builds!There \ buildTorn
               PROVE  builds[b].views = Builds!Cardinality({c \in Customers :
                          <<c, b>> \in counted})
    BY DEF Builds!ViewedOnce, Builds!Cardinality
  <2>1. builds[b].views = Cardinality(VisitorsOf(b))
    BY DEF BuildsInv, ViewsCounted, Builds!Idle
  <2> QED
    BY <2>1, BuildsCounted DEF VisitorsOf
<1> QED
  BY <1>1, BuildsStart, BuildsNext, PTL DEF BuildSpec

-----------------------------------------------------------------------------
(* The cart: lines that grow only as far as the stock *)

BasketStart == Basket!CartInit /\ Quiet

basketVars == <<Basket!cartVars, Basket!handling>>

BasketSpec == BasketStart /\ [][Basket!Next]_basketVars

\* The lines are records with quantities, and the stock is a number for each variant.
LineTable ==
  /\ stock = [v \in Variants |-> stock[v]] /\ lines = [v \in Variants |-> lines[v]]
  /\ \A v \in Variants : stock[v] \in Nat /\ lines[v].quantity \in Nat
  /\ \A v \in Variants :
       lines[v] = [id |-> lines[v].id, quantity |-> lines[v].quantity, price |-> lines[v].price]

\* A line that is to be saved has no more than the stock, which overlap would change.
LineJobs == \A r \in Requests : pc[r] = "save line" =>
  /\ job[r].variant \in Variants /\ job[r].line.quantity \in Nat
  /\ job[r].line =
       [id |-> job[r].line.id, quantity |-> job[r].line.quantity, price |-> job[r].line.price]
  /\ job[r].line.quantity <= stock[job[r].variant]

BasketInv == Slots /\ LineTable /\ LineJobs

LEMMA BasketInit ==
  ASSUME MaxQuantity \in Nat, BasketStart
  PROVE  BasketInv
<1>1. Slots /\ LineJobs
  BY DEF BasketStart, Quiet, Slots, LineJobs
<1>2. \A v \in Variants : lines[v] \in {Basket!NoLine, [id |-> 1, quantity |-> 2, price |-> 40]}
  BY DEF BasketStart, Basket!CartInit
<1>3. LineTable
  <2>1. /\ stock = [v \in Variants |-> MaxQuantity]
        /\ lines = [v \in Variants |-> lines[v]]
    BY DEF BasketStart, Basket!CartInit
  <2> QED
    BY <1>2, <2>1 DEF LineTable, Basket!NoLine
<1> QED
  BY <1>1, <1>3 DEF BasketInv

\* The line that a save writes has the quantity that was computed for it.
LEMMA SavedKeepsQuantity ==
  ASSUME NEW line, line = [id |-> line.id, quantity |-> line.quantity, price |-> line.price]
  PROVE  /\ Basket!Saved(line).quantity = line.quantity
         /\ Basket!Saved(line) = [id |-> Basket!Saved(line).id, quantity |-> line.quantity,
                                  price |-> line.price]
<1>1. [line EXCEPT !.id = nextLine] =
        [id |-> nextLine, quantity |-> line.quantity, price |-> line.price]
  OBVIOUS
<1> QED
  BY <1>1 DEF Basket!Saved

LEMMA BasketNext ==
  ASSUME OneAtATime, BasketInv, [Basket!Next]_basketVars
  PROVE  BasketInv' /\ Basket!GrowthIsCovered
<1> USE DEF BasketInv
<1>a. ASSUME NEW r \in Requests, Basket!AtOnce(r)
      PROVE  /\ UNCHANGED <<pc, job>> /\ Slots' /\ \A q \in Requests : pc[q] = "idle"
  BY <1>a DEF Basket!AtOnce, OneAtATime, Slots
<1>b. ASSUME NEW r \in Requests, Basket!Finish(r) PROVE Slots' /\ LineJobs'
  BY <1>b DEF Basket!Finish, Slots, LineJobs, OneAtATime
<1>c. ASSUME UNCHANGED lines PROVE Basket!GrowthIsCovered
  BY <1>c DEF LineTable, Basket!GrowthIsCovered
<1>1. ASSUME NEW r \in Requests, NEW v \in Variants, Basket!ChangeProduct(r, v)
      PROVE  BasketInv' /\ Basket!GrowthIsCovered
  <2>1. UNCHANGED lines /\ stock' \in {stock, [stock EXCEPT ![v] = 1]}
    BY <1>1 DEF Basket!ChangeProduct
  <2>2. stock' = [w \in Variants |-> stock'[w]] /\ \A w \in Variants : stock'[w] \in Nat
    BY <2>1 DEF LineTable
  <2>3. Slots' /\ LineJobs'
    BY <1>1, <1>a DEF Basket!ChangeProduct, LineJobs
  <2> QED
    BY <1>c, <2>1, <2>2, <2>3 DEF LineTable
<1>2. ASSUME NEW r \in Requests, NEW v \in Variants, Basket!RemoveItem(r, v)
      PROVE  BasketInv' /\ Basket!GrowthIsCovered
  <2>1. /\ lines' = [lines EXCEPT ![v] = Basket!NoLine] /\ UNCHANGED stock
        /\ Slots' /\ LineJobs'
    BY <1>2, <1>a DEF Basket!RemoveItem, Basket!shop, LineJobs
  <2>2. /\ lines'[v] = Basket!NoLine /\ lines' = [w \in Variants |-> lines'[w]]
        /\ \A w \in Variants \ {v} : lines'[w] = lines[w]
    BY <2>1 DEF LineTable
  <2> QED
    BY <2>1, <2>2 DEF LineTable, Basket!GrowthIsCovered, Basket!NoLine
<1>3. ASSUME NEW r \in Requests, NEW v \in Variants, NEW n \in 1..2, Basket!AddRead(r, v, n)
      PROVE  BasketInv' /\ Basket!GrowthIsCovered
  <2>1. PICK q \in Basket!Grown(v, n) :
          Basket!Begin(r, "save line", [variant |-> v, line |->
            [id |-> lines[v].id, quantity |-> q, price |-> price[v]]])
    BY <1>3 DEF Basket!AddRead
  <2>2. UNCHANGED <<lines, stock>> /\ q \in Nat /\ q <= stock[v]
    <3>1. UNCHANGED <<lines, stock>>
      BY <1>3 DEF Basket!AddRead, Basket!shop
    <3>2. q \in 0..stock[v] /\ stock[v] \in Nat
      BY <2>1 DEF Basket!Grown, LineTable
    <3> QED
      BY <3>1, <3>2
  <2>3. LineTable'
    BY <2>2 DEF LineTable
  <2>4. PICK line : line = [id |-> lines[v].id, quantity |-> q, price |-> price[v]]
    OBVIOUS
  <2>5. Slots' /\ \A s \in Requests : job'[s] = [variant |-> v, line |-> line]
    BY <2>4, <2>1 DEF Basket!Begin, Slots, OneAtATime
  <2>6. LineJobs'
    <3>1. /\ v \in Variants /\ line.quantity \in Nat /\ line.quantity <= stock'[v]
          /\ line = [id |-> line.id, quantity |-> line.quantity, price |-> line.price]
      BY <1>3, <2>2, <2>4
    <3>2. ASSUME NEW s \in Requests PROVE job'[s].variant = v /\ job'[s].line = line
      BY <2>5
    <3> QED
      BY <3>1, <3>2 DEF LineJobs
  <2> QED
    BY <1>c, <2>2, <2>3, <2>5, <2>6
<1>4. ASSUME NEW r \in Requests, NEW v \in Variants, NEW n \in 1..2, Basket!UpdateRead(r, v, n)
      PROVE  BasketInv' /\ Basket!GrowthIsCovered
  <2>1. /\ n <= stock[v] /\ UNCHANGED <<lines, stock>>
        /\ Basket!Begin(r, "save line", [variant |-> v, line |-> [lines[v] EXCEPT !.quantity = n]])
    BY <1>4 DEF Basket!UpdateRead, Basket!cartVars, Basket!shop
  <2>2. [lines[v] EXCEPT !.quantity = n] =
          [id |-> lines[v].id, quantity |-> n, price |-> lines[v].price]
    BY DEF LineTable
  <2>3. LineTable'
    BY <2>1 DEF LineTable
  <2>4. PICK line : line = [id |-> lines[v].id, quantity |-> n, price |-> lines[v].price]
    OBVIOUS
  <2>5. Slots' /\ \A s \in Requests : job'[s] = [variant |-> v, line |-> line]
    BY <2>4, <2>1, <2>2 DEF Basket!Begin, Slots, OneAtATime
  <2>6. LineJobs'
    <3>1. /\ v \in Variants /\ line.quantity \in Nat /\ line.quantity <= stock'[v]
          /\ line = [id |-> line.id, quantity |-> line.quantity, price |-> line.price]
      <4>1. n \in Nat /\ v \in Variants
        BY <1>4
      <4>2. n <= stock'[v]
        BY <2>1
      <4>3. line.quantity = n
        BY <2>4
      <4> QED
        BY <2>4, <4>1, <4>2, <4>3
    <3>2. ASSUME NEW s \in Requests PROVE job'[s].variant = v /\ job'[s].line = line
      BY <2>5
    <3> QED
      BY <3>1, <3>2 DEF LineJobs
  <2> QED
    BY <1>c, <2>1, <2>3, <2>5, <2>6
<1>5. ASSUME NEW r \in Requests, Basket!SaveLine(r)
      PROVE  BasketInv' /\ Basket!GrowthIsCovered
  <2>1. PICK v : v = job[r].variant
    OBVIOUS
  <2>2. PICK line : line = Basket!Saved(job[r].line)
    OBVIOUS
  <2>3. /\ pc[r] = "save line" /\ lines' \in {lines, [lines EXCEPT ![v] = line]}
        /\ UNCHANGED stock /\ Slots' /\ LineJobs'
    BY <1>5, <1>b, <2>1, <2>2 DEF Basket!SaveLine, Basket!shop
  <2>4. /\ v \in Variants /\ line.quantity \in Nat /\ line.quantity <= stock[v]
        /\ line = [id |-> line.id, quantity |-> line.quantity, price |-> line.price]
    <3>1. PICK given : given = job[r].line
      OBVIOUS
    <3>2. /\ given = [id |-> given.id, quantity |-> given.quantity, price |-> given.price]
          /\ v \in Variants /\ given.quantity \in Nat /\ given.quantity <= stock[v]
      BY <2>1, <2>3, <3>1 DEF LineJobs
    <3> QED
      BY <2>2, <3>1, <3>2, SavedKeepsQuantity
  <2>5. CASE lines' = lines
    <3>1. LineTable'
      BY <2>3, <2>5 DEF LineTable
    <3>2. Basket!GrowthIsCovered
      BY <1>c, <2>5
    <3> QED
      BY <2>3, <3>1, <3>2
  <2>6. CASE lines' = [lines EXCEPT ![v] = line]
    <3>1. /\ lines'[v] = line /\ lines' = [w \in Variants |-> lines'[w]]
          /\ \A w \in Variants \ {v} : lines'[w] = lines[w]
      BY <2>4, <2>6 DEF LineTable
    <3>2. LineTable'
      BY <2>3, <2>4, <3>1 DEF LineTable
    <3>3. Basket!GrowthIsCovered
      BY <2>4, <3>1 DEF LineTable, Basket!GrowthIsCovered
    <3> QED
      BY <2>3, <3>2, <3>3
  <2> QED
    BY <2>3, <2>5, <2>6
<1>6. ASSUME NEW r \in Requests, Basket!ClearCart(r)
      PROVE  BasketInv' /\ Basket!GrowthIsCovered
  <2>1. lines' = [v \in Variants |-> Basket!NoLine] /\ UNCHANGED stock /\ Slots' /\ LineJobs'
    BY <1>6, <1>a DEF Basket!ClearCart, Basket!shop, LineJobs
  <2> QED
    BY <2>1 DEF LineTable, Basket!GrowthIsCovered, Basket!NoLine
<1>7. ASSUME NEW r \in Requests, Basket!CouponEnds(r) \/ Basket!GetMyCart(r) \/ Basket!ClearCoupon(r)
      PROVE  BasketInv' /\ Basket!GrowthIsCovered
  <2>1. UNCHANGED <<lines, stock>> /\ Basket!AtOnce(r)
    BY <1>7 DEF Basket!CouponEnds, Basket!GetMyCart, Basket!ClearCoupon, Basket!shop
  <2> QED
    BY <1>a, <1>c, <2>1 DEF LineTable, LineJobs
<1>8. ASSUME NEW r \in Requests, Basket!SetCouponRead(r)
      PROVE  BasketInv' /\ Basket!GrowthIsCovered
  <2>1. UNCHANGED <<lines, stock>> /\ Basket!Begin(r, "set coupon", [code |-> TRUE])
    BY <1>8 DEF Basket!SetCouponRead, Basket!cartVars, Basket!shop
  <2>2. Slots' /\ \A s \in Requests : pc'[s] = "set coupon"
    BY <2>1 DEF Basket!Begin, Slots, OneAtATime
  <2> QED
    BY <1>c, <2>1, <2>2 DEF LineTable, LineJobs
<1>9. ASSUME NEW r \in Requests,
             Basket!SetCoupon(r) \/ (Basket!GiveUp(r) /\ UNCHANGED Basket!cartVars)
      PROVE  BasketInv' /\ Basket!GrowthIsCovered
  <2>1. UNCHANGED <<lines, stock>> /\ Basket!Finish(r)
    BY <1>9 DEF Basket!SetCoupon, Basket!GiveUp, Basket!cartVars, Basket!shop
  <2> QED
    BY <1>b, <1>c, <2>1 DEF LineTable
<1>10. CASE UNCHANGED basketVars
  <2>1. UNCHANGED <<lines, stock, pc, job>>
    BY <1>10 DEF basketVars, Basket!cartVars, Basket!shop, Basket!handling
  <2> QED
    BY <1>c, <2>1 DEF LineTable, LineJobs, Slots
<1>11. ASSUME NEW r \in Requests, NEW v \in Variants, NEW n \in 1..2,
              Basket!AddRead(r, v, n) \/ Basket!UpdateRead(r, v, n)
       PROVE  BasketInv' /\ Basket!GrowthIsCovered
  BY <1>3, <1>4, <1>11
<1> HIDE DEF BasketInv
<1> QED
  BY <1>1, <1>2, <1>5, <1>6, <1>7, <1>8, <1>9, <1>10, <1>11 DEF Basket!Next

\* While handlers do not overlap, a line of the cart grows only as far as the stock: the stock
\* that was read is still there when the line is saved, for any prices, offers and quantities.
THEOREM LinesGrowWithinStock ==
  ASSUME OneAtATime, MaxQuantity \in Nat
  PROVE  BasketSpec => [][Basket!GrowthIsCovered]_basketVars
<1>1. BasketInv /\ [Basket!Next]_basketVars => BasketInv' /\ Basket!GrowthIsCovered
  BY BasketNext
<1>2. BasketInv /\ [Basket!Next]_basketVars => [Basket!GrowthIsCovered]_basketVars
  BY <1>1
<1> QED
  BY <1>1, <1>2, BasketInit, PTL DEF BasketSpec
=============================================================================

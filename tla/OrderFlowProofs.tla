-------------------------- MODULE OrderFlowProofs --------------------------
(***************************************************************************)
(* Theorems about OrderFlow, for any number of requests, orders, variants  *)
(* and customers: first what holds however the handlers interleave, then   *)
(* what holds as long as they do not overlap: that an order keeps what the *)
(* abstract OrderPromise says, that nothing is sold twice, and that the    *)
(* shelf holds what the books say.                                         *)
(***************************************************************************)
EXTENDS OrderFlow, SumsProofs

\* save() yields a row: each of its columns comes from one of three rows.
LEMMA SavedType ==
  ASSUME NEW current \in Row, NEW seen \in Row, NEW new \in Row
  PROVE  /\ Saved(current, seen, new) \in Row
         /\ Saved(current, seen, new).status \in {current.status, new.status}
  BY DEF Saved, Column, Row

\* A finished request holds nothing.
LEMMA NoJobType == NoJob \in Job /\ NoRow \in Row /\ NoUnits \in Units
  BY DEF NoJob, Job, NoRow, Row, NoUnits, Units

\* The units of a checkout that take the flash price are counted in naturals.
LEMMA FlashUnitsType ==
  ASSUME NEW units \in Units
  PROVE  FlashUnits(units) \in Units
  BY DEF FlashUnits, Units

\* Answering a request keeps the types of pc and job.
LEMMA FinishType ==
  ASSUME RowsTypeOK, NEW r \in Requests, Finish(r)
  PROVE  /\ job' \in [Requests -> Job]
         /\ pc' = [pc EXCEPT ![r] = "idle"]
         /\ pc' \in [Requests -> {"idle", "checkout", "read", "begun", "slot", "shipping"}]
         /\ \A q \in Requests : pc'[q] # "idle" => pc'[q] = pc[q] /\ job'[q] = job[q]
  BY NoJobType DEF RowsTypeOK, Finish, Goto

\* Reading an order gives a request a job of the right type.
LEMMA ReadOrderType ==
  ASSUME RowsTypeOK, NEW r \in Requests, NEW o \in Orders,
         NEW t \in Status, ReadOrder(r, o, t)
  PROVE  /\ job' \in [Requests -> Job]
         /\ job'[r].order = o /\ job'[r].row = orders[o] /\ job'[r].target = t
         /\ \A q \in Requests \ {r} : job'[q] = job[q]
         /\ served' \in Nat /\ pc[r] = "idle"
         /\ UNCHANGED <<cart, orders, flashSold, usageCount, warehouse, snap>>
<1>1. orders[o] \in Row
  BY DEF RowsTypeOK
<1>2. [NoJob EXCEPT !.order = o, !.row = orders[o], !.target = t] \in Job
  BY <1>1, NoJobType DEF Job
<1>3. QED
  BY <1>2, NoJobType DEF ReadOrder, Start, RowsTypeOK, Job

\* The rows of the database and what the handlers hold keep their types.
LEMMA RowsTypeStep ==
  ASSUME RowsTypeOK, [Next]_vars
  PROVE  RowsTypeOK'
<1>1. CASE UNCHANGED vars
  BY <1>1 DEF vars, RowsTypeOK
<1>2. ASSUME NEW c \in Customers, NEW v \in Variants, AddItem(c, v)
      PROVE  RowsTypeOK'
  BY <1>2 DEF AddItem, RowsTypeOK, Units, warehouse
<1>3. ASSUME NEW r \in Requests, NEW c \in Customers, CheckoutRead(r, c)
      PROVE  RowsTypeOK'
  <2>1. PICK coupon \in BOOLEAN, cod \in BOOLEAN, offer \in GiftOffers \cup {NoUnits} :
          job' = [job EXCEPT ![r] =
            [NoJob EXCEPT !.row = [NoRow EXCEPT !.status = "ChoTT", !.lines = cart[c],
                                     !.gift = IF Covered(offer) THEN offer ELSE NoUnits,
                                     !.coupon = coupon],
                          !.flash = FlashUnits(cart[c]),
                          !.buyer = IF cod THEN {c} ELSE {}]]
    BY <1>3 DEF CheckoutRead
  <2> DEFINE row == [NoRow EXCEPT !.status = "ChoTT", !.lines = cart[c],
                       !.gift = IF Covered(offer) THEN offer ELSE NoUnits,
                       !.coupon = coupon]
             new == [NoJob EXCEPT !.row = row, !.flash = FlashUnits(cart[c]),
                                  !.buyer = IF cod THEN {c} ELSE {}]
  <2>2. cart[c] \in Units /\ offer \in Units
    BY NoJobType, ConstantsAssumption DEF RowsTypeOK
  <2>3. row \in Row
    BY <2>2, NoJobType DEF Row, Status
  <2>4. new \in Job
    <3> HIDE DEF row
    <3>1. FlashUnits(cart[c]) \in Units
      BY <2>2, FlashUnitsType
    <3>2. (IF cod THEN {c} ELSE {}) \in SUBSET Customers
      OBVIOUS
    <3>3. QED
      BY <2>3, <3>1, <3>2, NoJobType DEF Job
  <2>5. job' \in [Requests -> Job] /\ job' = [job EXCEPT ![r] = new]
    BY <2>1, <2>4 DEF RowsTypeOK
  <2>6. QED
    BY <1>3, <2>5 DEF CheckoutRead, Start, Goto, RowsTypeOK, warehouse
<1>4. ASSUME NEW r \in Requests, CheckoutClearCart(r)
      PROVE  RowsTypeOK'
  <2>1. [job[r] EXCEPT !.buyer = {}] \in Job
    BY DEF RowsTypeOK, Job
  <2>2. job' \in [Requests -> Job] /\ \A q \in Requests : job'[q].order = job[q].order
    BY <1>4, <2>1 DEF CheckoutClearCart, RowsTypeOK, Job
  <2>3. cart' \in [Customers -> Units]
    BY <1>4, NoJobType DEF CheckoutClearCart, RowsTypeOK
  <2>4. QED
    BY <1>4, <2>2, <2>3 DEF CheckoutClearCart, RowsTypeOK, warehouse
<1>5. ASSUME NEW r \in Requests, CheckoutCommit(r)
      PROVE  RowsTypeOK'
  <2>1. job[r] \in Job /\ job[r].row \in Row /\ job[r].flash \in Units
    BY DEF RowsTypeOK, Job
  <2>2. orders' \in [Orders -> Row]
    BY <1>5, <2>1 DEF CheckoutCommit, RowsTypeOK
  <2>3. flashSold' \in Units
    BY <1>5, <2>1 DEF CheckoutCommit, RowsTypeOK, Units
  <2>4. stock' \in [Variants -> Int]
    BY <1>5, <2>1 DEF CheckoutCommit, RowsTypeOK, Units, Row
  <2>5. Finish(r) /\ UNCHANGED <<cart, usageCount, picks, restores, served>>
    BY <1>5 DEF CheckoutCommit
  <2>6. QED
    BY <2>2, <2>3, <2>4, <2>5, FinishType DEF RowsTypeOK
<1>6. ASSUME NEW r \in Requests, NEW o \in Orders, CancelOrder(r, o)
      PROVE  RowsTypeOK'
  <2>1. ReadOrder(r, o, "DaHuy") /\ "DaHuy" \in Status
    BY <1>6 DEF CancelOrder, Status
  <2>2. QED
    BY <1>6, <2>1, ReadOrderType DEF CancelOrder, Goto, RowsTypeOK, warehouse
<1>7. ASSUME NEW r \in Requests, NEW o \in Orders, NEW t \in Status, UpdateStatus(r, o, t)
      PROVE  RowsTypeOK'
  <2>1. ReadOrder(r, o, t)
    BY <1>7 DEF UpdateStatus
  <2>2. QED
    BY <1>7, <2>1, ReadOrderType DEF UpdateStatus, Goto, RowsTypeOK, warehouse
<1>8. ASSUME NEW r \in Requests, NEW o \in Orders, UpdateShipping(r, o)
      PROVE  RowsTypeOK'
  <2>1. ReadOrder(r, o, orders[o].status) /\ orders[o].status \in Status
    BY <1>8 DEF UpdateShipping
  <2>2. QED
    BY <1>8, <2>1, ReadOrderType DEF UpdateShipping, Goto, RowsTypeOK, warehouse
<1>9. ASSUME NEW r \in Requests, BeginChange(r)
      PROVE  RowsTypeOK'
  <2>1. job[r] \in Job /\ job[r].order \in Orders
    BY <1>9 DEF BeginChange, RowsTypeOK
  <2>2. [job[r] EXCEPT !.seen = orders[job[r].order]] \in Job
    BY <2>1 DEF RowsTypeOK, Job
  <2>3. job' \in [Requests -> Job] /\ \A q \in Requests : job'[q].order = job[q].order
    BY <1>9, <2>2 DEF BeginChange, RowsTypeOK, Job
  <2>4. QED
    BY <1>9, <2>1, <2>3 DEF BeginChange, Goto, RowsTypeOK, warehouse
<1>10. ASSUME NEW r \in Requests, TakeCouponSlot(r)
       PROVE  RowsTypeOK'
  BY <1>10 DEF TakeCouponSlot, Goto, RowsTypeOK, warehouse
<1>11. ASSUME NEW r \in Requests, Finish(r),
              UNCHANGED <<cart, orders, flashSold, usageCount, warehouse, served>>
       PROVE  RowsTypeOK'
  BY <1>11, FinishType DEF RowsTypeOK, warehouse
<1>12. ASSUME NEW r \in Requests, CommitChange(r)
       PROVE  RowsTypeOK'
  <2> DEFINE o == job[r].order
             new == [job[r].row EXCEPT !.status = job[r].target]
  <2>1. job[r] \in Job /\ o \in Orders /\ orders[o] \in Row
    BY <1>12 DEF CommitChange, RowsTypeOK
  <2>2. new \in Row /\ job[r].seen \in Row
    BY <2>1 DEF Job, Row
  <2>3. orders' \in [Orders -> Row]
    BY <1>12, <2>1, <2>2, SavedType DEF CommitChange, RowsTypeOK
  <2>4. picks' \in [Orders -> Nat]
    BY <1>12 DEF CommitChange, Pack, RowsTypeOK
  <2>5. restores' \in [Orders -> Nat]
    BY <1>12 DEF CommitChange, Restore, RowsTypeOK
  <2>6. stock' \in [Variants -> Int]
    BY <1>12, <2>1 DEF CommitChange, Restore, RowsTypeOK, Row, Units
  <2>7. Finish(r) /\ UNCHANGED <<cart, flashSold, usageCount, served>>
    BY <1>12 DEF CommitChange
  <2>8. QED
    BY <2>3, <2>4, <2>5, <2>6, <2>7, FinishType DEF RowsTypeOK
<1>13. ASSUME NEW r \in Requests, SaveShipping(r)
       PROVE  RowsTypeOK'
  <2> DEFINE o == job[r].order
             new == [job[r].row EXCEPT !.tracked = TRUE]
  <2>1. job[r] \in Job /\ o \in Orders /\ orders[o] \in Row
    BY <1>13 DEF SaveShipping, RowsTypeOK
  <2>2. new \in Row
    BY <2>1 DEF Job, Row
  <2>3. orders' \in [Orders -> Row]
    BY <1>13, <2>1, <2>2, SavedType DEF SaveShipping, RowsTypeOK
  <2>4. QED
    BY <1>13, <2>3, FinishType DEF SaveShipping, RowsTypeOK, warehouse
<1>14. QED
  BY <1>1, <1>2, <1>3, <1>4, <1>5, <1>6, <1>7, <1>8, <1>9, <1>10, <1>11, <1>12, <1>13
  DEF Next, Serve, NoCouponSlot, LockWaitTimeout, Abort

\* The initial rows have their types.
LEMMA RowsTypedAtFirst ==
  ASSUME Init
  PROVE  RowsTypeOK
<1>1. stock \in [Variants -> Int]
  BY ConstantsAssumption, LotTotalType DEF Init
<1>2. QED
  BY <1>1, NoJobType DEF Init, RowsTypeOK

\* The database rows, and the copies of them that handlers hold between their
\* reads and their writes, always have the types of TypeOK (its part on rows).
THEOREM RowsTyped == Spec => []RowsTypeOK
<1>1. Init => RowsTypeOK
  BY RowsTypedAtFirst
<1>2. RowsTypeOK /\ [Next]_vars => RowsTypeOK'
  BY RowsTypeStep
<1>3. QED
  BY <1>1, <1>2, PTL DEF Spec

-----------------------------------------------------------------------------
(* The effects of a status come before the status                           *)

\* The statuses alone are not inductive: save() may write back a status from the
\* copy a handler holds, so the copies must be justified as well.
EffectsInv ==
  RowsTypeOK /\ ShippedWasPacked /\ CancelledWasRestored /\ HeldRowsWereReal

\* In terms of Justified, the two invariants are one.
LEMMA EffectsAreJustified ==
  (ShippedWasPacked /\ CancelledWasRestored) <=>
    (\A o \in Orders : Justified(o, orders[o].status))
  BY DEF ShippedWasPacked, CancelledWasRestored, Justified

\* The passes over lots and stock are only ever added, so what justified a status
\* still does after any step.
LEMMA JustifiedForGood ==
  ASSUME RowsTypeOK, [Next]_vars, NEW o \in Orders, NEW s, Justified(o, s)
  PROVE  Justified(o, s)'
<1>1. picks'[o] >= picks[o] /\ restores'[o] >= restores[o]
  <2>1. ASSUME NEW r \in Requests, CommitChange(r)
        PROVE  picks'[o] >= picks[o] /\ restores'[o] >= restores[o]
    <3>1. job[r].order \in Orders /\ picks \in [Orders -> Nat] /\ restores \in [Orders -> Nat]
      BY <2>1 DEF CommitChange, RowsTypeOK
    <3>2. picks'[o] >= picks[o]
      BY <2>1, <3>1 DEF CommitChange, Pack
    <3>3. restores'[o] >= restores[o]
      BY <2>1, <3>1 DEF CommitChange, Restore
    <3>4. QED
      BY <3>2, <3>3
  <2>2. ASSUME UNCHANGED <<picks, restores>>
        PROVE  picks'[o] >= picks[o] /\ restores'[o] >= restores[o]
    BY <2>2 DEF RowsTypeOK
  <2>3. CASE UNCHANGED vars
    BY <2>2, <2>3 DEF vars
  <2>4. CASE Next
    BY <2>1, <2>2, <2>4
    DEF Next, Serve, AddItem, CheckoutRead, CheckoutClearCart, CheckoutCommit, ReadOrder,
        CancelOrder, UpdateStatus, UpdateShipping, BeginChange, TakeCouponSlot, NoCouponSlot,
        SaveShipping, LockWaitTimeout, Abort, warehouse
  <2>5. QED
    BY <2>3, <2>4
<1>2. picks'[o] \in Nat /\ restores'[o] \in Nat
  BY RowsTypeStep DEF RowsTypeOK
<1>3. QED
  BY <1>1, <1>2 DEF Justified, RowsTypeOK

\* What each transition of the table adds is all that its target still needs.
LEMMA TransitionsJustify ==
  ASSUME RowsTypeOK, NEW o \in Orders, NEW s, NEW t,
         Justified(o, s), <<s, t>> \in Transitions,
         t = "DongGoi" => picks'[o] > 0, t = "DaHuy" => restores'[o] > 0,
         picks'[o] = picks[o] \/ picks'[o] > 0
  PROVE  Justified(o, t)'
  BY DEF Transitions, Justified, RowsTypeOK

\* A change of status is committed with its effects.
LEMMA CommitJustifies ==
  ASSUME RowsTypeOK, HeldRowsWereReal, NEW r \in Requests, CommitChange(r),
         NEW o, o = job[r].order, NEW t, t = job[r].target
  PROVE  o \in Orders /\ Justified(o, t)'
<1>1. o \in Orders /\ picks \in [Orders -> Nat] /\ restores \in [Orders -> Nat]
  BY DEF CommitChange, RowsTypeOK
<1>2. PICK s : /\ s = job[r].row.status
               /\ Justified(o, s) /\ <<s, t>> \in Transitions
  BY DEF CommitChange, HeldRowsWereReal
<1>3. t = "DongGoi" => picks'[o] > 0
  BY <1>1 DEF CommitChange, Pack
<1>4. t = "DaHuy" => restores'[o] > 0
  BY <1>1 DEF CommitChange, Restore
<1>5. picks'[o] = picks[o] \/ picks'[o] > 0
  BY <1>1 DEF CommitChange, Pack
<1>6. QED
  BY <1>1, <1>2, <1>3, <1>4, <1>5, TransitionsJustify

\* A step leaves the status of an order justified by what the handlers held.
LEMMA StatusesStayJustified ==
  ASSUME EffectsInv, [Next]_vars
  PROVE  (\A o \in Orders : Justified(o, orders[o].status))'
<1> USE DEF EffectsInv
<1> SUFFICES ASSUME NEW o \in Orders
             PROVE  Justified(o, orders[o].status)'
  OBVIOUS
<1>1. PICK s : s = orders[o].status /\ Justified(o, s)
  BY EffectsAreJustified
<1>2. PICK s2 : s2 = orders'[o].status
  OBVIOUS
<1>3. Justified(o, s)'
  BY <1>1, JustifiedForGood
<1>4. SUFFICES Justified(o, s2)'
  BY <1>2 DEF Justified
<1>5. ASSUME NEW r \in Requests, CheckoutCommit(r)
      PROVE  Justified(o, s2)'
  <2>1. s2 = s \/ s2 = "ChoTT"
    BY <1>1, <1>2, <1>5 DEF CheckoutCommit, HeldRowsWereReal, RowsTypeOK
  <2>2. QED
    BY <1>3, <2>1 DEF Justified
<1>6. ASSUME NEW r \in Requests, CommitChange(r)
      PROVE  Justified(o, s2)'
  <2>1. PICK t : t = job[r].target
    OBVIOUS
  <2>2. s2 = s \/ (o = job[r].order /\ s2 = t)
    <3>1. /\ job[r] \in Job /\ job[r].order \in Orders /\ job[r].seen \in Row
          /\ orders[job[r].order] \in Row
      BY <1>6 DEF CommitChange, RowsTypeOK, Job
    <3>2. [job[r].row EXCEPT !.status = job[r].target] \in Row
      BY <3>1 DEF Job, Row
    <3>3. QED
      BY <1>1, <1>2, <1>6, <2>1, <3>1, <3>2, SavedType DEF CommitChange, RowsTypeOK, Row
  <2>3. QED
    BY <1>3, <1>6, <2>1, <2>2, CommitJustifies
<1>7. ASSUME NEW r \in Requests, SaveShipping(r)
      PROVE  Justified(o, s2)'
  <2>1. PICK t : t = job[r].row.status
    OBVIOUS
  <2>2. s2 = s \/ (o = job[r].order /\ s2 = t)
    <3>1. /\ job[r] \in Job /\ job[r].order \in Orders
          /\ orders[job[r].order] \in Row
      BY <1>7 DEF SaveShipping, RowsTypeOK
    <3>2. [job[r].row EXCEPT !.tracked = TRUE] \in Row
      BY <3>1 DEF Job, Row
    <3>3. QED
      BY <1>1, <1>2, <1>7, <2>1, <3>1, <3>2, SavedType DEF SaveShipping, RowsTypeOK, Row
  <2>3. o = job[r].order => Justified(o, t)
    BY <1>7, <2>1 DEF SaveShipping, HeldRowsWereReal
  <2>4. o = job[r].order => Justified(o, t)'
    BY <2>3, JustifiedForGood
  <2>5. QED
    BY <1>3, <2>2, <2>4
<1>8. ASSUME UNCHANGED orders
      PROVE  Justified(o, s2)'
  BY <1>1, <1>2, <1>3, <1>8
<1>9. CASE UNCHANGED vars
  BY <1>8, <1>9 DEF vars
<1>10. CASE Next
  BY <1>5, <1>6, <1>7, <1>8, <1>10
  DEF Next, Serve, AddItem, CheckoutRead, CheckoutClearCart, ReadOrder, CancelOrder,
      UpdateStatus, UpdateShipping, BeginChange, TakeCouponSlot, NoCouponSlot,
      LockWaitTimeout, Abort, warehouse
<1>11. QED
  BY <1>9, <1>10

\* What a handler holds stays real while it runs, and is real when it starts.
LEMMA HeldRowsStayReal ==
  ASSUME EffectsInv, [Next]_vars
  PROVE  HeldRowsWereReal'
<1> USE DEF EffectsInv
<1> SUFFICES ASSUME NEW q \in Requests, NEW o, NEW s, NEW t,
                    o = job'[q].order, s = job'[q].row.status, t = job'[q].target
             PROVE  /\ pc'[q] = "checkout" => s = "ChoTT"
                    /\ pc'[q] \in {"read", "begun", "slot", "shipping"} => Justified(o, s)'
                    /\ pc'[q] \in {"read", "begun", "slot"} => <<s, t>> \in Transitions
  BY DEF HeldRowsWereReal, Justified
<1> DEFINE Real == /\ pc'[q] = "checkout" => s = "ChoTT"
                   /\ pc'[q] \in {"read", "begun", "slot", "shipping"} => Justified(o, s)'
                   /\ pc'[q] \in {"read", "begun", "slot"} => <<s, t>> \in Transitions
<1>1. ASSUME \/ pc'[q] = pc[q]
             \/ pc[q] = "read" /\ pc'[q] = "begun"
             \/ pc[q] = "begun" /\ pc'[q] = "slot",
             job'[q].row = job[q].row, job'[q].order = job[q].order,
             job'[q].target = job[q].target
      PROVE  Real
  <2>1. o = job[q].order /\ s = job[q].row.status /\ t = job[q].target
    BY <1>1
  <2>2. ASSUME pc'[q] \in {"read", "begun", "slot", "shipping"}
        PROVE  o \in Orders /\ Justified(o, s)
    BY <1>1, <2>1, <2>2 DEF HeldRowsWereReal, RowsTypeOK
  <2>3. QED
    BY <1>1, <2>1, <2>2, JustifiedForGood DEF HeldRowsWereReal
<1>2. ASSUME pc'[q] = pc[q], job'[q] = job[q]
      PROVE  Real
  BY <1>1, <1>2
<1>3. ASSUME NEW r \in Requests, Finish(r)
      PROVE  Real
  BY <1>2, <1>3, FinishType
<1>4. ASSUME NEW r \in Requests, NEW c \in Customers, CheckoutRead(r, c)
      PROVE  Real
  <2>1. CASE q = r
    <3>1. s = "ChoTT"
      BY <1>4, <2>1 DEF CheckoutRead, RowsTypeOK, NoJob, NoRow
    <3>2. QED
      BY <1>4, <2>1, <3>1 DEF CheckoutRead, Goto, RowsTypeOK
  <2>2. CASE q # r
    BY <1>2, <1>4, <2>2 DEF CheckoutRead, Goto, RowsTypeOK
  <2>3. QED
    BY <2>1, <2>2
<1>5. ASSUME NEW r \in Requests, CheckoutClearCart(r)
      PROVE  Real
  BY <1>1, <1>5 DEF CheckoutClearCart, RowsTypeOK, Job
<1>6. ASSUME NEW r \in Requests, NEW o2 \in Orders, NEW t2 \in Status, NEW l,
             ReadOrder(r, o2, t2), Goto(r, l), l \in {"read", "shipping"},
             l = "read" => <<orders[o2].status, t2>> \in Transitions
      PROVE  Real
  <2>1. CASE q = r
    <3>1. o = o2 /\ s = orders[o2].status /\ t = t2
      BY <1>6, <2>1, ReadOrderType
    <3>2. Justified(o, s)
      BY <3>1, EffectsAreJustified
    <3>3. Justified(o, s)'
      BY <3>1, <3>2, JustifiedForGood
    <3>4. pc'[q] = l
      BY <1>6, <2>1 DEF Goto, RowsTypeOK
    <3>5. QED
      BY <1>6, <3>1, <3>3, <3>4
  <2>2. CASE q # r
    BY <1>2, <1>6, <2>2, ReadOrderType DEF Goto, RowsTypeOK
  <2>3. QED
    BY <2>1, <2>2
<1>7. ASSUME NEW r \in Requests, NEW o2 \in Orders, CancelOrder(r, o2)
      PROVE  Real
  BY <1>6, <1>7 DEF CancelOrder, Transitions, Status
<1>8. ASSUME NEW r \in Requests, NEW o2 \in Orders, NEW t2 \in Status, UpdateStatus(r, o2, t2)
      PROVE  Real
  BY <1>6, <1>8 DEF UpdateStatus
<1>9. ASSUME NEW r \in Requests, NEW o2 \in Orders, UpdateShipping(r, o2)
      PROVE  Real
  BY <1>6, <1>9 DEF UpdateShipping
<1>10. ASSUME NEW r \in Requests, BeginChange(r)
       PROVE  Real
  BY <1>1, <1>10 DEF BeginChange, Goto, RowsTypeOK, Job
<1>11. ASSUME NEW r \in Requests, TakeCouponSlot(r)
       PROVE  Real
  BY <1>1, <1>11 DEF TakeCouponSlot, Goto, RowsTypeOK
<1>12. CASE UNCHANGED <<pc, job>>
  BY <1>2, <1>12
<1>13. CASE UNCHANGED vars
  BY <1>12, <1>13 DEF vars
<1>14. CASE Next
  BY <1>3, <1>4, <1>5, <1>7, <1>8, <1>9, <1>10, <1>11, <1>12, <1>14
  DEF Next, Serve, AddItem, CheckoutCommit, NoCouponSlot, CommitChange, SaveShipping,
      LockWaitTimeout, Abort
<1>15. QED
  BY <1>13, <1>14

\* The inductive invariant: it holds at first, and every step keeps it.
LEMMA EffectsInvariant == Spec => []EffectsInv
<1>1. Init => EffectsInv
  BY RowsTypedAtFirst DEF Init, EffectsInv, ShippedWasPacked, CancelledWasRestored,
     HeldRowsWereReal, NoRow
<1>2. EffectsInv /\ [Next]_vars => EffectsInv'
  <2> SUFFICES ASSUME EffectsInv, [Next]_vars PROVE EffectsInv'
    OBVIOUS
  <2>1. RowsTypeOK'
    BY RowsTypeStep DEF EffectsInv
  <2>2. (ShippedWasPacked /\ CancelledWasRestored)'
    BY StatusesStayJustified DEF ShippedWasPacked, CancelledWasRestored, Justified
  <2>3. HeldRowsWereReal'
    BY HeldRowsStayReal
  <2>4. QED
    BY <2>1, <2>2, <2>3 DEF EffectsInv
<1>3. QED
  BY <1>1, <1>2, PTL DEF Spec

\* No order is in the hands of the carrier, delivered or returned unless some
\* handler took its units from the lots, whatever stale rows are written back.
THEOREM ShippedOrdersWerePacked == Spec => []ShippedWasPacked
<1>1. EffectsInv => ShippedWasPacked
  BY DEF EffectsInv
<1>2. QED
  BY <1>1, EffectsInvariant, PTL

\* No order shows DaHuy unless its units were given back to the stock.
THEOREM CancelledOrdersWereRestored == Spec => []CancelledWasRestored
<1>1. EffectsInv => CancelledWasRestored
  BY DEF EffectsInv
<1>2. QED
  BY <1>1, EffectsInvariant, PTL

\* The copies handlers work on are old rows of the database, never invented ones.
THEOREM HeldRowsAreReal == Spec => []HeldRowsWereReal
<1>1. EffectsInv => HeldRowsWereReal
  BY DEF EffectsInv
<1>2. QED
  BY <1>1, EffectsInvariant, PTL
-----------------------------------------------------------------------------
(* The lots                                                                 *)

\* A change of status leaves the lots of every variant, whatever other handlers did
\* to them since its snapshot.
LEMMA PackType ==
  ASSUME TypeOK, NEW r \in Requests, CommitChange(r)
  PROVE  lots' \in Shelves /\ picked' \in Units
<1> DEFINE o == job[r].order
           need == [v \in Variants |-> orders[o].lines[v] + orders[o].gift[v]]
<1>1. o \in Orders /\ orders[o] \in Row
  BY DEF CommitChange, TypeOK, RowsTypeOK
<1>2. \A v \in Variants : need[v] \in Nat
  BY <1>1 DEF Row, Units
<1>3. \/ UNCHANGED <<lots, picked>>
      \/ /\ lots' = [v \in Variants |-> Deducted(lots[v], snap[r][v], need[v])]
         /\ picked' = [v \in Variants |-> picked[v] + LotTotal(Taken(snap[r][v], need[v]))]
  BY DEF CommitChange, Pack
<1> HIDE DEF need
<1>4. ASSUME NEW v \in Variants
      PROVE  /\ Deducted(lots[v], snap[r][v], need[v]) \in Seq(Nat)
             /\ Len(Deducted(lots[v], snap[r][v], need[v])) = Len(InitLots[v])
             /\ picked[v] + LotTotal(Taken(snap[r][v], need[v])) \in Nat
  <2>1. /\ lots[v] \in Seq(Nat) /\ Len(lots[v]) = Len(InitLots[v])
        /\ snap[r][v] \in Seq(Nat) /\ picked[v] \in Nat
    BY DEF TypeOK, LotsTypeOK, Shelves, Units
  <2>2. Taken(snap[r][v], need[v]) \in Seq(Nat)
    BY <1>2, <2>1, TakenType
  <2>3. LotTotal(Taken(snap[r][v], need[v])) \in Nat
    BY <2>2, LotTotalType
  <2>4. QED
    BY <1>2, <2>1, <2>3, DeductedType
<1>5. lots \in Shelves /\ picked \in Units
  BY DEF TypeOK, LotsTypeOK
<1>6. QED
  BY <1>3, <1>4, <1>5 DEF Shelves, Units

\* What each step does to the lots and the snapshots.
LEMMA LotsSteps ==
  ASSUME Next
  PROVE  /\ UNCHANGED <<lots, picked>> \/ \E r \in Requests : CommitChange(r)
         /\ \/ snap' = snap
            \/ \E r \in Requests : snap' = [snap EXCEPT ![r] = lots]
            \/ \E r \in Requests : snap' = [snap EXCEPT ![r] = InitLots]
BY DEF Next, Serve, AddItem, CheckoutRead, CheckoutClearCart, CheckoutCommit, ReadOrder,
       CancelOrder, UpdateStatus, UpdateShipping, BeginChange, TakeCouponSlot, NoCouponSlot,
       CommitChange, SaveShipping, LockWaitTimeout, Abort, Finish, warehouse

\* Every step of every handler keeps the types.
LEMMA TypeStep ==
  ASSUME TypeOK, [Next]_vars
  PROVE  TypeOK'
<1>1. RowsTypeOK'
  BY RowsTypeStep DEF TypeOK
<1>2. LotsTypeOK'
  <2>1. CASE UNCHANGED vars
    BY <2>1 DEF vars, TypeOK, LotsTypeOK
  <2>2. CASE Next
    <3>1. lots \in Shelves /\ InitLots \in Shelves /\ snap \in [Requests -> Shelves]
      BY ConstantsAssumption DEF Shelves, TypeOK, LotsTypeOK
    <3>2. lots' \in Shelves /\ picked' \in Units
      BY <2>2, LotsSteps, PackType DEF TypeOK, LotsTypeOK
    <3>3. snap' \in [Requests -> Shelves]
      BY <2>2, <3>1, LotsSteps
    <3>4. QED
      BY <3>2, <3>3 DEF LotsTypeOK
  <2>3. QED
    BY <2>1, <2>2
<1>3. QED
  BY <1>1, <1>2 DEF TypeOK

\* They hold in the beginning.
LEMMA TypeInit == Init => TypeOK
<1> SUFFICES ASSUME Init PROVE TypeOK
  OBVIOUS
<1>1. InitLots \in Shelves
  BY ConstantsAssumption DEF Shelves
<1>2. LotsTypeOK
  BY <1>1, NoJobType DEF Init, LotsTypeOK
<1>3. QED
  BY <1>2, RowsTypedAtFirst DEF TypeOK

\* Every variable keeps its type under any interleaving of handlers: a pick from a
\* stale snapshot may write a wrong quantity back, but never a negative one.
THEOREM OrderFlowTyped == Spec => []TypeOK
<1>1. TypeOK /\ [Next]_vars => TypeOK'
  BY TypeStep
<1>2. QED
  BY <1>1, TypeInit, PTL DEF Spec

-----------------------------------------------------------------------------
(* Handlers that do not overlap                                             *)

OneAtATime == \A r, q \in Requests : r = q

\* What a handler holds is what the database says, when no other handler runs.
HeldIsCurrent ==
  \A r \in Requests :
    /\ pc[r] \in {"read", "begun", "slot", "shipping"} => job[r].row = orders[job[r].order]
    /\ pc[r] = "begun" => job[r].seen = orders[job[r].order] /\ snap[r] = lots

\* The stock and the flash sale still cover the order of the checkout under way.
CheckoutCovered ==
  \A r \in Requests : pc[r] = "checkout" =>
    \A v \in Variants : /\ job[r].row.lines[v] <= stock[v]
                        /\ flashSold[v] + job[r].flash[v] <= FlashLimit[v]

\* What the handlers have done to the units of an order, by its status.
EffectsOnce ==
  \A o \in Orders :
    /\ picks[o] = IF orders[o].status \in {"DongGoi", "DangGiao", "DaGiao", "HoanTra"}
                  THEN 1 ELSE 0
    /\ restores[o] = IF orders[o].status = "DaHuy" THEN 1 ELSE 0

SerialInv ==
  /\ TypeOK /\ HeldRowsWereReal
  /\ HeldIsCurrent /\ CheckoutCovered
  /\ EffectsOnce /\ NeverOversold /\ PicksAreRecorded

\* No order holds a gift when no promotion offers one.
NoGift ==
  /\ \A o \in Orders : orders[o].gift = NoUnits
  /\ \A r \in Requests : job[r].row.gift = NoUnits

ShelfInv == SerialInv /\ NoGift /\ ShelfMatchesBooks

\* save() of an entity that is the current row writes exactly what the handler set.
LEMMA SavedCurrent ==
  ASSUME NEW row \in Row, NEW s \in Status
  PROVE  /\ Saved(row, row, [row EXCEPT !.status = s]) = [row EXCEPT !.status = s]
         /\ Saved(row, row, [row EXCEPT !.tracked = TRUE]) = [row EXCEPT !.tracked = TRUE]
  BY DEF Saved, Column, Row

\* A handler that nothing overlaps changes the status of an order along the table.
LEMMA SerialChange ==
  ASSUME SerialInv, NEW r \in Requests, CommitChange(r)
  PROVE  \E o \in Orders, t \in Status :
           /\ o = job[r].order /\ t = job[r].target
           /\ orders[o] \in Row /\ <<orders[o].status, t>> \in Transitions
           /\ snap[r] = lots
           /\ orders' = [orders EXCEPT ![o] = [orders[o] EXCEPT !.status = t]]
<1> DEFINE o == job[r].order
           t == job[r].target
<1>1. /\ o \in Orders /\ orders[o] \in Row /\ job[r].row = orders[o]
      /\ job[r].seen = orders[o] /\ snap[r] = lots
      /\ <<orders[o].status, t>> \in Transitions
  BY DEF CommitChange, SerialInv, TypeOK, RowsTypeOK, HeldIsCurrent, HeldRowsWereReal
<1>2. t \in Status
  BY <1>1 DEF Transitions, Status
<1>3. orders' = [orders EXCEPT ![o] = Saved(orders[o], orders[o],
                                           [orders[o] EXCEPT !.status = t])]
  BY <1>1 DEF CommitChange
<1>4. QED
  BY <1>1, <1>2, <1>3, SavedCurrent

\* Saving the shipping details changes the tracking of the current row alone.
LEMMA SerialShipping ==
  ASSUME SerialInv, NEW r \in Requests, SaveShipping(r)
  PROVE  \E o \in Orders :
           orders[o] \in Row /\ orders' = [orders EXCEPT ![o] = [orders[o] EXCEPT !.tracked = TRUE]]
<1> DEFINE o == job[r].order
<1>1. o \in Orders /\ orders[o] \in Row /\ job[r].row = orders[o]
  BY DEF SaveShipping, SerialInv, TypeOK, RowsTypeOK, HeldIsCurrent
<1>2. orders' = [orders EXCEPT ![o] = Saved(orders[o], orders[o],
                                           [orders[o] EXCEPT !.tracked = TRUE])]
  BY <1>1 DEF SaveShipping
<1>3. "ChoTT" \in Status
  BY DEF Status
<1>4. QED
  BY <1>1, <1>2, <1>3, SavedCurrent

\* Nothing is held once the only handler has been answered.
LEMMA FinishHolds ==
  ASSUME RowsTypeOK, OneAtATime, NEW r \in Requests, Finish(r)
  PROVE  HeldIsCurrent' /\ CheckoutCovered'
<1>1. \A q \in Requests : pc'[q] = "idle"
  BY FinishType DEF OneAtATime, RowsTypeOK
<1>2. QED
  BY <1>1 DEF HeldIsCurrent, CheckoutCovered

\* What a checkout has read covers its order.
LEMMA ReadCovers ==
  ASSUME SerialInv, OneAtATime, NEW r \in Requests, NEW c \in Customers, CheckoutRead(r, c)
  PROVE  HeldIsCurrent' /\ CheckoutCovered'
<1>1. \A q \in Requests : pc'[q] = "checkout"
  BY DEF CheckoutRead, Goto, OneAtATime, SerialInv, TypeOK, RowsTypeOK
<1>2. cart[c] \in Units /\ Covered(cart[c]) /\ UNCHANGED <<stock, flashSold>>
  BY DEF CheckoutRead, SerialInv, TypeOK, RowsTypeOK, warehouse
<1>3. PICK coupon \in BOOLEAN, cod \in BOOLEAN, offer \in GiftOffers \cup {NoUnits} :
        job' = [job EXCEPT ![r] =
          [NoJob EXCEPT !.row = [NoRow EXCEPT !.status = "ChoTT", !.lines = cart[c],
                                   !.gift = IF Covered(offer) THEN offer ELSE NoUnits,
                                   !.coupon = coupon],
                        !.flash = FlashUnits(cart[c]),
                        !.buyer = IF cod THEN {c} ELSE {}]]
  BY DEF CheckoutRead
<1>4. job'[r].row.lines = cart[c] /\ job'[r].flash = FlashUnits(cart[c])
  BY <1>3 DEF SerialInv, TypeOK, RowsTypeOK, NoJob, NoRow
<1>5. ASSUME NEW v \in Variants
      PROVE  cart[c][v] <= stock[v] /\ flashSold[v] + FlashUnits(cart[c])[v] <= FlashLimit[v]
  <2>1. /\ cart[c][v] \in Nat /\ stock[v] \in Int /\ flashSold[v] \in Nat
        /\ FlashLimit[v] \in Nat /\ stock[v] >= 0 /\ flashSold[v] <= FlashLimit[v]
    BY <1>2, ConstantsAssumption DEF SerialInv, NeverOversold, TypeOK, RowsTypeOK, Units
  <2>2. cart[c][v] <= stock[v]
    BY <1>2, <2>1 DEF Covered
  <2>3. flashSold[v] + FlashUnits(cart[c])[v] <= FlashLimit[v]
    BY <2>1 DEF FlashUnits
  <2>4. QED
    BY <2>2, <2>3
<1>6. CheckoutCovered'
  BY <1>2, <1>4, <1>5 DEF OneAtATime, CheckoutCovered
<1>7. QED
  BY <1>1, <1>6 DEF HeldIsCurrent

\* Every step leaves what the handler holds current.
LEMMA SerialHolds ==
  ASSUME SerialInv, OneAtATime, [Next]_vars
  PROVE  HeldIsCurrent' /\ CheckoutCovered'
<1> USE DEF SerialInv, TypeOK
<1>1. ASSUME UNCHANGED <<orders, flashSold, warehouse>>,
             \A r \in Requests : pc[r] = "checkout" /\ pc'[r] = "checkout"
                                 /\ job'[r].row = job[r].row /\ job'[r].flash = job[r].flash
      PROVE  HeldIsCurrent' /\ CheckoutCovered'
  BY <1>1 DEF HeldIsCurrent, CheckoutCovered, warehouse
<1>2. ASSUME UNCHANGED <<orders, flashSold, warehouse, pc, job, snap>>
      PROVE  HeldIsCurrent' /\ CheckoutCovered'
  BY <1>2 DEF HeldIsCurrent, CheckoutCovered, warehouse
<1>3. ASSUME NEW r \in Requests, CheckoutClearCart(r)
      PROVE  HeldIsCurrent' /\ CheckoutCovered'
  <2>1. job'[r].row = job[r].row /\ job'[r].flash = job[r].flash
    BY <1>3 DEF CheckoutClearCart, RowsTypeOK, Job
  <2>2. QED
    BY <1>1, <1>3, <2>1 DEF CheckoutClearCart, OneAtATime
<1>4. ASSUME NEW r \in Requests, NEW o \in Orders, NEW t \in Status, ReadOrder(r, o, t),
             NEW l \in {"read", "shipping"}, Goto(r, l)
      PROVE  HeldIsCurrent' /\ CheckoutCovered'
  <2>1. /\ job'[r].row = orders[o] /\ job'[r].order = o /\ orders' = orders /\ pc'[r] = l
    BY <1>4, ReadOrderType DEF Goto, RowsTypeOK
  <2>2. QED
    BY <2>1 DEF OneAtATime, HeldIsCurrent, CheckoutCovered
<1>5. ASSUME NEW r \in Requests, NEW o \in Orders,
             \/ CancelOrder(r, o) \/ UpdateShipping(r, o)
             \/ \E t \in Status : UpdateStatus(r, o, t)
      PROVE  HeldIsCurrent' /\ CheckoutCovered'
  <2>1. "DaHuy" \in Status
    BY DEF Status
  <2>2. QED
    BY <1>4, <1>5, <2>1 DEF CancelOrder, UpdateShipping, UpdateStatus
<1>6. ASSUME NEW r \in Requests, BeginChange(r)
      PROVE  HeldIsCurrent' /\ CheckoutCovered'
  <2>1. /\ pc[r] = "read" /\ pc'[r] = "begun" /\ orders' = orders /\ lots' = lots
        /\ snap'[r] = lots /\ job' = [job EXCEPT ![r].seen = orders[job[r].order]]
    BY <1>6 DEF BeginChange, Goto, RowsTypeOK, LotsTypeOK, warehouse
  <2>2. job'[r].seen = orders[job[r].order] /\ job'[r].row = job[r].row
        /\ job'[r].order = job[r].order
    BY <2>1 DEF RowsTypeOK, Job
  <2>3. QED
    BY <2>1, <2>2 DEF OneAtATime, HeldIsCurrent, CheckoutCovered
<1>7. ASSUME NEW r \in Requests, TakeCouponSlot(r)
      PROVE  HeldIsCurrent' /\ CheckoutCovered'
  <2>1. pc[r] = "begun" /\ pc'[r] = "slot" /\ orders' = orders /\ job' = job
    BY <1>7 DEF TakeCouponSlot, Goto, RowsTypeOK
  <2>2. QED
    BY <2>1 DEF OneAtATime, HeldIsCurrent, CheckoutCovered
<1>8. ASSUME NEW r \in Requests, Finish(r)
      PROVE  HeldIsCurrent' /\ CheckoutCovered'
  BY <1>8, FinishHolds
<1>9. CASE UNCHANGED vars
  BY <1>2, <1>9 DEF vars, warehouse
<1>10. CASE Next
  BY <1>2, <1>3, <1>5, <1>6, <1>7, <1>8, <1>10, ReadCovers
  DEF Next, Serve, AddItem, CheckoutCommit, NoCouponSlot, CommitChange, SaveShipping,
      LockWaitTimeout, Abort
<1>11. QED
  BY <1>9, <1>10

\* Three handlers write the orders, the stock and the lots.
LEMMA WritingSteps ==
  ASSUME [Next]_vars
  PROVE  \/ UNCHANGED <<orders, flashSold, warehouse>>
         \/ \E r \in Requests : CheckoutCommit(r) \/ CommitChange(r) \/ SaveShipping(r)
<1>1. CASE UNCHANGED vars
  BY <1>1 DEF vars, warehouse
<1>2. CASE Next
  <2>1. ASSUME NEW c \in Customers, NEW v \in Variants, AddItem(c, v)
        PROVE  UNCHANGED <<orders, flashSold, warehouse>>
    BY <2>1 DEF AddItem
  <2>2. ASSUME NEW r \in Requests,
               \/ \E c \in Customers : CheckoutRead(r, c)
               \/ \E o \in Orders : \/ CancelOrder(r, o) \/ UpdateShipping(r, o)
                                    \/ \E t \in Status : UpdateStatus(r, o, t)
        PROVE  UNCHANGED <<orders, flashSold, warehouse>>
    BY <2>2 DEF CheckoutRead, ReadOrder, CancelOrder, UpdateStatus, UpdateShipping
  <2>3. ASSUME NEW r \in Requests,
               \/ CheckoutClearCart(r) \/ BeginChange(r) \/ TakeCouponSlot(r)
               \/ NoCouponSlot(r) \/ LockWaitTimeout(r) \/ Abort(r)
        PROVE  UNCHANGED <<orders, flashSold, warehouse>>
    BY <2>3 DEF CheckoutClearCart, BeginChange, TakeCouponSlot, NoCouponSlot,
                LockWaitTimeout, Abort
  <2>4. QED
    BY <1>2, <2>1, <2>2, <2>3 DEF Next, Serve
<1>3. QED
  BY <1>1, <1>2

BooksKept == EffectsOnce /\ NeverOversold /\ PicksAreRecorded

\* A checkout reserves what it has found for sale.
LEMMA PlaceKeeps ==
  ASSUME SerialInv, NEW r \in Requests, CheckoutCommit(r)
  PROVE  BooksKept'
<1> USE DEF SerialInv, TypeOK
<1>1. PICK o \in Orders : orders[o] = NoRow /\ orders' = [orders EXCEPT ![o] = job[r].row]
  BY DEF CheckoutCommit
<1>2. job[r].row.status = "ChoTT" /\ job[r].row \in Row /\ job[r].flash \in Units
  BY DEF CheckoutCommit, HeldRowsWereReal, RowsTypeOK, Job
<1>3. /\ flashSold' = [v \in Variants |-> flashSold[v] + job[r].flash[v]]
      /\ stock' = [v \in Variants |-> stock[v] - job[r].row.lines[v]]
      /\ UNCHANGED <<lots, picked, picks, restores>> /\ pc[r] = "checkout"
  BY DEF CheckoutCommit
<1>4. EffectsOnce'
  <2>1. orders'[o].status = "ChoTT" /\ orders[o].status = "Absent"
        /\ \A x \in Orders \ {o} : orders'[x] = orders[x]
    BY <1>1, <1>2 DEF RowsTypeOK, NoRow
  <2>2. QED
    BY <1>3, <2>1 DEF EffectsOnce
<1>5. NeverOversold'
  <2> SUFFICES ASSUME NEW v \in Variants
               PROVE  stock'[v] >= 0 /\ flashSold'[v] <= FlashLimit[v]
    BY DEF NeverOversold
  <2>1. /\ stock[v] \in Int /\ job[r].row.lines[v] \in Nat
        /\ job[r].row.lines[v] <= stock[v]
        /\ flashSold[v] + job[r].flash[v] <= FlashLimit[v]
    BY <1>2, <1>3 DEF CheckoutCovered, RowsTypeOK, Row, Units
  <2>2. QED
    BY <1>3, <2>1
<1>6. PicksAreRecorded'
  BY <1>3 DEF PicksAreRecorded
<1>7. QED
  BY <1>4, <1>5, <1>6 DEF BooksKept

\* A change of status has its effect once, and records what it picks.
LEMMA ChangeKeeps ==
  ASSUME SerialInv, NEW r \in Requests, CommitChange(r)
  PROVE  BooksKept'
<1> USE DEF SerialInv, TypeOK
<1>1. PICK o \in Orders, t \in Status :
        /\ o = job[r].order /\ t = job[r].target
        /\ orders[o] \in Row /\ <<orders[o].status, t>> \in Transitions
        /\ snap[r] = lots
        /\ orders' = [orders EXCEPT ![o] = [orders[o] EXCEPT !.status = t]]
  BY SerialChange
<1>2. orders'[o].status = t /\ \A x \in Orders \ {o} : orders'[x] = orders[x]
  BY <1>1 DEF RowsTypeOK, Row
<1>3. EffectsOnce'
  <2> SUFFICES ASSUME NEW x \in Orders
               PROVE  /\ picks'[x] = IF orders'[x].status \in
                                          {"DongGoi", "DangGiao", "DaGiao", "HoanTra"}
                                     THEN 1 ELSE 0
                      /\ restores'[x] = IF orders'[x].status = "DaHuy" THEN 1 ELSE 0
    BY DEF EffectsOnce
  <2>1. /\ picks' = IF t = "DongGoi" THEN [picks EXCEPT ![o] = @ + 1] ELSE picks
        /\ restores' = IF t = "DaHuy" THEN [restores EXCEPT ![o] = @ + 1] ELSE restores
    BY <1>1 DEF CommitChange, Pack, Restore
  <2>2. CASE x # o
    BY <1>2, <2>1, <2>2 DEF EffectsOnce
  <2>3. CASE x = o
    <3>1. picks'[o] = IF t = "DongGoi" THEN picks[o] + 1 ELSE picks[o]
      BY <2>1 DEF RowsTypeOK
    <3>2. restores'[o] = IF t = "DaHuy" THEN restores[o] + 1 ELSE restores[o]
      BY <2>1 DEF RowsTypeOK
    <3>3. QED
      BY <1>1, <1>2, <2>3, <3>1, <3>2 DEF EffectsOnce, Transitions
  <2>4. QED
    BY <2>2, <2>3
<1>4. NeverOversold'
  <2> SUFFICES ASSUME NEW v \in Variants
               PROVE  stock'[v] >= 0 /\ flashSold'[v] <= FlashLimit[v]
    BY DEF NeverOversold
  <2>1. /\ stock[v] \in Int /\ stock[v] >= 0 /\ orders[o].lines[v] \in Nat
        /\ orders[o].gift[v] \in Nat /\ flashSold[v] <= FlashLimit[v]
    BY <1>1 DEF NeverOversold, RowsTypeOK, Row, Units
  <2>2. stock'[v] = stock[v] \/ stock'[v] = stock[v] + orders[o].lines[v] + orders[o].gift[v]
    BY <1>1 DEF CommitChange, Restore
  <2>3. QED
    BY <2>1, <2>2 DEF CommitChange
<1>5. PicksAreRecorded'
  <2> SUFFICES ASSUME NEW v \in Variants
               PROVE  LotTotal(lots'[v]) + picked'[v] = LotTotal(InitLots[v])
    BY DEF PicksAreRecorded
  <2> DEFINE need == orders[o].lines[v] + orders[o].gift[v]
             ls == lots[v]
  <2>1. need \in Nat /\ ls \in Seq(Nat) /\ picked[v] \in Nat
        /\ LotTotal(ls) + picked[v] = LotTotal(InitLots[v])
    BY <1>1 DEF RowsTypeOK, LotsTypeOK, Shelves, Row, Units, PicksAreRecorded
  <2>2. \/ lots'[v] = ls /\ picked'[v] = picked[v]
        \/ /\ lots'[v] = Deducted(ls, ls, need)
           /\ picked'[v] = picked[v] + LotTotal(Taken(ls, need))
    BY <1>1 DEF CommitChange, Pack
  <2> HIDE DEF need, ls
  <2>3. /\ LotTotal(Deducted(ls, ls, need)) = LotTotal(ls) - LotTotal(Taken(ls, need))
        /\ Taken(ls, need) \in Seq(Nat)
    BY <2>1, DeductedTotal, TakenType
  <2>4. LotTotal(ls) \in Nat /\ LotTotal(Taken(ls, need)) \in Nat
    BY <2>1, <2>3, LotTotalType
  <2>5. QED
    BY <2>1, <2>2, <2>3, <2>4
<1>6. QED
  BY <1>3, <1>4, <1>5 DEF BooksKept

\* The shipping details touch neither the stock nor a status.
LEMMA ShippingKeeps ==
  ASSUME SerialInv, NEW r \in Requests, SaveShipping(r)
  PROVE  BooksKept'
<1> USE DEF SerialInv, TypeOK
<1>1. PICK o \in Orders :
        orders[o] \in Row /\ orders' = [orders EXCEPT ![o] = [orders[o] EXCEPT !.tracked = TRUE]]
  BY SerialShipping
<1>2. \A x \in Orders : orders'[x].status = orders[x].status
  BY <1>1 DEF RowsTypeOK, Row
<1>3. UNCHANGED <<flashSold, stock, lots, picked, picks, restores>>
  BY DEF SaveShipping, warehouse
<1>4. QED
  BY <1>2, <1>3 DEF BooksKept, EffectsOnce, NeverOversold, PicksAreRecorded

\* The serial invariant is inductive.
LEMMA SerialStep ==
  ASSUME SerialInv, OneAtATime, [Next]_vars
  PROVE  SerialInv'
<1>1. TypeOK'
  BY TypeStep DEF SerialInv
<1>2. HeldRowsWereReal'
  <2>1. EffectsInv
    BY DEF SerialInv, TypeOK, EffectsInv, EffectsOnce, ShippedWasPacked, CancelledWasRestored
  <2>2. QED
    BY <2>1, HeldRowsStayReal
<1>3. HeldIsCurrent' /\ CheckoutCovered'
  BY SerialHolds
<1>4. BooksKept'
  <2>1. CASE UNCHANGED <<orders, flashSold, warehouse>>
    BY <2>1 DEF warehouse, SerialInv, BooksKept, EffectsOnce, NeverOversold, PicksAreRecorded
  <2>2. QED
    BY <2>1, WritingSteps, PlaceKeeps, ChangeKeeps, ShippingKeeps
<1>5. QED
  BY <1>1, <1>2, <1>3, <1>4 DEF SerialInv, BooksKept

\* What handlers rely on holds in the beginning.
LEMMA SerialInit == Init => SerialInv
<1> SUFFICES ASSUME Init PROVE SerialInv
  OBVIOUS
<1>1. TypeOK
  BY TypeInit
<1>2. ASSUME NEW v \in Variants
      PROVE  /\ LotTotal(InitLots[v]) \in Nat /\ stock[v] = LotTotal(InitLots[v])
             /\ lots[v] = InitLots[v] /\ picked[v] = 0 /\ flashSold[v] = 0
             /\ FlashLimit[v] \in Nat
  BY ConstantsAssumption, LotTotalType DEF Init, NoUnits, Units
<1>3. NeverOversold /\ PicksAreRecorded
  BY <1>2 DEF NeverOversold, PicksAreRecorded
<1>4. EffectsOnce
  BY DEF Init, EffectsOnce, NoRow
<1>5. HeldRowsWereReal /\ HeldIsCurrent /\ CheckoutCovered
  BY DEF Init, HeldRowsWereReal, HeldIsCurrent, CheckoutCovered
<1>6. QED
  BY <1>1, <1>3, <1>4, <1>5 DEF SerialInv

\* As long as handlers do not overlap, what they rely on stays true.
LEMMA SerialInvariant == ASSUME OneAtATime PROVE Spec => []SerialInv
<1>1. SerialInv /\ [Next]_vars => SerialInv'
  BY SerialStep
<1>2. QED
  BY <1>1, SerialInit, PTL DEF Spec

\* When handlers do not overlap every unit missing from the lots has been recorded in
\* the stock history, also when a pick runs out of lots.
THEOREM PicksRecorded == ASSUME OneAtATime PROVE Spec => []PicksAreRecorded
<1>1. SerialInv => PicksAreRecorded
  BY DEF SerialInv
<1>2. QED
  BY <1>1, SerialInvariant, PTL

\* When handlers do not overlap the checks of checkout suffice: the counter stays at or
\* above zero and no flash sale exceeds its limit.
THEOREM NothingOversold == ASSUME OneAtATime PROVE Spec => []NeverOversold
<1>1. SerialInv => NeverOversold
  BY DEF SerialInv
<1>2. QED
  BY <1>1, SerialInvariant, PTL
-----------------------------------------------------------------------------
(* The counter, the lots and the reservations of orders not yet packed       *)

\* When one row changes, the reserved units change by that row's part.
LEMMA ReservedChange ==
  ASSUME NEW rows \in [Orders -> Row], NEW o \in Orders, NEW new \in Row, NEW v \in Variants
  PROVE  /\ Reserved(rows, v) \in Nat /\ Reserves(rows[o], v) \in Nat
         /\ Reserves(new, v) \in Nat /\ Reserves(rows[o], v) <= Reserved(rows, v)
         /\ Reserved([rows EXCEPT ![o] = new], v) =
              Reserved(rows, v) - Reserves(rows[o], v) + Reserves(new, v)
<1> DEFINE f == [x \in Orders |-> Reserves(rows[x], v)]
           after == [rows EXCEPT ![o] = new]
           g == [x \in Orders |-> Reserves(after[x], v)]
<1>1. ASSUME NEW row \in Row
      PROVE  Reserves(row, v) \in Nat
  BY <1>1 DEF Reserves, Row, Units
<1>2. /\ \A x \in Orders : f[x] = Reserves(rows[x], v) /\ f[x] \in Nat /\ f[x] \in Int
      /\ f[o] = Reserves(rows[o], v) /\ g[o] = Reserves(new, v) /\ g[o] \in Int
      /\ \A x \in Orders \ {o} : g[x] = f[x]
  BY <1>1
<1>3. /\ Reserved(rows, v) = SumFunctionOnSet(f, Orders)
      /\ Reserved(after, v) = SumFunctionOnSet(g, Orders)
  BY DEF Reserved, SumFunction
<1>4. IsFiniteSet(Orders) /\ IsFiniteSet(Orders \ {o})
  BY ConstantsAssumption, FS_Subset
<1> HIDE DEF f, g
<1>5. SumFunctionOnSet(g, Orders) = SumFunctionOnSet(f, Orders) - f[o] + g[o]
  BY <1>2, <1>4, SumChange
<1>6. SumFunctionOnSet(f, Orders) = f[o] + SumFunctionOnSet(f, Orders \ {o})
  BY <1>2, <1>4, SumRemove
<1>7. /\ SumFunctionOnSet(f, Orders) \in Int /\ SumFunctionOnSet(f, Orders) >= 0
      /\ SumFunctionOnSet(f, Orders \ {o}) \in Int /\ SumFunctionOnSet(f, Orders \ {o}) >= 0
  BY <1>2, <1>4, SumType
<1>8. QED
  BY <1>1, <1>2, <1>3, <1>5, <1>6, <1>7

\* Without gift promotions no order, and no checkout under way, has a gift.
LEMMA NoGiftStep ==
  ASSUME SerialInv, NoGift, GiftOffers \subseteq {NoUnits}, OneAtATime, [Next]_vars
  PROVE  NoGift'
<1> USE DEF SerialInv, TypeOK
<1>1. \A o \in Orders : orders'[o].gift = NoUnits
  <2>1. CASE UNCHANGED <<orders, flashSold, warehouse>>
    BY <2>1 DEF NoGift
  <2>2. ASSUME NEW r \in Requests, CheckoutCommit(r)
        PROVE  \A o \in Orders : orders'[o].gift = NoUnits
    BY <2>2 DEF CheckoutCommit, NoGift, RowsTypeOK
  <2>3. ASSUME NEW r \in Requests, CommitChange(r)
        PROVE  \A o \in Orders : orders'[o].gift = NoUnits
    <3>1. PICK o \in Orders, t \in Status :
            orders[o] \in Row /\ orders' = [orders EXCEPT ![o] = [orders[o] EXCEPT !.status = t]]
      BY <2>3, SerialChange
    <3>2. QED
      BY <3>1 DEF NoGift, RowsTypeOK, Row
  <2>4. ASSUME NEW r \in Requests, SaveShipping(r)
        PROVE  \A o \in Orders : orders'[o].gift = NoUnits
    <3>1. PICK o \in Orders :
            orders[o] \in Row /\ orders' = [orders EXCEPT ![o] = [orders[o] EXCEPT !.tracked = TRUE]]
      BY <2>4, SerialShipping
    <3>2. QED
      BY <3>1 DEF NoGift, RowsTypeOK, Row
  <2>5. QED
    BY <2>1, <2>2, <2>3, <2>4, WritingSteps
<1>2. \A r \in Requests : job'[r].row.gift = NoUnits
  <2>1. ASSUME NEW r \in Requests, NEW c \in Customers, CheckoutRead(r, c)
        PROVE  job'[r].row.gift = NoUnits
    <3>1. PICK coupon \in BOOLEAN, cod \in BOOLEAN, offer \in GiftOffers \cup {NoUnits} :
            job' = [job EXCEPT ![r] =
              [NoJob EXCEPT !.row = [NoRow EXCEPT !.status = "ChoTT", !.lines = cart[c],
                                       !.gift = IF Covered(offer) THEN offer ELSE NoUnits,
                                       !.coupon = coupon],
                            !.flash = FlashUnits(cart[c]),
                            !.buyer = IF cod THEN {c} ELSE {}]]
      BY <2>1 DEF CheckoutRead
    <3>2. job'[r].row.gift = IF Covered(offer) THEN offer ELSE NoUnits
      BY <3>1 DEF RowsTypeOK, NoJob, NoRow
    <3>3. QED
      BY <3>2
  <2>2. ASSUME NEW r \in Requests, CheckoutClearCart(r) \/ BeginChange(r)
        PROVE  job'[r].row.gift = NoUnits
    BY <2>2 DEF CheckoutClearCart, BeginChange, NoGift, RowsTypeOK, Job
  <2>3. ASSUME NEW r \in Requests, NEW o \in Orders, NEW t \in Status, ReadOrder(r, o, t)
        PROVE  job'[r].row.gift = NoUnits
    BY <2>3, ReadOrderType DEF NoGift
  <2>4. ASSUME NEW r \in Requests, NEW o \in Orders,
               \/ CancelOrder(r, o) \/ UpdateShipping(r, o)
               \/ \E t \in Status : UpdateStatus(r, o, t)
        PROVE  job'[r].row.gift = NoUnits
    <3>1. "DaHuy" \in Status
      BY DEF Status
    <3>2. QED
      BY <2>3, <2>4, <3>1 DEF CancelOrder, UpdateShipping, UpdateStatus
  <2>5. ASSUME NEW r \in Requests, Finish(r)
        PROVE  job'[r].row.gift = NoUnits
    BY <2>5 DEF Finish, RowsTypeOK, NoJob, NoRow
  <2>6. CASE UNCHANGED job
    BY <2>6 DEF NoGift
  <2>7. CASE UNCHANGED vars
    BY <2>6, <2>7 DEF vars
  <2>8. CASE Next
    BY <2>1, <2>2, <2>4, <2>5, <2>6, <2>8
    DEF Next, Serve, OneAtATime, AddItem, CheckoutCommit, TakeCouponSlot, NoCouponSlot,
        CommitChange, SaveShipping, LockWaitTimeout, Abort
  <2>9. QED
    BY <2>7, <2>8
<1>3. QED
  BY <1>1, <1>2 DEF NoGift

\* A checkout takes from the counter what its order reserves.
LEMMA PlaceMatches ==
  ASSUME ShelfInv, NEW r \in Requests, CheckoutCommit(r)
  PROVE  ShelfMatchesBooks'
<1> USE DEF ShelfInv, SerialInv, TypeOK
<1>1. PICK o \in Orders : orders[o] = NoRow /\ orders' = [orders EXCEPT ![o] = job[r].row]
  BY DEF CheckoutCommit
<1> SUFFICES ASSUME NEW v \in Variants
             PROVE  LotTotal(lots'[v]) = stock'[v] + Reserved(orders', v)
  BY DEF ShelfMatchesBooks
<1> DEFINE row == job[r].row
<1>2. row \in Row /\ row.status = "ChoTT" /\ row.gift[v] = 0 /\ row.lines[v] \in Nat
  <2>1. row \in Row /\ row.status = "ChoTT"
    BY DEF CheckoutCommit, HeldRowsWereReal, RowsTypeOK, Job
  <2>2. row.gift = NoUnits
    BY DEF NoGift
  <2>3. QED
    BY <2>1, <2>2 DEF Row, Units, NoUnits
<1>3. Reserves(row, v) = row.lines[v] /\ Reserves(orders[o], v) = 0
  BY <1>1, <1>2 DEF Reserves, NoRow
<1>4. stock'[v] = stock[v] - row.lines[v] /\ lots' = lots /\ stock[v] \in Int
      /\ orders \in [Orders -> Row]
  BY DEF CheckoutCommit, RowsTypeOK
<1>5. Reserved([orders EXCEPT ![o] = row], v) =
        Reserved(orders, v) - Reserves(orders[o], v) + Reserves(row, v)
      /\ Reserved(orders, v) \in Nat
  BY <1>2, <1>4, ReservedChange
<1>6. LotTotal(lots[v]) = stock[v] + Reserved(orders, v)
  BY DEF ShelfMatchesBooks
<1>7. QED
  BY <1>1, <1>2, <1>3, <1>4, <1>5, <1>6

\* Packing takes from the lots, and a cancellation returns to the counter, exactly
\* the units the order had reserved.
LEMMA ChangeMatches ==
  ASSUME ShelfInv, NEW r \in Requests, CommitChange(r)
  PROVE  ShelfMatchesBooks'
<1> USE DEF ShelfInv, SerialInv, TypeOK
<1>1. PICK o \in Orders, t \in Status :
        /\ o = job[r].order /\ t = job[r].target
        /\ orders[o] \in Row /\ <<orders[o].status, t>> \in Transitions
        /\ snap[r] = lots
        /\ orders' = [orders EXCEPT ![o] = [orders[o] EXCEPT !.status = t]]
  BY SerialChange
<1> SUFFICES ASSUME NEW v \in Variants
             PROVE  LotTotal(lots'[v]) = stock'[v] + Reserved(orders', v)
  BY DEF ShelfMatchesBooks
<1> DEFINE need == orders[o].lines[v] + orders[o].gift[v]
           new == [orders[o] EXCEPT !.status = t]
           ls == lots[v]
<1>2. /\ need \in Nat /\ ls \in Seq(Nat) /\ LotTotal(ls) \in Nat /\ new \in Row
      /\ stock[v] \in Int /\ stock[v] >= 0 /\ orders \in [Orders -> Row]
      /\ LotTotal(ls) = stock[v] + Reserved(orders, v)
  <2>1. need \in Nat /\ new \in Row
    BY <1>1 DEF Row, Units
  <2>2. ls \in Seq(Nat)
    BY DEF LotsTypeOK, Shelves
  <2>3. /\ stock[v] \in Int /\ stock[v] >= 0 /\ orders \in [Orders -> Row]
        /\ LotTotal(ls) = stock[v] + Reserved(orders, v)
    BY DEF RowsTypeOK, ShelfMatchesBooks, NeverOversold
  <2>4. QED
    BY <2>1, <2>2, <2>3, LotTotalType
<1>3. /\ Reserved(orders, v) \in Nat /\ Reserves(orders[o], v) <= Reserved(orders, v)
      /\ Reserves(orders[o], v) \in Nat /\ Reserves(new, v) \in Nat
      /\ Reserved(orders', v) = Reserved(orders, v) - Reserves(orders[o], v) + Reserves(new, v)
  BY <1>1, <1>2, ReservedChange
<1>4. /\ Reserves(orders[o], v) =
           (IF orders[o].status \in {"ChoTT", "DaXacNhan"} THEN need ELSE 0)
      /\ Reserves(new, v) = (IF t \in {"ChoTT", "DaXacNhan"} THEN need ELSE 0)
  BY <1>1 DEF Reserves, Row
<1>5. /\ stock'[v] = IF t = "DaHuy" THEN stock[v] + need ELSE stock[v]
      /\ lots'[v] = IF t = "DongGoi" THEN Deducted(ls, ls, need) ELSE ls
  <2>1. orders[o].lines[v] \in Nat /\ orders[o].gift[v] \in Nat
    BY <1>1 DEF Row, Units
  <2>2. stock'[v] = IF t = "DaHuy" THEN stock[v] + orders[o].lines[v] + orders[o].gift[v]
                   ELSE stock[v]
    BY <1>1 DEF CommitChange, Restore
  <2>3. lots'[v] = IF t = "DongGoi" THEN Deducted(ls, ls, need) ELSE ls
    BY <1>1 DEF CommitChange, Pack
  <2>4. QED
    BY <1>2, <2>1, <2>2, <2>3
<1> HIDE DEF need, new, ls
<1>6. CASE t = "DongGoi"
  <2>1. Reserves(orders[o], v) = need /\ Reserves(new, v) = 0
    BY <1>1, <1>4, <1>6 DEF Transitions
  <2>2. LotTotal(Deducted(ls, ls, need)) = LotTotal(ls) - Smaller(need, LotTotal(ls))
    BY <1>2, DeductedTotal
  <2>3. Smaller(need, LotTotal(ls)) = need
    BY <1>2, <1>3, <2>1 DEF Smaller
  <2>4. QED
    BY <1>2, <1>3, <1>5, <1>6, <2>1, <2>2, <2>3
<1>7. CASE t = "DaHuy"
  <2>1. Reserves(orders[o], v) = need /\ Reserves(new, v) = 0
    BY <1>1, <1>4, <1>7 DEF Transitions
  <2>2. QED
    BY <1>2, <1>3, <1>5, <1>7, <2>1
<1>8. CASE t \notin {"DongGoi", "DaHuy"}
  <2>1. Reserves(orders[o], v) = Reserves(new, v)
    BY <1>1, <1>4, <1>8 DEF Transitions
  <2>2. QED
    BY <1>2, <1>3, <1>5, <1>8, <2>1
<1>9. QED
  BY <1>6, <1>7, <1>8

\* The shipping details do not touch what an order reserves.
LEMMA ShippingMatches ==
  ASSUME ShelfInv, NEW r \in Requests, SaveShipping(r)
  PROVE  ShelfMatchesBooks'
<1> USE DEF ShelfInv, SerialInv, TypeOK
<1>1. PICK o \in Orders :
        orders[o] \in Row /\ orders' = [orders EXCEPT ![o] = [orders[o] EXCEPT !.tracked = TRUE]]
  BY SerialShipping
<1> SUFFICES ASSUME NEW v \in Variants
             PROVE  LotTotal(lots'[v]) = stock'[v] + Reserved(orders', v)
  BY DEF ShelfMatchesBooks
<1> DEFINE new == [orders[o] EXCEPT !.tracked = TRUE]
<1>2. new \in Row /\ Reserves(new, v) = Reserves(orders[o], v) /\ orders \in [Orders -> Row]
  BY <1>1 DEF Row, Reserves, RowsTypeOK
<1>3. /\ Reserved(orders, v) \in Nat /\ Reserves(orders[o], v) \in Nat
      /\ Reserved(orders', v) = Reserved(orders, v) - Reserves(orders[o], v) + Reserves(new, v)
  BY <1>1, <1>2, ReservedChange
<1>4. stock' = stock /\ lots' = lots
  BY DEF SaveShipping, warehouse
<1> HIDE DEF new
<1>5. QED
  BY <1>2, <1>3, <1>4 DEF ShelfMatchesBooks

\* No step parts the shelf from the books.
LEMMA ShelfStep ==
  ASSUME ShelfInv, GiftOffers \subseteq {NoUnits}, OneAtATime, [Next]_vars
  PROVE  ShelfInv'
<1>1. SerialInv' /\ NoGift'
  BY SerialStep, NoGiftStep DEF ShelfInv
<1>2. ShelfMatchesBooks'
  <2>1. CASE UNCHANGED <<orders, flashSold, warehouse>>
    BY <2>1 DEF warehouse, ShelfInv, ShelfMatchesBooks
  <2>2. QED
    BY <2>1, WritingSteps, PlaceMatches, ChangeMatches, ShippingMatches
<1>3. QED
  BY <1>1, <1>2 DEF ShelfInv

\* The shelf and the books agree in the beginning.
LEMMA ShelfInit == Init => ShelfInv
<1> SUFFICES ASSUME Init PROVE ShelfInv
  OBVIOUS
<1>1. SerialInv
  BY SerialInit
<1>2. NoGift
  BY DEF Init, NoGift, NoRow, NoJob
<1>3. ASSUME NEW v \in Variants
      PROVE  LotTotal(lots[v]) = stock[v] + Reserved(orders, v)
  <2> DEFINE f == [x \in Orders |-> Reserves(orders[x], v)]
  <2>1. Reserved(orders, v) = SumFunctionOnSet(f, Orders) /\ \A x \in Orders : f[x] = 0
    BY DEF Init, Reserved, SumFunction, Reserves, NoRow
  <2> HIDE DEF f
  <2>2. Reserved(orders, v) = 0
    BY <2>1, SumZero, ConstantsAssumption
  <2>3. LotTotal(lots[v]) = stock[v] /\ stock[v] \in Int
    BY <1>1 DEF Init, SerialInv, TypeOK, RowsTypeOK
  <2>4. QED
    BY <2>2, <2>3
<1>4. QED
  BY <1>1, <1>2, <1>3 DEF ShelfInv, ShelfMatchesBooks

\* When handlers do not overlap and no promotion gives units away, what lies in the
\* lots is always what is for sale plus what the orders not yet packed have reserved,
\* for any number of orders and variants.  (With gifts it fails even so: checkout does
\* not reserve them and a cancellation gives them back.)
THEOREM ShelfAlwaysMatches ==
  ASSUME OneAtATime, GiftOffers \subseteq {NoUnits}
  PROVE  Spec => []ShelfMatchesBooks
<1>1. ShelfInv /\ [Next]_vars => ShelfInv'
  BY ShelfStep
<1>2. ShelfInv => ShelfMatchesBooks
  BY DEF ShelfInv
<1>3. QED
  BY <1>1, <1>2, ShelfInit, PTL DEF Spec

-----------------------------------------------------------------------------
(* The documented transitions, and the abstract order                        *)

\* When handlers do not overlap an order's status moves along the table's arrows only.
THEOREM StatusesFollowTable == ASSUME OneAtATime PROVE Spec => StatusFollowsTable
<1> DEFINE Follows == \A o \in Orders :
             orders'[o].status # orders[o].status =>
               \/ orders[o].status = "Absent" /\ orders'[o].status = "ChoTT"
               \/ <<orders[o].status, orders'[o].status>> \in Transitions
<1>1. SerialInv /\ [Next]_vars => [Follows]_orders
  <2> SUFFICES ASSUME SerialInv, [Next]_vars, orders' # orders
               PROVE  Follows
    OBVIOUS
  <2> USE DEF SerialInv, TypeOK
  <2>1. ASSUME NEW r \in Requests, CheckoutCommit(r)
        PROVE  Follows
    <3>1. PICK o \in Orders : orders[o] = NoRow /\ orders' = [orders EXCEPT ![o] = job[r].row]
      BY <2>1 DEF CheckoutCommit
    <3>2. job[r].row.status = "ChoTT" /\ orders[o].status = "Absent"
      <4>1. pc[r] = "checkout"
        BY <2>1 DEF CheckoutCommit
      <4>2. orders[o].status = "Absent"
        BY <3>1 DEF NoRow
      <4>3. QED
        BY <4>1, <4>2 DEF SerialInv, HeldRowsWereReal
    <3>3. QED
      BY <3>1, <3>2 DEF RowsTypeOK
  <2>2. ASSUME NEW r \in Requests, CommitChange(r)
        PROVE  Follows
    <3>1. PICK o \in Orders, t \in Status :
            /\ orders[o] \in Row /\ <<orders[o].status, t>> \in Transitions
            /\ orders' = [orders EXCEPT ![o] = [orders[o] EXCEPT !.status = t]]
      BY <2>2, SerialChange
    <3>2. QED
      BY <3>1 DEF RowsTypeOK, Row
  <2>3. ASSUME NEW r \in Requests, SaveShipping(r)
        PROVE  Follows
    <3>1. PICK o \in Orders :
            orders[o] \in Row /\ orders' = [orders EXCEPT ![o] = [orders[o] EXCEPT !.tracked = TRUE]]
      BY <2>3, SerialShipping
    <3>2. QED
      BY <3>1 DEF RowsTypeOK, Row
  <2>4. QED
    BY <2>1, <2>2, <2>3, WritingSteps
<1>2. QED
  BY <1>1, SerialInvariant, PTL DEF Spec, StatusFollowsTable

\* What became of an order's units follows from its status.
Fate(status) ==
  CASE status = "Absent" -> "none"
    [] status \in {"ChoTT", "DaXacNhan"} -> "reserved"
    [] status = "DaHuy" -> "released"
    [] OTHER -> "picked"

\* Every step of handlers that do not overlap is a step of the abstract order, or
\* changes nothing that it shows.
LEMMA PromiseStep ==
  ASSUME SerialInv, SerialInv', [Next]_vars
  PROVE  [Promise!Next]_<<[o \in Orders |-> orders[o].status],
                          [o \in Orders |-> UnitsState(o)]>>
<1> DEFINE status == [o \in Orders |-> orders[o].status]
           units == [o \in Orders |-> UnitsState(o)]
           Known == Status \cup {"Absent"}
<1>1. /\ \A o \in Orders : orders[o].status \in Known /\ orders'[o].status \in Known
      /\ \A o \in Orders : UnitsState(o) = Fate(orders[o].status)
      /\ \A o \in Orders : UnitsState(o)' = Fate(orders'[o].status)
  <2>1. \A o \in Orders : orders[o].status \in Known /\ orders'[o].status \in Known
    BY DEF SerialInv, TypeOK, RowsTypeOK, Row
  <2>2. ASSUME NEW o \in Orders
        PROVE  UnitsState(o) = Fate(orders[o].status)
    BY <2>1 DEF SerialInv, EffectsOnce, UnitsState, Fate, Status
  <2>3. ASSUME NEW o \in Orders
        PROVE  UnitsState(o)' = Fate(orders'[o].status)
    BY <2>1 DEF SerialInv, EffectsOnce, UnitsState, Fate, Status
  <2>4. QED
    BY <2>1, <2>2, <2>3
<1>2. /\ status = [o \in Orders |-> orders[o].status]
      /\ \A o \in Orders : status[o] = orders[o].status /\ units[o] = Fate(orders[o].status)
      /\ \A o \in Orders : status'[o] = orders'[o].status /\ units'[o] = Fate(orders'[o].status)
      /\ status' = [o \in Orders |-> orders'[o].status]
      /\ units = [o \in Orders |-> Fate(orders[o].status)]
      /\ units' = [o \in Orders |-> Fate(orders'[o].status)]
  BY <1>1
<1>3. SUFFICES Promise!Next \/ (status' = status /\ units' = units)
  OBVIOUS
<1>4. ASSUME \A o \in Orders : orders'[o].status = orders[o].status
      PROVE  status' = status /\ units' = units
  BY <1>2, <1>4
<1> HIDE DEF status, units
<1>5. ASSUME NEW o \in Orders, NEW s \in Known,
             orders'[o].status = s,
             \A x \in Orders \ {o} : orders'[x].status = orders[x].status
      PROVE  /\ status' = [status EXCEPT ![o] = s]
             /\ units' = [units EXCEPT ![o] = Fate(s)]
  <2>1. /\ status' = [x \in Orders |-> IF x = o THEN s ELSE orders[x].status]
        /\ units' = [x \in Orders |-> IF x = o THEN Fate(s) ELSE Fate(orders[x].status)]
    BY <1>2, <1>5
  <2>2. /\ status = [x \in Orders |-> orders[x].status]
        /\ units = [x \in Orders |-> Fate(orders[x].status)]
    BY <1>2
  <2>3. QED
    BY <2>1, <2>2
<1>6. ASSUME NEW r \in Requests, CheckoutCommit(r)
      PROVE  Promise!Next
  <2>1. PICK o \in Orders : /\ orders[o].status = "Absent" /\ orders'[o].status = "ChoTT"
                            /\ \A x \in Orders \ {o} : orders'[x].status = orders[x].status
    <3>1. PICK o \in Orders : orders[o] = NoRow /\ orders' = [orders EXCEPT ![o] = job[r].row]
      BY <1>6 DEF CheckoutCommit
    <3>2. job[r].row.status = "ChoTT" /\ orders[o].status = "Absent"
      <4>1. pc[r] = "checkout"
        BY <1>6 DEF CheckoutCommit
      <4>2. orders[o].status = "Absent"
        BY <3>1 DEF NoRow
      <4>3. QED
        BY <4>1, <4>2 DEF SerialInv, HeldRowsWereReal
    <3>3. QED
      BY <3>1, <3>2 DEF SerialInv, TypeOK, RowsTypeOK
  <2>2. /\ status' = [status EXCEPT ![o] = "ChoTT"] /\ status[o] = "Absent"
        /\ units' = [units EXCEPT ![o] = "reserved"]
    BY <1>2, <1>5, <2>1 DEF Fate, Status
  <2>3. Promise!Place(o)
    BY <2>2 DEF Promise!Place, status, units
  <2>4. QED
    BY <2>3 DEF Promise!Next
<1>7. ASSUME NEW r \in Requests, CommitChange(r)
      PROVE  Promise!Next
  <2>1. PICK o \in Orders, t \in Status :
          /\ orders[o] \in Row /\ <<orders[o].status, t>> \in Transitions
          /\ orders' = [orders EXCEPT ![o] = [orders[o] EXCEPT !.status = t]]
    BY <1>7, SerialChange
  <2>2. /\ orders'[o].status = t
        /\ \A x \in Orders \ {o} : orders'[x].status = orders[x].status
    BY <2>1 DEF SerialInv, TypeOK, RowsTypeOK, Row
  <2>3. /\ status' = [status EXCEPT ![o] = t] /\ units' = [units EXCEPT ![o] = Fate(t)]
        /\ <<status[o], t>> \in Transitions /\ units[o] = Fate(status[o])
    BY <1>2, <1>5, <2>1, <2>2
  <2>4. Promise!Moves(o, t)
    BY <2>3 DEF Promise!Moves, status, units
  <2>5. CASE t = "DongGoi"
    <3>1. units[o] = "reserved" /\ units' = [units EXCEPT ![o] = "picked"]
      BY <2>3, <2>5 DEF Fate, Transitions
    <3>2. Promise!PackOrder(o)
      BY <2>4, <2>5, <3>1 DEF Promise!PackOrder, status, units
    <3>3. QED
      BY <3>2 DEF Promise!Next
  <2>6. CASE t = "DaHuy"
    <3>1. units[o] = "reserved" /\ units' = [units EXCEPT ![o] = "released"]
      BY <2>3, <2>6 DEF Fate, Transitions
    <3>2. Promise!Cancel(o)
      BY <2>4, <2>6, <3>1 DEF Promise!Cancel, status, units
    <3>3. QED
      BY <3>2 DEF Promise!Next
  <2>7. CASE t \notin {"DongGoi", "DaHuy"}
    <3>1. Fate(t) = units[o]
      BY <2>3, <2>7 DEF Fate, Transitions
    <3>2. units' = units
      BY <2>3, <3>1 DEF units
    <3>3. Promise!Advance(o, t)
      BY <2>4, <2>7, <3>2 DEF Promise!Advance, status, units
    <3>4. \E a \in Transitions : a[2] = t
      BY <2>3
    <3>5. QED
      BY <3>3, <3>4 DEF Promise!Next
  <2>8. QED
    BY <2>5, <2>6, <2>7
<1>8. ASSUME NEW r \in Requests, SaveShipping(r)
      PROVE  \A o \in Orders : orders'[o].status = orders[o].status
  <2>1. PICK o \in Orders :
          orders[o] \in Row /\ orders' = [orders EXCEPT ![o] = [orders[o] EXCEPT !.tracked = TRUE]]
    BY <1>8, SerialShipping
  <2>2. QED
    BY <2>1 DEF SerialInv, TypeOK, RowsTypeOK, Row
<1>9. QED
  BY <1>4, <1>6, <1>7, <1>8, WritingSteps

\* Handlers that do not overlap implement the abstract order, step by step: each
\* reservation ends once, in a pick or in a release.
THEOREM OrderKeepsPromise == ASSUME OneAtATime PROVE Spec => PromiseKept
<1>1. Init => Promise!Init
  BY DEF Init, Promise!Init, UnitsState, NoRow
<1>2. SerialInv /\ SerialInv' /\ [Next]_vars
        => [Promise!Next]_<<[o \in Orders |-> orders[o].status],
                            [o \in Orders |-> UnitsState(o)]>>
  BY PromiseStep
<1>3. QED
  BY <1>1, <1>2, SerialInvariant, PTL DEF Spec, PromiseKept, Promise!Spec
=============================================================================

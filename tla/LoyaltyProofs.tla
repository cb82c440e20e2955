--------------------------- MODULE LoyaltyProofs ---------------------------
(***************************************************************************)
(* Theorems about the points of the customers: the ledger under            *)
(* LoyaltyService alone, and what is left of it when UsersService writes   *)
(* the same rows.                                                          *)
(***************************************************************************)
EXTENDS CustomerAccount, SumsProofs

\* An idle request holds nothing.
LEMMA NoJobIsJob == NoJob \in Job
  BY DEF NoJob, Job

\* Beginning and finishing a request keep the types of what it holds.
LEMMA BeginTypes ==
  ASSUME TypeOK, NEW r \in Requests, NEW l, NEW j \in Job, Begin(r, l, j),
         l \in {"redeem", "refund", "catalog"},
         l \in {"redeem", "refund"} => j.who \in Customers,
         l \in {"redeem", "catalog"} => j.reward \in Rewards,
         UNCHANGED <<points, ledger, redeemed, given>>
  PROVE  TypeOK'
  BY DEF Begin, TypeOK

\* A request that has finished is idle and holds nothing; the others are as before.
LEMMA FinishTypes ==
  ASSUME TypeOK, NEW r \in Requests, Finish(r)
  PROVE  /\ pc' \in [Requests -> {"idle", "redeem", "refund", "catalog"}]
         /\ job' \in [Requests -> Job]
         /\ served' \in Nat
         /\ \A q \in Requests : pc'[q] \in {"redeem", "refund"} => job'[q].who \in Customers
         /\ \A q \in Requests : pc'[q] \in {"redeem", "catalog"} => job'[q].reward \in Rewards
  BY NoJobIsJob DEF Finish, TypeOK

\* What writeTransaction leaves behind: the new balance, and one more row.
LEMMA WriteTypes ==
  ASSUME TypeOK, NEW c \in Customers, NEW kind \in {"earn", "redeem", "adjust"},
         NEW amount \in Int, NEW order \in Orders \cup {None},
         WriteTransaction(c, kind, amount, order)
  PROVE  /\ points' \in [Customers -> Int] /\ ledger' \in [Customers -> Seq(Entry)]
         /\ points'[c] = points[c] + amount
         /\ \E row \in Entry : /\ ledger'[c] = Append(ledger[c], row)
                               /\ row.before = points[c] /\ row.amount = amount
                               /\ row.after = points[c] + amount /\ row.kind = kind
         /\ \A d \in Customers \ {c} : points'[d] = points[d] /\ ledger'[d] = ledger[d]
<1> DEFINE row == [kind |-> kind, amount |-> amount, before |-> points[c],
                   after |-> points[c] + amount, order |-> order]
<1>1. row \in Entry
  BY DEF Entry, TypeOK
<1>2. Append(ledger[c], row) \in Seq(Entry)
  BY <1>1 DEF TypeOK
<1>3. ledger'[c] = Append(ledger[c], row) /\ ledger' \in [Customers -> Seq(Entry)]
  BY <1>2 DEF WriteTransaction, TypeOK
<1>4. points' \in [Customers -> Int] /\ points'[c] = points[c] + amount
  BY DEF WriteTransaction, TypeOK
<1>5. QED
  BY <1>1, <1>3, <1>4 DEF WriteTransaction, TypeOK

\* The only writers of balances and ledgers, with what they write.
LEMMA WhoWrites ==
  ASSUME TypeOK, Next
  PROVE  \/ UNCHANGED <<points, ledger>>
         \/ \E c \in Customers, kind \in {"earn", "redeem", "adjust"}, amount \in Int,
               order \in Orders \cup {None} :
              Affordable(c, amount) /\ WriteTransaction(c, kind, amount, order)
<1>1. ASSUME NEW c \in Customers, NEW a \in Amounts, NEW o \in Orders \cup {None},
             AdjustPoints(c, a, o)
      PROVE  \E kind \in {"earn", "redeem", "adjust"}, amount \in Int :
               Affordable(c, amount) /\ WriteTransaction(c, kind, amount, o)
  <2>1. a \in Int /\ Affordable(c, a)
        /\ WriteTransaction(c, IF a >= 0 THEN "earn" ELSE "adjust", a, o)
    BY <1>1, LoyaltyAssumption DEF AdjustPoints
  <2>2. (IF a >= 0 THEN "earn" ELSE "adjust") \in {"earn", "redeem", "adjust"}
    OBVIOUS
  <2>3. QED
    BY <2>1, <2>2
<1>2. ASSUME NEW r \in Requests, RedeemCommit(r)
      PROVE  \E c \in Customers, kind \in {"earn", "redeem", "adjust"}, amount \in Int :
               Affordable(c, amount) /\ WriteTransaction(c, kind, amount, None)
  <2>1. job[r].who \in Customers /\ -Price[job[r].reward] \in Int
    <3>1. pc[r] = "redeem"
      BY <1>2 DEF RedeemCommit
    <3>2. job[r].who \in Customers /\ job[r].reward \in Rewards
      BY <3>1 DEF TypeOK
    <3>3. Price[job[r].reward] \in Nat
      BY <3>2, LoyaltyAssumption
    <3>4. QED
      BY <3>2, <3>3
  <2>2. /\ Affordable(job[r].who, -Price[job[r].reward])
        /\ WriteTransaction(job[r].who, "redeem", -Price[job[r].reward], None)
    BY <1>2 DEF RedeemCommit
  <2>3. QED
    BY <2>1, <2>2
<1>3. ASSUME NEW r \in Requests, RefundCommit(r)
      PROVE  \E c \in Customers, kind \in {"earn", "redeem", "adjust"}, amount \in Int,
                order \in Orders \cup {None} :
               Affordable(c, amount) /\ WriteTransaction(c, kind, amount, order)
  <2>1. /\ job[r].who \in Customers /\ -job[r].take \in Int
        /\ job[r].order \in Orders \cup {None}
    BY <1>3 DEF RefundCommit, TypeOK, Job
  <2>2. /\ Affordable(job[r].who, -job[r].take)
        /\ WriteTransaction(job[r].who, "adjust", -job[r].take, job[r].order)
    BY <1>3 DEF RefundCommit
  <2>3. QED
    BY <2>1, <2>2
<1>4. QED
  BY <1>1, <1>2, <1>3
  DEF Next, RedeemRead, RefundRead, EditReward, SaveReward, Abort

\* Every step of LoyaltyService keeps the types.
LEMMA LoyaltyTypeStep ==
  ASSUME TypeOK, [Next]_vars
  PROVE  TypeOK'
<1>1. CASE UNCHANGED vars
  BY <1>1 DEF vars, TypeOK
<1>2. ASSUME NEW c \in Customers, NEW a \in Amounts, NEW o \in Orders \cup {None},
             AdjustPoints(c, a, o)
      PROVE  TypeOK'
  <2>1. points' \in [Customers -> Int] /\ ledger' \in [Customers -> Seq(Entry)]
    BY <1>2, LoyaltyAssumption, WriteTypes DEF AdjustPoints
  <2>2. UNCHANGED <<redeemed, given, pc, job>> /\ served' = served + 1
    BY <1>2 DEF AdjustPoints
  <2>3. QED
    BY <2>1, <2>2 DEF TypeOK
<1>3. ASSUME NEW r \in Requests, NEW c \in Customers, NEW i \in Rewards, RedeemRead(r, c, i)
      PROVE  TypeOK'
  <2> DEFINE j == [NoJob EXCEPT !.who = c, !.reward = i]
  <2>1. j \in Job /\ j.who = c /\ j.reward = i
    <3>1. j \in Job
      BY NoJobIsJob DEF Job
    <3>2. QED
      BY <3>1, NoJobIsJob DEF Job
  <2>2. Begin(r, "redeem", j) /\ UNCHANGED <<points, ledger, redeemed, given>>
    BY <1>3 DEF RedeemRead
  <2>3. QED
    BY <2>1, <2>2, BeginTypes
<1>4. ASSUME NEW r \in Requests, RedeemCommit(r)
      PROVE  TypeOK'
  <2>1. job[r].who \in Customers /\ job[r].reward \in Rewards
    BY <1>4 DEF RedeemCommit, TypeOK
  <2>2. /\ redeemed' = [redeemed EXCEPT ![job[r].reward] = @ + 1]
        /\ given' = [given EXCEPT ![job[r].who][job[r].reward] = @ + 1]
        /\ Finish(r)
        /\ WriteTransaction(job[r].who, "redeem", -Price[job[r].reward], None)
    BY <1>4 DEF RedeemCommit
  <2>3. redeemed' \in [Rewards -> Nat]
    BY <2>1, <2>2 DEF TypeOK
  <2>4. given' \in [Customers -> [Rewards -> Nat]]
    <3>1. given[job[r].who] \in [Rewards -> Nat]
      BY <2>1 DEF TypeOK
    <3>2. [given[job[r].who] EXCEPT ![job[r].reward] = @ + 1] \in [Rewards -> Nat]
      BY <2>1, <3>1
    <3>3. QED
      BY <2>1, <2>2, <3>2 DEF TypeOK
  <2>5. -Price[job[r].reward] \in Int
    BY <2>1, LoyaltyAssumption
  <2>6. points' \in [Customers -> Int] /\ ledger' \in [Customers -> Seq(Entry)]
    BY <2>1, <2>2, <2>5, WriteTypes
  <2>7. QED
    BY <2>2, <2>3, <2>4, <2>6, FinishTypes DEF TypeOK
<1>5. ASSUME NEW r \in Requests, NEW o \in Orders, RefundRead(r, o)
      PROVE  TypeOK'
  <2>1. PICK c \in Customers : \E k \in DOMAIN ledger[c] :
          /\ ledger[c][k].amount > 0
          /\ Begin(r, "refund", [NoJob EXCEPT !.who = Owner[o], !.order = o,
                 !.take = IF ledger[c][k].amount <= points[Owner[o]]
                          THEN ledger[c][k].amount ELSE points[Owner[o]]])
    BY <1>5 DEF RefundRead
  <2>2. PICK k \in DOMAIN ledger[c] :
          Begin(r, "refund", [NoJob EXCEPT !.who = Owner[o], !.order = o,
                 !.take = IF ledger[c][k].amount <= points[Owner[o]]
                          THEN ledger[c][k].amount ELSE points[Owner[o]]])
    BY <2>1
  <2> DEFINE take == IF ledger[c][k].amount <= points[Owner[o]]
                     THEN ledger[c][k].amount ELSE points[Owner[o]]
             j == [NoJob EXCEPT !.who = Owner[o], !.order = o, !.take = take]
  <2>3. Owner[o] \in Customers /\ ledger[c][k] \in Entry
    BY LoyaltyAssumption DEF TypeOK
  <2>4. take \in Int
    BY <2>3 DEF TypeOK, Entry
  <2>5. j \in Job /\ j.who = Owner[o]
    <3> HIDE DEF take
    <3> QED BY <2>3, <2>4 DEF NoJob, Job
  <2>6. UNCHANGED <<points, ledger, redeemed, given>> /\ Begin(r, "refund", j)
    BY <1>5, <2>2 DEF RefundRead
  <2>7. QED
    <3> HIDE DEF j
    <3> QED BY <2>3, <2>5, <2>6, BeginTypes
<1>6. ASSUME NEW r \in Requests, RefundCommit(r)
      PROVE  TypeOK'
  <2>1. job[r].who \in Customers /\ job[r] \in Job
    BY <1>6 DEF RefundCommit, TypeOK
  <2>2. job[r].order \in Orders \cup {None} /\ -job[r].take \in Int
    BY <2>1 DEF Job
  <2>3. /\ Finish(r) /\ UNCHANGED <<redeemed, given>>
        /\ WriteTransaction(job[r].who, "adjust", -job[r].take, job[r].order)
    BY <1>6 DEF RefundCommit
  <2>4. points' \in [Customers -> Int] /\ ledger' \in [Customers -> Seq(Entry)]
    BY <2>1, <2>2, <2>3, WriteTypes
  <2>5. QED
    BY <2>3, <2>4, FinishTypes DEF TypeOK
<1>7. ASSUME NEW r \in Requests, NEW i \in Rewards, EditReward(r, i)
      PROVE  TypeOK'
  <2> DEFINE j == [NoJob EXCEPT !.reward = i, !.seen = redeemed[i]]
  <2>1. j \in Job /\ j.reward = i
    <3>1. redeemed[i] \in Nat
      BY DEF TypeOK
    <3>2. j \in Job
      BY <3>1, NoJobIsJob DEF Job
    <3>3. j.reward = i
      BY NoJobIsJob DEF Job
    <3>4. QED
      BY <3>2, <3>3
  <2>2. Begin(r, "catalog", j) /\ UNCHANGED <<points, ledger, redeemed, given>>
    BY <1>7 DEF EditReward
  <2>3. QED
    BY <2>1, <2>2, BeginTypes
<1>8. ASSUME NEW r \in Requests, SaveReward(r)
      PROVE  TypeOK'
  <2>1. job[r].reward \in Rewards /\ job[r].seen \in Nat
    <3>1. pc[r] = "catalog" /\ job[r] \in Job
      BY <1>8 DEF SaveReward, TypeOK
    <3>2. QED
      BY <3>1 DEF TypeOK, Job
  <2>2. redeemed' \in [Rewards -> Nat]
    BY <1>8, <2>1 DEF SaveReward, TypeOK
  <2>3. Finish(r) /\ UNCHANGED <<points, ledger, given>>
    BY <1>8 DEF SaveReward
  <2>4. QED
    BY <2>2, <2>3, FinishTypes DEF TypeOK
<1>9. ASSUME NEW r \in Requests, Abort(r)
      PROVE  TypeOK'
  <2>1. Finish(r) /\ UNCHANGED <<points, ledger, redeemed, given>>
    BY <1>9 DEF Abort
  <2>2. QED
    BY <2>1, FinishTypes DEF TypeOK
<1>10. QED
  BY <1>1, <1>2, <1>3, <1>4, <1>5, <1>6, <1>7, <1>8, <1>9 DEF Next

\* The types hold at first.
LEMMA LoyaltyTypeInit ==
  ASSUME Init
  PROVE  TypeOK
  BY NoJobIsJob DEF Init, TypeOK

\* The variables of LoyaltyService always have their types.
THEOREM LoyaltyTyped == Spec => []TypeOK
<1>1. Init => TypeOK
  BY LoyaltyTypeInit
<1>2. TypeOK /\ [Next]_vars => TypeOK'
  BY LoyaltyTypeStep
<1>3. QED
  BY <1>1, <1>2, PTL DEF Spec

-----------------------------------------------------------------------------
(* The ledger under LoyaltyService alone *)

\* The part of LedgerChains that speaks of one customer.
Chains(rows, balance) ==
  /\ \A k \in 1..Len(rows) :
       /\ rows[k].before = IF k = 1 THEN 0 ELSE rows[k - 1].after
       /\ rows[k].after = rows[k].before + rows[k].amount
       /\ rows[k].after >= 0
  /\ balance = IF Len(rows) = 0 THEN 0 ELSE rows[Len(rows)].after

\* A row that starts from the balance carries the chain on.
LEMMA AppendChains ==
  ASSUME NEW rows \in Seq(Entry), NEW balance \in Int, NEW row \in Entry,
         Chains(rows, balance), row.before = balance,
         row.after = row.before + row.amount, row.after >= 0
  PROVE  Chains(Append(rows, row), row.after)
<1> DEFINE new == Append(rows, row)
           n == Len(rows)
<1>1. n \in Nat /\ Len(new) = n + 1 /\ new[n + 1] = row
  OBVIOUS
<1>2. \A k \in 1..n : new[k] = rows[k]
  OBVIOUS
<1>3. ASSUME NEW k \in 1..n
      PROVE  /\ new[k].before = IF k = 1 THEN 0 ELSE new[k - 1].after
             /\ new[k].after = new[k].before + new[k].amount
             /\ new[k].after >= 0
  <2>1. k = 1 \/ k - 1 \in 1..n
    BY <1>1
  <2>2. QED
    BY <1>2, <2>1 DEF Chains
<1>4. row.before = IF n + 1 = 1 THEN 0 ELSE new[n].after
  <2>1. n = 0 \/ n \in 1..n
    BY <1>1
  <2>2. QED
    BY <1>1, <1>2, <2>1 DEF Chains
<1>5. QED
  <2>1. ASSUME NEW k \in 1..(n + 1), k \notin 1..n
        PROVE  k = n + 1
    BY <1>1, <2>1
  <2>2. (n + 1) - 1 = n
    BY <1>1
  <2>3. ASSUME NEW k \in 1..(n + 1)
        PROVE  /\ new[k].before = IF k = 1 THEN 0 ELSE new[k - 1].after
               /\ new[k].after = new[k].before + new[k].amount
               /\ new[k].after >= 0
    BY <1>1, <1>3, <1>4, <2>1, <2>2
  <2>4. Len(new) # 0 /\ new[Len(new)].after = row.after
    BY <1>1
  <2>5. QED
    BY <1>1, <2>3, <2>4 DEF Chains

\* Whatever redemptions, refunds and corrections run at once, each ledger row
\* carries on from the row before it and the balance is where the last one ends:
\* the balance is the sum of the ledger, and never negative.
THEOREM LedgerIsSound == Spec => []LedgerChains
<1>1. Init => LedgerChains
  BY DEF Init, LedgerChains
<1>2. TypeOK /\ LedgerChains /\ [Next]_vars => LedgerChains'
  <2> SUFFICES ASSUME TypeOK, LedgerChains, [Next]_vars PROVE LedgerChains'
    OBVIOUS
  <2>1. \A d \in Customers : Chains(ledger[d], points[d])
    BY DEF LedgerChains, Chains
  <2>2. SUFFICES \A d \in Customers : Chains(ledger'[d], points'[d])
    BY DEF LedgerChains, Chains
  <2>3. CASE UNCHANGED <<points, ledger>>
    BY <2>1, <2>3
  <2>4. ASSUME NEW c \in Customers, NEW kind \in {"earn", "redeem", "adjust"},
               NEW amount \in Int, NEW order \in Orders \cup {None},
               Affordable(c, amount), WriteTransaction(c, kind, amount, order)
        PROVE  \A d \in Customers : Chains(ledger'[d], points'[d])
    <3>1. PICK row \in Entry : /\ ledger'[c] = Append(ledger[c], row)
                               /\ row.before = points[c] /\ row.amount = amount
                               /\ row.after = points[c] + amount
      BY <2>4, WriteTypes
    <3>2. /\ points'[c] = row.after
          /\ \A d \in Customers \ {c} : points'[d] = points[d] /\ ledger'[d] = ledger[d]
      BY <2>4, <3>1, WriteTypes
    <3>3. row.after >= 0 /\ row.after = row.before + row.amount
      BY <2>4, <3>1 DEF Affordable
    <3>4. ledger[c] \in Seq(Entry) /\ points[c] \in Int
      BY DEF TypeOK
    <3>5. Chains(ledger'[c], points'[c])
      BY <2>1, <3>1, <3>2, <3>3, <3>4, AppendChains
    <3>6. QED
      BY <2>1, <3>2, <3>5
  <2>5. QED
    BY <2>3, <2>4, WhoWrites DEF vars
<1>3. QED
  BY <1>1, <1>2, LoyaltyTyped, PTL DEF Spec

-----------------------------------------------------------------------------
(* The balance as a sum, and what the rewards were paid with *)

\* A ledger has finitely many rows, each with an amount.
LEMMA LedgerNumbered ==
  ASSUME NEW rows \in Seq(Entry)
  PROVE  /\ IsFiniteSet(DOMAIN rows)
         /\ \A k \in DOMAIN rows : rows[k] \in Entry /\ rows[k].amount \in Int
<1>1. DOMAIN rows = 1..Len(rows) /\ Len(rows) \in Nat
  OBVIOUS
<1>2. IsFiniteSet(DOMAIN rows)
  BY <1>1, FS_Interval
<1>3. ASSUME NEW k \in DOMAIN rows
      PROVE  rows[k] \in Entry /\ rows[k].amount \in Int
  <2>1. rows[k] \in Entry
    OBVIOUS
  <2>2. QED
    BY <2>1 DEF Entry
<1>4. QED
  BY <1>2, <1>3

\* What a ledger with one more row looks like.
LEMMA AppendedRow ==
  ASSUME NEW rows \in Seq(Entry), NEW row \in Entry,
         NEW new, new = Append(rows, row), NEW n, n = Len(rows) + 1
  PROVE  /\ DOMAIN new = DOMAIN rows \cup {n} /\ n \notin DOMAIN rows
         /\ new[n] = row /\ \A k \in DOMAIN rows : new[k] = rows[k]
         /\ new \in Seq(Entry)
<1>1. Len(rows) \in Nat /\ DOMAIN rows = 1..Len(rows)
  OBVIOUS
<1>2. new \in Seq(Entry) /\ Len(new) = n /\ new[n] = row /\ \A k \in 1..Len(rows) : new[k] = rows[k]
  OBVIOUS
<1>3. DOMAIN new = 1..n
  BY <1>2
<1>4. QED
  BY <1>1, <1>2, <1>3

\* A new row adds its amount to the sum of the ledger.
LEMMA LedgerSumGrows ==
  ASSUME NEW rows \in Seq(Entry), NEW row \in Entry
  PROVE  /\ LedgerSum(rows) \in Int
         /\ LedgerSum(Append(rows, row)) = LedgerSum(rows) + row.amount
<1> DEFINE new == Append(rows, row)
           n == Len(rows) + 1
           f == [k \in DOMAIN rows |-> rows[k].amount]
           g == [k \in DOMAIN new |-> new[k].amount]
<1>1. /\ DOMAIN new = DOMAIN rows \cup {n} /\ n \notin DOMAIN rows
      /\ new[n] = row /\ \A k \in DOMAIN rows : new[k] = rows[k]
      /\ new \in Seq(Entry)
  BY AppendedRow
<1> HIDE DEF new, n
<1>2. /\ IsFiniteSet(DOMAIN rows)
      /\ \A k \in DOMAIN rows : f[k] \in Int /\ g[k] = f[k]
      /\ \A k \in DOMAIN rows \cup {n} : g[k] \in Int
      /\ g[n] = row.amount
  BY <1>1, LedgerNumbered
<1>3. SumFunctionOnSet(g, DOMAIN rows \cup {n}) = SumFunctionOnSet(g, DOMAIN rows) + g[n]
  <2> DEFINE D == DOMAIN rows
  <2>1. IsFiniteSet(D) /\ n \notin D /\ \A k \in D \cup {n} : g[k] \in Int
    BY <1>1, <1>2
  <2> HIDE DEF g, D
  <2>2. SumFunctionOnSet(g, D \cup {n}) = SumFunctionOnSet(g, D) + g[n]
    BY <2>1, SumAdd
  <2>3. QED
    BY <2>2 DEF D
<1>4. SumFunctionOnSet(g, DOMAIN rows) = SumFunctionOnSet(f, DOMAIN rows)
  <2> HIDE DEF f, g
  <2> QED BY <1>2, SumSame
<1>5. SumFunctionOnSet(f, DOMAIN rows) \in Int
  <2> HIDE DEF f
  <2> QED BY <1>2, SumType
<1>6. LedgerSum(rows) = SumFunctionOnSet(f, DOMAIN rows)
  BY DEF LedgerSum, SumFunction
<1>7. LedgerSum(new) = SumFunctionOnSet(g, DOMAIN new)
  BY DEF LedgerSum, SumFunction
<1>8. QED
  BY <1>1, <1>2, <1>3, <1>4, <1>5, <1>6, <1>7 DEF new

\* A new row adds to what was spent on rewards if, and only if, it is a redemption.
LEMMA SpentGrows ==
  ASSUME NEW rows \in Seq(Entry), NEW row \in Entry
  PROVE  /\ Spent(rows) \in Int
         /\ Spent(Append(rows, row)) =
              IF row.kind = "redeem" THEN Spent(rows) - row.amount ELSE Spent(rows)
<1> DEFINE new == Append(rows, row)
           n == Len(rows) + 1
           f == [k \in DOMAIN rows |-> -rows[k].amount]
           g == [k \in DOMAIN new |-> -new[k].amount]
           D == {k \in DOMAIN rows : rows[k].kind = "redeem"}
           E == {k \in DOMAIN new : new[k].kind = "redeem"}
<1>1. /\ DOMAIN new = DOMAIN rows \cup {n} /\ n \notin DOMAIN rows
      /\ new[n] = row /\ \A k \in DOMAIN rows : new[k] = rows[k]
      /\ new \in Seq(Entry)
  BY AppendedRow
<1> HIDE DEF new, n
<1>2. IsFiniteSet(D) /\ D \subseteq DOMAIN rows
  BY LedgerNumbered, FS_Subset
<1>3. /\ \A k \in DOMAIN rows : f[k] \in Int /\ g[k] = f[k]
      /\ \A k \in DOMAIN rows \cup {n} : g[k] \in Int
      /\ g[n] = -row.amount
  BY <1>1, LedgerNumbered
<1>4. E = IF row.kind = "redeem" THEN D \cup {n} ELSE D
  BY <1>1
<1>5. SumFunctionOnSet(g, D) = SumFunctionOnSet(f, D) /\ SumFunctionOnSet(f, D) \in Int
  <2> HIDE DEF f, g, D
  <2>1. \A k \in D : f[k] \in Int /\ g[k] = f[k]
    BY <1>2, <1>3
  <2>2. QED
    BY <1>2, <2>1, SumSame, SumType
<1>6. SumFunctionOnSet(g, D \cup {n}) = SumFunctionOnSet(g, D) + g[n]
  <2> HIDE DEF f, g, D
  <2>1. n \notin D /\ \A k \in D \cup {n} : g[k] \in Int
    BY <1>1, <1>2, <1>3
  <2>2. QED
    BY <1>2, <2>1, SumAdd
<1>7. Spent(rows) = SumFunctionOnSet(f, D)
  BY DEF Spent
<1>8. Spent(new) = SumFunctionOnSet(g, E)
  BY DEF Spent
<1>9. row.amount \in Int
  BY DEF Entry
<1>10. QED
  <2> HIDE DEF f, g, D, E
  <2> QED BY <1>3, <1>4, <1>5, <1>6, <1>7, <1>8, <1>9 DEF new

\* Whatever runs at once, the balance is the sum of the amounts of the ledger.
THEOREM BalanceIsTheSum == Spec => []BalanceIsLedgerSum
<1>1. Init => BalanceIsLedgerSum
  <2> SUFFICES ASSUME Init, NEW c \in Customers PROVE points[c] = LedgerSum(ledger[c])
    BY DEF BalanceIsLedgerSum
  <2>1. points[c] = 0 /\ DOMAIN ledger[c] = {}
    BY DEF Init
  <2>2. QED
    BY <2>1, SumEmpty DEF LedgerSum, SumFunction
<1>2. TypeOK /\ BalanceIsLedgerSum /\ [Next]_vars => BalanceIsLedgerSum'
  <2> SUFFICES ASSUME TypeOK, BalanceIsLedgerSum, [Next]_vars, NEW d \in Customers
               PROVE  points'[d] = LedgerSum(ledger'[d])
    BY DEF BalanceIsLedgerSum
  <2>1. points[d] = LedgerSum(ledger[d])
    BY DEF BalanceIsLedgerSum
  <2>2. CASE UNCHANGED <<points, ledger>>
    BY <2>1, <2>2
  <2>3. ASSUME NEW c \in Customers, NEW kind \in {"earn", "redeem", "adjust"},
               NEW amount \in Int, NEW order \in Orders \cup {None},
               WriteTransaction(c, kind, amount, order)
        PROVE  points'[d] = LedgerSum(ledger'[d])
    <3>1. PICK row \in Entry : ledger'[c] = Append(ledger[c], row) /\ row.amount = amount
      BY <2>3, WriteTypes
    <3>2. /\ points'[c] = points[c] + amount
          /\ \A e \in Customers \ {c} : points'[e] = points[e] /\ ledger'[e] = ledger[e]
      BY <2>3, WriteTypes
    <3>3. ledger[c] \in Seq(Entry)
      BY DEF TypeOK
    <3>4. LedgerSum(ledger'[c]) = LedgerSum(ledger[c]) + amount
      BY <3>1, <3>3, LedgerSumGrows
    <3>5. QED
      BY <2>1, <3>2, <3>4
  <2>4. QED
    BY <2>2, <2>3, WhoWrites DEF vars
<1>3. QED
  BY <1>1, <1>2, LoyaltyTyped, PTL DEF Spec

\* Multiplication distributes over one more.
LEMMA OneMoreTimes ==
  ASSUME NEW a \in Nat, NEW b \in Nat
  PROVE  (a + 1) * b = a * b + b
  OBVIOUS

\* One more redemption is worth the price of its reward.
LEMMA WorthGrows ==
  ASSUME NEW rewards \in [Rewards -> Nat], NEW i \in Rewards
  PROVE  /\ Worth(rewards) \in Int
         /\ Worth([rewards EXCEPT ![i] = @ + 1]) = Worth(rewards) + Price[i]
<1> DEFINE more == [rewards EXCEPT ![i] = @ + 1]
           f == [j \in Rewards |-> rewards[j] * Price[j]]
           g == [j \in Rewards |-> more[j] * Price[j]]
<1>1. /\ \A j \in Rewards : f[j] \in Int
      /\ \A j \in Rewards \ {i} : g[j] = f[j]
      /\ Price[i] \in Nat /\ g[i] = (rewards[i] + 1) * Price[i] /\ f[i] = rewards[i] * Price[i]
  <2>1. ASSUME NEW j \in Rewards PROVE rewards[j] * Price[j] \in Int
    <3>1. rewards[j] \in Nat /\ Price[j] \in Nat
      BY LoyaltyAssumption
    <3>2. QED
      BY <3>1
  <2>2. more[i] = rewards[i] + 1 /\ \A j \in Rewards \ {i} : more[j] = rewards[j]
    OBVIOUS
  <2>3. QED
    BY <2>1, <2>2, LoyaltyAssumption
<1>2. g[i] = f[i] + Price[i] /\ g[i] \in Int
  <2>1. rewards[i] \in Nat /\ Price[i] \in Nat
    BY <1>1
  <2>2. (rewards[i] + 1) * Price[i] = rewards[i] * Price[i] + Price[i]
    BY <2>1, OneMoreTimes
  <2>3. rewards[i] * Price[i] \in Int /\ g[i] = rewards[i] * Price[i] + Price[i]
    <3> HIDE DEF f, g
    <3>1. rewards[i] * Price[i] \in Int
      BY <2>1
    <3>2. QED
      BY <1>1, <2>2, <3>1
  <2>4. f[i] = rewards[i] * Price[i]
    BY <1>1
  <2>5. QED
    <3> HIDE DEF f, g
    <3> QED BY <2>1, <2>3, <2>4
<1>3. SumFunctionOnSet(g, Rewards) = SumFunctionOnSet(f, Rewards) - f[i] + g[i]
  <2> HIDE DEF f, g
  <2> QED BY <1>1, <1>2, LoyaltyAssumption, SumChange
<1>4. SumFunctionOnSet(f, Rewards) \in Int
  <2> HIDE DEF f
  <2> QED BY <1>1, LoyaltyAssumption, SumType
<1>5. Worth(rewards) = SumFunctionOnSet(f, Rewards)
  BY DEF Worth, SumFunction
<1>6. Worth(more) = SumFunctionOnSet(g, Rewards)
  BY DEF Worth, SumFunction
<1>7. QED
  <2>1. f[i] \in Int
    BY <1>1
  <2>2. Worth(more) = Worth(rewards) + Price[i]
    <3> HIDE DEF f, g, more
    <3> QED BY <1>1, <1>2, <1>3, <1>4, <1>5, <1>6, <2>1
  <2>3. QED
    BY <1>4, <1>5, <2>2

\* The redemptions of a reward are counted in naturals, and one more counts as one.
LEMMA GivenGrows ==
  ASSUME NEW g \in [Customers -> [Rewards -> Nat]], NEW i \in Rewards
  PROVE  /\ SumFunction([c \in Customers |-> g[c][i]]) \in Nat
         /\ \A d \in Customers, j \in Rewards :
              SumFunction([c \in Customers |-> [g EXCEPT ![d][j] = @ + 1][c][i]]) =
                SumFunction([c \in Customers |-> g[c][i]]) + (IF i = j THEN 1 ELSE 0)
<1> DEFINE f == [c \in Customers |-> g[c][i]]
<1>1. \A c \in Customers : f[c] \in Nat
  OBVIOUS
<1>2. SumFunctionOnSet(f, Customers) \in Nat
  <2> HIDE DEF f
  <2>1. (\A c \in Customers : f[c] \in Int) /\ (\A c \in Customers : f[c] >= 0)
    BY <1>1
  <2>2. QED
    BY <2>1, LoyaltyAssumption, SumType
<1>3. SumFunction(f) = SumFunctionOnSet(f, Customers)
  BY DEF SumFunction
<1>4. ASSUME NEW d \in Customers, NEW j \in Rewards
      PROVE  SumFunction([c \in Customers |-> [g EXCEPT ![d][j] = @ + 1][c][i]]) =
               SumFunction(f) + (IF i = j THEN 1 ELSE 0)
  <2> DEFINE h == [c \in Customers |-> [g EXCEPT ![d][j] = @ + 1][c][i]]
  <2>1. /\ \A c \in Customers \ {d} : h[c] = f[c]
        /\ h[d] = f[d] + (IF i = j THEN 1 ELSE 0)
    OBVIOUS
  <2>2. SumFunctionOnSet(h, Customers) = SumFunctionOnSet(f, Customers) - f[d] + h[d]
    <3> HIDE DEF f, h
    <3>1. (\A c \in Customers : f[c] \in Int) /\ h[d] \in Int
      BY <1>1, <2>1
    <3>2. QED
      BY <2>1, <3>1, LoyaltyAssumption, SumChange
  <2>3. SumFunction(h) = SumFunctionOnSet(h, Customers)
    BY DEF SumFunction
  <2>4. QED
    <3>1. f[d] \in Nat
      BY <1>1
    <3>2. SumFunction(h) = SumFunction(f) + (IF i = j THEN 1 ELSE 0)
      <4> HIDE DEF f, h
      <4> QED BY <1>2, <1>3, <2>1, <2>2, <2>3, <3>1
    <3>3. QED
      BY <3>2
<1>5. QED
  BY <1>2, <1>3, <1>4

\* The counter a catalog edit is about to write back was the counter once, so it does
\* not exceed the redemptions made since.
EditsBehind ==
  \A r \in Requests : pc[r] = "catalog" => job[r].seen <= Given(job[r].reward)

PaidForInv == TypeOK /\ RewardsPaidFor /\ EditsBehind

\* Nobody has redeemed anything at first.
LEMMA PaidForInit ==
  ASSUME Init
  PROVE  PaidForInv
<1>1. TypeOK
  BY LoyaltyTypeInit
<1>2. ASSUME NEW c \in Customers
      PROVE  Worth(given[c]) = Spent(ledger[c])
  <2> DEFINE f == [i \in Rewards |-> given[c][i] * Price[i]]
             z == [i \in Rewards |-> 0]
  <2>1. \A i \in Rewards : f[i] = 0
    BY LoyaltyAssumption DEF Init
  <2>2. SumFunctionOnSet(f, Rewards) = 0
    <3> HIDE DEF f
    <3> QED BY <2>1, LoyaltyAssumption, SumZero
  <2>3. Worth(given[c]) = 0
    BY <2>2 DEF Worth, SumFunction
  <2>4. {k \in DOMAIN ledger[c] : ledger[c][k].kind = "redeem"} = {}
    BY DEF Init
  <2>5. Spent(ledger[c]) = 0
    BY <2>4, SumEmpty DEF Spent
  <2>6. QED
    BY <2>3, <2>5
<1>3. ASSUME NEW i \in Rewards
      PROVE  redeemed[i] <= Given(i)
  <2>1. given \in [Customers -> [Rewards -> Nat]] /\ redeemed[i] = 0
    BY <1>1 DEF Init, TypeOK
  <2>2. SumFunction([c \in Customers |-> given[c][i]]) \in Nat
    BY <2>1, GivenGrows
  <2>3. Given(i) \in Nat
    BY <2>2 DEF Given
  <2>4. QED
    BY <2>1, <2>3
<1>4. EditsBehind
  BY DEF Init, EditsBehind
<1>5. QED
  BY <1>1, <1>2, <1>3, <1>4 DEF PaidForInv, RewardsPaidFor

\* A row that is no redemption leaves every account of redemptions as it is.
LEMMA OtherRowsPaidFor ==
  ASSUME TypeOK, RewardsPaidFor, NEW c \in Customers, NEW kind \in {"earn", "adjust"},
         NEW amount \in Int, NEW order \in Orders \cup {None},
         WriteTransaction(c, kind, amount, order), UNCHANGED <<redeemed, given>>
  PROVE  RewardsPaidFor'
<1>1. PICK row \in Entry : ledger'[c] = Append(ledger[c], row) /\ row.kind = kind
  BY WriteTypes
<1>2. \A d \in Customers \ {c} : ledger'[d] = ledger[d]
  BY WriteTypes
<1>3. ledger[c] \in Seq(Entry)
  BY DEF TypeOK
<1>4. Spent(ledger'[c]) = Spent(ledger[c])
  BY <1>1, <1>3, SpentGrows
<1>5. \A d \in Customers : Spent(ledger'[d]) = Spent(ledger[d])
  BY <1>2, <1>4
<1>6. QED
  BY <1>5 DEF RewardsPaidFor, Given

\* The first half of the invariant: rewards and redemption rows.
LEMMA PaidForStep ==
  ASSUME PaidForInv, [Next]_vars
  PROVE  RewardsPaidFor'
<1> USE DEF PaidForInv
<1>1. ASSUME UNCHANGED <<ledger, given, redeemed>>
      PROVE  RewardsPaidFor'
  BY <1>1 DEF RewardsPaidFor, Given
<1>2. ASSUME NEW c \in Customers, NEW a \in Amounts, NEW o \in Orders \cup {None},
             AdjustPoints(c, a, o)
      PROVE  RewardsPaidFor'
  <2>1. PICK kind \in {"earn", "adjust"} : WriteTransaction(c, kind, a, o)
    BY <1>2 DEF AdjustPoints
  <2>2. a \in Int /\ UNCHANGED <<redeemed, given>>
    BY <1>2, LoyaltyAssumption DEF AdjustPoints
  <2>3. QED
    BY <2>1, <2>2, OtherRowsPaidFor
<1>3. ASSUME NEW r \in Requests, RedeemCommit(r)
      PROVE  RewardsPaidFor'
  <2> DEFINE c == job[r].who
             i == job[r].reward
  <2>1. c \in Customers /\ i \in Rewards
    BY <1>3 DEF RedeemCommit, TypeOK
  <2>2. /\ WriteTransaction(c, "redeem", -Price[i], None)
        /\ redeemed' = [redeemed EXCEPT ![i] = @ + 1]
        /\ given' = [given EXCEPT ![c][i] = @ + 1]
    BY <1>3 DEF RedeemCommit
  <2> HIDE DEF c, i
  <2>3. given \in [Customers -> [Rewards -> Nat]] /\ ledger[c] \in Seq(Entry) /\ Price[i] \in Nat
    BY <2>1, LoyaltyAssumption DEF TypeOK
  <2>4. PICK row \in Entry : /\ ledger'[c] = Append(ledger[c], row)
                             /\ row.kind = "redeem" /\ row.amount = -Price[i]
    <3>1. -Price[i] \in Int
      BY <2>3
    <3>2. QED
      BY <2>1, <2>2, <3>1, WriteTypes
  <2>5. \A d \in Customers \ {c} : ledger'[d] = ledger[d]
    <3>1. -Price[i] \in Int
      BY <2>3
    <3>2. QED
      BY <2>1, <2>2, <3>1, WriteTypes
  <2>6. Spent(ledger'[c]) = Spent(ledger[c]) + Price[i]
    <3>1. Spent(ledger[c]) \in Int /\ Spent(ledger'[c]) = Spent(ledger[c]) - row.amount
      BY <2>3, <2>4, SpentGrows
    <3>2. QED
      BY <2>3, <2>4, <3>1
  <2>7. Worth(given'[c]) = Worth(given[c]) + Price[i]
    <3>1. given'[c] = [given[c] EXCEPT ![i] = @ + 1] /\ given[c] \in [Rewards -> Nat]
      BY <2>1, <2>2, <2>3
    <3>2. QED
      BY <2>1, <3>1, WorthGrows
  <2>8. \A d \in Customers : Worth(given'[d]) = Spent(ledger'[d])
    <3>1. \A d \in Customers \ {c} : given'[d] = given[d]
      BY <2>2, <2>3
    <3>2. \A d \in Customers : Worth(given[d]) = Spent(ledger[d])
      BY DEF RewardsPaidFor
    <3>3. QED
      BY <2>1, <2>5, <2>6, <2>7, <3>1, <3>2
  <2>9. ASSUME NEW j \in Rewards
        PROVE  redeemed'[j] <= Given(j)'
    <3>1. Given(j)' = Given(j) + (IF j = i THEN 1 ELSE 0) /\ Given(j) \in Nat
      <4>1. SumFunction([d \in Customers |-> [given EXCEPT ![c][i] = @ + 1][d][j]]) =
              SumFunction([d \in Customers |-> given[d][j]]) + (IF j = i THEN 1 ELSE 0)
        BY <2>1, <2>3, GivenGrows
      <4>2. SumFunction([d \in Customers |-> given[d][j]]) \in Nat
        BY <2>3, GivenGrows
      <4>3. QED
        BY <2>2, <4>1, <4>2 DEF Given
    <3>2. redeemed'[j] = IF j = i THEN redeemed[j] + 1 ELSE redeemed[j]
      BY <2>1, <2>2 DEF TypeOK
    <3>3. redeemed[j] <= Given(j) /\ redeemed[j] \in Nat
      BY DEF RewardsPaidFor, TypeOK
    <3>4. QED
      BY <3>1, <3>2, <3>3
  <2>10. QED
    BY <2>8, <2>9 DEF RewardsPaidFor
<1>4. ASSUME NEW r \in Requests, RefundCommit(r)
      PROVE  RewardsPaidFor'
  <2>1. /\ job[r].who \in Customers /\ -job[r].take \in Int
        /\ job[r].order \in Orders \cup {None}
    BY <1>4 DEF RefundCommit, TypeOK, Job
  <2>2. /\ WriteTransaction(job[r].who, "adjust", -job[r].take, job[r].order)
        /\ UNCHANGED <<redeemed, given>>
    BY <1>4 DEF RefundCommit
  <2>3. QED
    BY <2>1, <2>2, OtherRowsPaidFor
<1>5. ASSUME NEW r \in Requests, SaveReward(r)
      PROVE  RewardsPaidFor'
  <2>1. /\ redeemed' = [redeemed EXCEPT ![job[r].reward] = job[r].seen]
        /\ UNCHANGED <<ledger, given>> /\ job[r].reward \in Rewards
        /\ job[r].seen <= Given(job[r].reward)
    BY <1>5 DEF SaveReward, EditsBehind, TypeOK
  <2>2. \A j \in Rewards : redeemed'[j] = redeemed[j] \/ redeemed'[j] <= Given(j)
    BY <2>1 DEF TypeOK
  <2>3. \A j \in Rewards : redeemed'[j] <= Given(j)
    BY <2>2 DEF RewardsPaidFor
  <2>4. QED
    BY <2>1, <2>3 DEF RewardsPaidFor, Given
<1>6. QED
  BY <1>1, <1>2, <1>3, <1>4, <1>5
  DEF Next, RedeemRead, RefundRead, EditReward, Abort, vars

\* The second half: what the edits under way hold.
LEMMA EditsStayBehind ==
  ASSUME PaidForInv, [Next]_vars
  PROVE  EditsBehind'
<1> USE DEF PaidForInv
<1> SUFFICES ASSUME NEW q \in Requests, pc'[q] = "catalog",
                    NEW k, k = job'[q].reward, NEW n, n = job'[q].seen
             PROVE  n <= Given(k)'
  BY DEF EditsBehind, Given
<1>1. ASSUME NEW i \in Rewards
      PROVE  Given(i) \in Nat /\ Given(i)' \in Nat /\ Given(i) <= Given(i)'
  <2>1. given \in [Customers -> [Rewards -> Nat]]
    BY DEF TypeOK
  <2>2. Given(i) \in Nat
    BY <2>1, GivenGrows DEF Given
  <2>3. CASE UNCHANGED given
    BY <2>2, <2>3 DEF Given
  <2>4. ASSUME NEW r \in Requests, RedeemCommit(r)
        PROVE  Given(i)' \in Nat /\ Given(i) <= Given(i)'
    <3>1. /\ given' = [given EXCEPT ![job[r].who][job[r].reward] = @ + 1]
          /\ job[r].who \in Customers /\ job[r].reward \in Rewards
      BY <2>4 DEF RedeemCommit, TypeOK
    <3> DEFINE c == job[r].who
               j == job[r].reward
               sum == SumFunction([d \in Customers |-> given[d][i]])
    <3>2. SumFunction([d \in Customers |-> [given EXCEPT ![c][j] = @ + 1][d][i]]) =
            sum + (IF i = j THEN 1 ELSE 0)
      BY <2>1, <3>1, GivenGrows
    <3>3. Given(i)' = sum + (IF i = j THEN 1 ELSE 0)
      BY <3>1, <3>2 DEF Given
    <3>4. Given(i) = sum
      BY DEF Given
    <3>5. QED
      <4> HIDE DEF sum
      <4> QED BY <2>2, <3>3, <3>4
  <2>5. QED
    BY <2>2, <2>3, <2>4
    DEF Next, vars, AdjustPoints, RedeemRead, RefundRead, RefundCommit, EditReward,
        SaveReward, Abort
<1>2. ASSUME pc[q] = "catalog", job'[q] = job[q]
      PROVE  n <= Given(k)'
  <2>1. k = job[q].reward /\ n = job[q].seen
    BY <1>2
  <2>2. k \in Rewards /\ n \in Nat
    BY <1>2, <2>1 DEF TypeOK, Job
  <2>3. n <= Given(k)
    BY <1>2, <2>1 DEF EditsBehind
  <2>4. Given(k) <= Given(k)' /\ Given(k) \in Nat /\ Given(k)' \in Nat
    BY <1>1, <2>2
  <2>5. QED
    BY <2>2, <2>3, <2>4
<1>3. ASSUME NEW r \in Requests, NEW i \in Rewards, EditReward(r, i)
      PROVE  n <= Given(k)'
  <2>1. CASE q = r
    <3>1. /\ job'[q] = [NoJob EXCEPT !.reward = i, !.seen = redeemed[i]]
          /\ UNCHANGED given
      BY <1>3, <2>1 DEF EditReward, Begin, TypeOK
    <3>2. k = i /\ n = redeemed[i]
      BY <3>1 DEF NoJob
    <3>3. redeemed[i] <= Given(i)
      BY DEF RewardsPaidFor
    <3>4. n <= Given(k)
      BY <3>2, <3>3
    <3>5. QED
      BY <3>1, <3>4 DEF Given
  <2>2. CASE q # r
    <3>1. pc[q] = "catalog" /\ job'[q] = job[q]
      BY <1>3, <2>2 DEF EditReward, Begin, TypeOK
    <3>2. QED
      BY <1>2, <3>1
  <2>3. QED
    BY <2>1, <2>2
<1>4. ASSUME NEW r \in Requests, NEW l \in {"redeem", "refund"}, NEW j, Begin(r, l, j)
      PROVE  n <= Given(k)'
  <2>1. pc[q] = "catalog" /\ job'[q] = job[q]
    BY <1>4 DEF Begin, TypeOK
  <2>2. QED
    BY <1>2, <2>1
<1>5. ASSUME NEW r \in Requests, Finish(r)
      PROVE  n <= Given(k)'
  <2>1. pc[q] = "catalog" /\ job'[q] = job[q]
    BY <1>5 DEF Finish, TypeOK
  <2>2. QED
    BY <1>2, <2>1
<1>6. CASE UNCHANGED <<pc, job>>
  BY <1>2, <1>6
<1>7. QED
  BY <1>3, <1>4, <1>5, <1>6
  DEF Next, vars, AdjustPoints, RedeemRead, RedeemCommit, RefundRead, RefundCommit,
      SaveReward, Abort

\* However redemptions, refunds and catalog edits overlap, the rewards given to a
\* customer are worth the points that their redemption rows took, and the counter of a
\* reward never shows more redemptions than there were.
THEOREM RewardsArePaidFor == Spec => []RewardsPaidFor
<1>1. Init => PaidForInv
  BY PaidForInit
<1>2. PaidForInv /\ [Next]_vars => PaidForInv'
  BY LoyaltyTypeStep, PaidForStep, EditsStayBehind DEF PaidForInv
<1>3. PaidForInv => RewardsPaidFor
  BY DEF PaidForInv
<1>4. QED
  BY <1>1, <1>2, <1>3, PTL DEF Spec

-----------------------------------------------------------------------------
(* What is left of it when UsersService saves the same rows *)

\* The types of the account, and what holds of it in spite of stale saves.
AccountInv ==
  /\ TypeOK
  /\ editing \in [Editors -> Customers \cup {None}]
  /\ held \in [Editors -> Int]
  /\ NeverInDebt
  /\ RowsAddUp

\* The account starts with nothing owed.
LEMMA AccountInvInit ==
  ASSUME AccountInit
  PROVE  AccountInv
<1>1. TypeOK
  BY LoyaltyTypeInit DEF AccountInit
<1>2. QED
  BY <1>1 DEF AccountInit, Init, AccountInv, NeverInDebt, RowsAddUp

\* A row written by writeTransaction adds up, and leaves no debt.
LEMMA WriteAddsUp ==
  ASSUME AccountInv, NEW c \in Customers, NEW kind \in {"earn", "redeem", "adjust"},
         NEW amount \in Int, NEW order \in Orders \cup {None},
         Affordable(c, amount), WriteTransaction(c, kind, amount, order),
         UNCHANGED held
  PROVE  NeverInDebt' /\ RowsAddUp'
<1> USE DEF AccountInv
<1>1. PICK row \in Entry : /\ ledger'[c] = Append(ledger[c], row)
                           /\ row.before = points[c] /\ row.amount = amount
                           /\ row.after = points[c] + amount
  BY WriteTypes
<1>2. /\ points'[c] = points[c] + amount
      /\ \A d \in Customers \ {c} : points'[d] = points[d] /\ ledger'[d] = ledger[d]
  BY WriteTypes
<1>3. row.after = row.before + row.amount /\ row.before >= 0 /\ row.after >= 0
  BY <1>1 DEF Affordable, NeverInDebt
<1>4. NeverInDebt'
  BY <1>1, <1>2, <1>3 DEF NeverInDebt
<1>5. ASSUME NEW d \in Customers, NEW k \in DOMAIN ledger'[d]
      PROVE  /\ ledger'[d][k].after = ledger'[d][k].before + ledger'[d][k].amount
             /\ ledger'[d][k].before >= 0 /\ ledger'[d][k].after >= 0
  <2>1. CASE d # c
    BY <1>2, <1>5, <2>1 DEF RowsAddUp
  <2>2. CASE d = c
    <3>1. ledger[c] \in Seq(Entry)
      BY DEF TypeOK
    <3>2. ledger'[c][k] = row \/ (k \in DOMAIN ledger[c] /\ ledger'[c][k] = ledger[c][k])
      BY <1>1, <1>5, <2>2, <3>1
    <3>3. QED
      BY <1>3, <2>2, <3>2 DEF RowsAddUp
  <2>3. QED
    BY <2>1, <2>2
<1>6. QED
  BY <1>4, <1>5 DEF RowsAddUp

\* Every step keeps the account out of debt and its rows right.
LEMMA AccountInvStep ==
  ASSUME AccountInv, [AccountNext]_accountVars
  PROVE  AccountInv'
<1> USE DEF AccountInv
<1>1. CASE UNCHANGED accountVars
  BY <1>1, LoyaltyTypeStep DEF accountVars, vars, NeverInDebt, RowsAddUp
<1>2. CASE Next /\ UNCHANGED <<editing, held, edits>>
  <2>1. TypeOK'
    BY <1>2, LoyaltyTypeStep
  <2>2. NeverInDebt' /\ RowsAddUp'
    <3>1. CASE UNCHANGED <<points, ledger>>
      BY <1>2, <3>1 DEF NeverInDebt, RowsAddUp
    <3>2. CASE \E c \in Customers, kind \in {"earn", "redeem", "adjust"}, amount \in Int,
                  order \in Orders \cup {None} :
                 Affordable(c, amount) /\ WriteTransaction(c, kind, amount, order)
      BY <1>2, <3>2, WriteAddsUp
    <3>3. QED
      BY <1>2, <3>1, <3>2, WhoWrites
  <2>3. QED
    BY <1>2, <2>1, <2>2
<1>3. ASSUME NEW e \in Editors, SaveCustomer(e)
      PROVE  AccountInv'
  <2>1. editing[e] \in Customers
    BY <1>3 DEF SaveCustomer
  <2>2. points' \in [Customers -> Int] /\ \A c \in Customers : points'[c] >= 0
    BY <1>3, <2>1 DEF SaveCustomer, NeverInDebt, TypeOK
  <2>3. TypeOK'
    BY <1>3, <2>2 DEF SaveCustomer, TypeOK
  <2>4. held' \in [Editors -> Int] /\ \A f \in Editors : held'[f] >= 0
    BY <1>3 DEF SaveCustomer, NeverInDebt
  <2>5. RowsAddUp'
    BY <1>3 DEF SaveCustomer, RowsAddUp
  <2>6. QED
    BY <1>3, <2>2, <2>3, <2>4, <2>5 DEF SaveCustomer, NeverInDebt
<1>4. ASSUME NEW e \in Editors, NEW c \in Customers, LoadCustomer(e, c)
      PROVE  AccountInv'
  <2>1. TypeOK' /\ RowsAddUp'
    BY <1>4, LoyaltyTypeStep DEF LoadCustomer, vars, RowsAddUp
  <2>2. points[c] \in Int /\ points[c] >= 0
    BY DEF TypeOK, NeverInDebt
  <2>3. held' \in [Editors -> Int] /\ \A f \in Editors : held'[f] >= 0
    BY <1>4, <2>2 DEF LoadCustomer, NeverInDebt
  <2>4. QED
    BY <1>4, <2>1, <2>3 DEF LoadCustomer, vars, NeverInDebt
<1>5. QED
  BY <1>1, <1>2, <1>3, <1>4 DEF AccountNext

\* The invariant of the account holds in every reachable state.
LEMMA AccountInvariant == AccountSpec => []AccountInv
<1>1. AccountInit => AccountInv
  BY AccountInvInit
<1>2. AccountInv /\ [AccountNext]_accountVars => AccountInv'
  BY AccountInvStep
<1>3. QED
  BY <1>1, <1>2, PTL DEF AccountSpec

\* No customer's points go below zero, even when a profile is saved with a
\* balance that has changed since it was loaded.
THEOREM NeverInDebtHolds == AccountSpec => []NeverInDebt
<1>1. AccountInv => NeverInDebt
  BY DEF AccountInv
<1>2. QED
  BY <1>1, AccountInvariant, PTL

\* Each ledger row goes from the balance it found to the balance it left, both of
\* them legal, even when rows no longer carry on from one another.
THEOREM RowsAddUpHolds == AccountSpec => []RowsAddUp
<1>1. AccountInv => RowsAddUp
  BY DEF AccountInv
<1>2. QED
  BY <1>1, AccountInvariant, PTL
=============================================================================

------------------------------ MODULE Loyalty ------------------------------
(***************************************************************************)
(* LoyaltyService: the points of the customers, the ledger behind them and *)
(* the rewards they are exchanged for.                                     *)
(*                                                                         *)
(* writeTransaction locks the customer's row (SELECT ... FOR UPDATE), so   *)
(* it sees the committed balance and is one step with the commit.  What a  *)
(* caller has read before it, on other connections, may be stale by then.  *)
(***************************************************************************)
EXTENDS Integers, Sequences, FiniteSetsExt

CONSTANTS
  Customers,
  Rewards,     \* the items of the redemption catalog
  Orders,      \* the orders that ledger rows may refer to
  None,        \* no customer, reward or order
  Owner,       \* [Orders -> Customers]: don_hang.khach_hang_id
  Requests,    \* the requests served at the same time, by the slot they occupy
  Price,       \* [Rewards -> Nat]: diem_can
  Limit,       \* [Rewards -> Nat]: gioi_han_ton_kho
  Amounts,     \* the amounts an administrator may add to a balance
  MaxServed    \* bound: the requests served in all

ASSUME LoyaltyAssumption ==
  /\ IsFiniteSet(Customers) /\ IsFiniteSet(Rewards)
  /\ None \notin Customers \cup Rewards \cup Orders
  /\ Owner \in [Orders -> Customers]
  /\ Price \in [Rewards -> Nat]
  /\ Limit \in [Rewards -> Nat]
  /\ Amounts \subseteq Int
  /\ MaxServed \in Nat

VARIABLES
  points,    \* [Customers -> Int]         khach_hang.diem_hien_tai
  ledger,    \* [Customers -> Seq(Entry)]  loyalty_point_transaction, by id
  redeemed,  \* [Rewards -> Nat]           loyalty_redemption_catalog.so_da_doi
  given,     \* [Customers -> [Rewards -> Nat]]  the loyalty_redemption rows
  pc, job,   \* where each request is, and what it has read
  served     \* the requests begun so far

vars == <<points, ledger, redeemed, given, pc, job, served>>

Entry == [kind : {"earn", "redeem", "adjust"}, amount : Int,
          before : Int, after : Int, order : Orders \cup {None}]

\* seen: the soDaDoi a catalog edit has read; take: the points a refund will take.
Job == [who : Customers \cup {None}, reward : Rewards \cup {None},
        order : Orders \cup {None}, seen : Nat, take : Int]

NoJob == [who |-> None, reward |-> None, order |-> None, seen |-> 0, take |-> 0]

Begin(r, l, j) ==
  /\ pc[r] = "idle" /\ served < MaxServed /\ served' = served + 1
  /\ pc' = [pc EXCEPT ![r] = l] /\ job' = [job EXCEPT ![r] = j]

Finish(r) ==
  /\ pc' = [pc EXCEPT ![r] = "idle"] /\ job' = [job EXCEPT ![r] = NoJob]
  /\ UNCHANGED served

-----------------------------------------------------------------------------
Init ==
  /\ points = [c \in Customers |-> 0]
  /\ ledger = [c \in Customers |-> <<>>]
  /\ redeemed = [i \in Rewards |-> 0]
  /\ given = [c \in Customers |-> [i \in Rewards |-> 0]]
  /\ pc = [r \in Requests |-> "idle"]
  /\ job = [r \in Requests |-> NoJob]
  /\ served = 0

\* Mutant of Affordable: the balance is not checked.
AffordableUnchecked(c, amount) == TRUE

\* writeTransaction: the balance and its ledger row change together, or an error
\* is thrown because the balance would fall below zero.
Affordable(c, amount) == points[c] + amount >= 0

\* Mutant of WriteTransaction: the balance is not written.
WriteTransactionLedgerOnly(c, kind, amount, order) ==
  /\ ledger' = [ledger EXCEPT ![c] =
       Append(@, [kind |-> kind, amount |-> amount, before |-> points[c],
                  after |-> points[c] + amount, order |-> order])]
  /\ UNCHANGED points

\* Mutant of WriteTransaction: the row shows the balance it started from twice.
WriteTransactionOldAfter(c, kind, amount, order) ==
  /\ points' = [points EXCEPT ![c] = @ + amount]
  /\ ledger' = [ledger EXCEPT ![c] =
       Append(@, [kind |-> kind, amount |-> amount, before |-> points[c],
                  after |-> points[c], order |-> order])]

WriteTransaction(c, kind, amount, order) ==
  /\ points' = [points EXCEPT ![c] = @ + amount]
  /\ ledger' = [ledger EXCEPT ![c] =
       Append(@, [kind |-> kind, amount |-> amount, before |-> points[c],
                  after |-> points[c] + amount, order |-> order])]

\* An administrator's correction; it may refer to an order.
AdjustPoints(c, amount, order) ==
  /\ served < MaxServed /\ served' = served + 1
  /\ Affordable(c, amount)
  /\ WriteTransaction(c, IF amount >= 0 THEN "earn" ELSE "adjust", amount, order)
  /\ UNCHANGED <<redeemed, given, pc, job>>

-----------------------------------------------------------------------------
(* redeemPoints *)

\* Mutant of RedeemRead: so_da_doi is incremented as soon as the limit is checked.
RedeemReadCounting(r, c, i) ==
  /\ redeemed[i] < Limit[i]
  /\ Begin(r, "redeem", [NoJob EXCEPT !.who = c, !.reward = i])
  /\ redeemed' = [redeemed EXCEPT ![i] = @ + 1]
  /\ UNCHANGED <<points, ledger, given>>

\* Mutant of RedeemRead: the customer is lost on the way to the service.
RedeemReadNoCustomer(r, c, i) ==
  /\ redeemed[i] < Limit[i]
  /\ Begin(r, "redeem", [NoJob EXCEPT !.reward = i])
  /\ UNCHANGED <<points, ledger, redeemed, given>>

\* The catalog row is read, and its limit checked, on another connection.
RedeemRead(r, c, i) ==
  /\ redeemed[i] < Limit[i]
  /\ Begin(r, "redeem", [NoJob EXCEPT !.who = c, !.reward = i])
  /\ UNCHANGED <<points, ledger, redeemed, given>>

\* The points are paid, the counter incremented and the reward recorded.
RedeemCommit(r) ==
  LET c == job[r].who  i == job[r].reward IN
  /\ pc[r] = "redeem" /\ Affordable(c, -Price[i])
  /\ WriteTransaction(c, "redeem", -Price[i], None)
  /\ redeemed' = [redeemed EXCEPT ![i] = @ + 1]
  /\ given' = [given EXCEPT ![c][i] = @ + 1]
  /\ Finish(r)

-----------------------------------------------------------------------------
(* deductPointsForReturn, in the transaction of processRefund *)

\* The row that earned points for the order is looked up, and the balance is
\* read without a lock: a refund takes the points back as far as they are there.
RefundRead(r, o) ==
  /\ \E c \in Customers : \E k \in DOMAIN ledger[c] :
       /\ ledger[c][k].kind = "earn" /\ ledger[c][k].order = o
       /\ ledger[c][k].amount > 0
       /\ Begin(r, "refund", [NoJob EXCEPT !.who = Owner[o], !.order = o,
                 !.take = IF ledger[c][k].amount <= points[Owner[o]]
                          THEN ledger[c][k].amount ELSE points[Owner[o]]])
  /\ UNCHANGED <<points, ledger, redeemed, given>>

RefundCommit(r) ==
  /\ pc[r] = "refund" /\ Affordable(job[r].who, -job[r].take)
  /\ WriteTransaction(job[r].who, "adjust", -job[r].take, job[r].order)
  /\ Finish(r)
  /\ UNCHANGED <<redeemed, given>>

-----------------------------------------------------------------------------
(* updateCatalogItem: the row is read, then saved with all its columns *)

EditReward(r, i) ==
  /\ Begin(r, "catalog", [NoJob EXCEPT !.reward = i, !.seen = redeemed[i]])
  /\ UNCHANGED <<points, ledger, redeemed, given>>

SaveReward(r) ==
  /\ pc[r] = "catalog"
  /\ redeemed' = [redeemed EXCEPT ![job[r].reward] = job[r].seen]
  /\ Finish(r)
  /\ UNCHANGED <<points, ledger, given>>

-----------------------------------------------------------------------------
\* The transaction is rolled back: the points do not suffice, or the connection
\* or the process is lost.
Abort(r) ==
  /\ pc[r] # "idle"
  /\ Finish(r)
  /\ UNCHANGED <<points, ledger, redeemed, given>>

Next ==
  \/ \E c \in Customers, a \in Amounts, o \in Orders \cup {None} : AdjustPoints(c, a, o)
  \/ \E r \in Requests :
       \/ \E c \in Customers, i \in Rewards : RedeemRead(r, c, i)
       \/ RedeemCommit(r)
       \/ \E o \in Orders : RefundRead(r, o)
       \/ RefundCommit(r)
       \/ \E i \in Rewards : EditReward(r, i)
       \/ SaveReward(r)
       \/ Abort(r)

Spec == Init /\ [][Next]_vars

-----------------------------------------------------------------------------
\* The type of every variable.
TypeOK ==
  /\ points \in [Customers -> Int]
  /\ ledger \in [Customers -> Seq(Entry)]
  /\ redeemed \in [Rewards -> Nat]
  /\ given \in [Customers -> [Rewards -> Nat]]
  /\ pc \in [Requests -> {"idle", "redeem", "refund", "catalog"}]
  /\ job \in [Requests -> Job]
  /\ served \in Nat
  /\ \A r \in Requests : pc[r] \in {"redeem", "refund"} => job[r].who \in Customers
  /\ \A r \in Requests : pc[r] \in {"redeem", "catalog"} => job[r].reward \in Rewards

\* Every row carries on from the balance of the row before it, never goes below
\* zero, and the last one is the balance shown to the customer: no two handlers
\* ever write from the same balance.
LedgerChains ==
  \A c \in Customers :
    LET rows == ledger[c]  last == Len(rows) IN
    /\ \A k \in 1..last :
         /\ rows[k].before = IF k = 1 THEN 0 ELSE rows[k - 1].after
         /\ rows[k].after = rows[k].before + rows[k].amount
         /\ rows[k].after >= 0
    /\ points[c] = IF last = 0 THEN 0 ELSE rows[last].after

LedgerSum(rows) == SumFunction([k \in DOMAIN rows |-> rows[k].amount])

\* The balance is the sum of the ledger, which is its authoritative source.
BalanceIsLedgerSum == \A c \in Customers : points[c] = LedgerSum(ledger[c])

Spent(rows) ==
  SumFunctionOnSet([k \in DOMAIN rows |-> -rows[k].amount],
                   {k \in DOMAIN rows : rows[k].kind = "redeem"})

Worth(rewards) == SumFunction([i \in Rewards |-> rewards[i] * Price[i]])

Given(i) == SumFunction([c \in Customers |-> given[c][i]])

\* Every reward was paid for: each redemption row has a ledger row of its price.  And
\* so_da_doi never shows more redemptions than there were, whatever a catalog edit
\* writes back: no reward is refused as exhausted before its limit is reached.
RewardsPaidFor ==
  /\ \A c \in Customers : Worth(given[c]) = Spent(ledger[c])
  /\ \A i \in Rewards : redeemed[i] <= Given(i)
=============================================================================

------------------------------ MODULE Reports ------------------------------
(***************************************************************************)
(* The nightly snapshot of customer segments: ReportProcessor,             *)
(* ReportsComputeService and the summary that ReportsQueryService keeps in *)
(* Redis.  Bull starts the job each night and again after a crash.  The    *)
(* job of the inventory report has the same steps.                         *)
(***************************************************************************)
EXTENDS Handlers, FiniteSetsExt

CONSTANTS
  Buyers,        \* the customers
  Purchases,     \* records of days since the last order, number of orders, amount
  Populations,   \* bound: what the customers may have bought by the first night ...
  LaterOnes      \* ... and by another

VARIABLES
  bought,        \* what each active customer has bought
  rfm,           \* report_rfm_snapshot by customer
  summary,       \* what Redis has of the customers of each segment: nothing, or one table
  jobLog,        \* the status of the last row of report_job_log
  computed,      \* auxiliary: the table that the last job is to leave
  tornSnapshot   \* auxiliary: a job ended after it emptied the table

reportVars == <<bought, rfm, summary, jobLog, computed, tornSnapshot>>

Segments == {"Champions", "Loyal", "Potential", "Promising", "At Risk", "Lost", "New", "Hibernating"}
Row == [purchase : Purchases, segment : Segments]

ReportsInit ==
  /\ bought \in Populations
  /\ rfm = <<>> /\ summary = {} /\ jobLog = "none" /\ computed = <<>> /\ tornSnapshot = FALSE

-----------------------------------------------------------------------------
(* The scores *)

\* quintile: which fifth the share of the values up to v falls into, in a table of counts.
quintile(value, c) ==
  LET upTo == Cardinality({d \in DOMAIN value : value[d] <= value[c]}) IN
  Min({q \in 1..5 : 5 * upTo <= q * Cardinality(DOMAIN value)})

RFM_SEGMENTS(r, f, m) ==
  << <<"Champions",   r >= 5 /\ f >= 4 /\ m >= 4>>,
     <<"Loyal",       f >= 4 /\ m >= 3>>,
     <<"Potential",   r >= 4 /\ f <= 2>>,
     <<"Promising",   r >= 3 /\ f <= 2 /\ m <= 2>>,
     <<"At Risk",     r <= 2 /\ f >= 3>>,
     <<"Lost",        r = 1 /\ f >= 2>>,
     <<"New",         r >= 4 /\ f = 1>>,
     <<"Hibernating", TRUE>> >>

SegmentOf(r, f, m) ==
  LET tests == RFM_SEGMENTS(r, f, m) IN tests[Min({i \in DOMAIN tests : tests[i][2]})][1]

Field(f, B) == [c \in DOMAIN B |-> B[c][f]]

\* Mutant of Snapshot: the more days, the higher the first score.
SnapshotByDays(B) ==
  [c \in DOMAIN B |->
     [purchase |-> B[c],
      segment |-> SegmentOf(quintile(Field("days", B), c),
                            quintile(Field("count", B), c), quintile(Field("amount", B), c))]]

\* The rows that a job computes; the fewer days, the higher the first score.
Snapshot(B) ==
  [c \in DOMAIN B |->
     [purchase |-> B[c],
      segment |-> SegmentOf(6 - quintile(Field("days", B), c),
                            quintile(Field("count", B), c), quintile(Field("amount", B), c))]]

\* getRfmSummary: how many customers each segment of the table has.
SummaryOf(table) ==
  [s \in {table[c].segment : c \in DOMAIN table} |-> Cardinality({c \in DOMAIN table : table[c].segment = s})]

-----------------------------------------------------------------------------
(* The job *)

StartJobLog(r) ==
  /\ Begin(r, "compute", [rows |-> <<>>]) /\ jobLog' = "running"
  /\ UNCHANGED <<bought, rfm, summary, computed, tornSnapshot>>

\* computeRfmSnapshot: what customers have bought; without any, the table stays ...
ComputeRfm(r) ==
  /\ pc[r] = "compute"
  /\ computed' = IF bought = <<>> THEN rfm ELSE Snapshot(bought)
  /\ Continue(r, IF bought = <<>> THEN "finish" ELSE "truncate", [rows |-> Snapshot(bought)])
  /\ UNCHANGED <<bought, rfm, summary, jobLog, tornSnapshot>>

\* ... the TRUNCATE, which commits ...
Truncate(r) ==
  /\ pc[r] = "truncate" /\ rfm' = <<>> /\ Continue(r, "save", job[r])
  /\ UNCHANGED <<bought, summary, jobLog, computed, tornSnapshot>>

\* ... and the rows, in one transaction.
SaveRows(r) ==
  /\ pc[r] = "save"
  /\ rfm' = [c \in DOMAIN rfm \cup DOMAIN job[r].rows |->
       IF c \in DOMAIN job[r].rows THEN job[r].rows[c] ELSE rfm[c]]
  /\ Continue(r, "finish", job[r])
  /\ UNCHANGED <<bought, summary, jobLog, computed, tornSnapshot>>

FinishJobLog(r) ==
  /\ pc[r] = "finish" /\ jobLog' = "success" /\ Continue(r, "invalidate", job[r])
  /\ UNCHANGED <<bought, rfm, summary, computed, tornSnapshot>>

InvalidateRfmCache(r) ==
  /\ pc[r] = "invalidate" /\ summary' = {} /\ tornSnapshot' = FALSE /\ Finish(r)
  /\ UNCHANGED <<bought, rfm, jobLog, computed>>

Torn(r) == tornSnapshot \/ pc[r] \in {"save", "finish", "invalidate"}

\* An error anywhere in the job is written to its log, also one after its success.
FailJobLog(r) ==
  /\ pc[r] \in {"compute", "truncate", "save", "finish", "invalidate"} /\ Finish(r)
  /\ jobLog' = "failed" /\ tornSnapshot' = Torn(r)
  /\ UNCHANGED <<bought, rfm, summary, computed>>

Abandon(r) ==
  /\ GiveUp(r) /\ tornSnapshot' = Torn(r)
  /\ UNCHANGED <<bought, rfm, summary, jobLog, computed>>

-----------------------------------------------------------------------------
(* The report *)

\* getRfmSummary, when Redis has none: the rows ...
LoadSummary(r) ==
  /\ summary = {} /\ Begin(r, "fill", [summary |-> SummaryOf(rfm)]) /\ UNCHANGED reportVars

\* ... and the entry, for half an hour.
FillSummary(r) ==
  /\ pc[r] = "fill" /\ summary' = {job[r].summary} /\ Finish(r)
  /\ UNCHANGED <<bought, rfm, jobLog, computed, tornSnapshot>>

SummaryExpires ==
  /\ summary' = {} /\ UNCHANGED <<handling, bought, rfm, jobLog, computed, tornSnapshot>>

\* By the next night customers have bought, come or been locked.
Trade ==
  /\ bought' \in LaterOnes /\ UNCHANGED <<handling, rfm, summary, jobLog, computed, tornSnapshot>>

Next ==
  \/ SummaryExpires \/ Trade
  \/ \E r \in Requests :
       \/ StartJobLog(r) \/ ComputeRfm(r) \/ Truncate(r) \/ SaveRows(r) \/ FinishJobLog(r)
       \/ InvalidateRfmCache(r) \/ FailJobLog(r) \/ Abandon(r) \/ LoadSummary(r) \/ FillSummary(r)

-----------------------------------------------------------------------------
TypeOK ==
  /\ bought \in UNION {[S -> Purchases] : S \in SUBSET Buyers}
  /\ DOMAIN rfm \subseteq Buyers /\ \A c \in DOMAIN rfm : rfm[c] \in Row
  /\ jobLog \in {"none", "running", "success", "failed"}
  /\ \A s \in summary : DOMAIN s \subseteq Segments /\ \A g \in DOMAIN s : s[g] \in 1..Cardinality(Buyers)
  /\ Cardinality(summary) <= 1

\* p is as late, as often and as much as q.
Dominates(p, q) == p.days <= q.days /\ p.count >= q.count /\ p.amount >= q.amount

\* While jobs do not overlap, whoever has bought as lately, as often and for as much as another
\* is a champion or loyal if the other one is, and at risk or lost only if the other one is,
\* or hibernates.
SegmentsFollowPurchases ==
  \A c, d \in DOMAIN rfm :
    Dominates(rfm[c].purchase, rfm[d].purchase) =>
      /\ rfm[d].segment = "Champions" => rfm[c].segment = "Champions"
      /\ rfm[d].segment = "Loyal" => rfm[c].segment \in {"Champions", "Loyal"}
      /\ rfm[c].segment \in {"At Risk", "Lost"}
           => rfm[d].segment \in {"At Risk", "Lost", "Hibernating"}

\* While jobs do not overlap, a job whose log says success has left the rows it computed
\* (or those there were, when nobody had bought), and
\* the summary counts those of the table, unless a job ended between the two.
LogTellsTheTable ==
  (\A r \in Requests : pc[r] = "idle") =>
    /\ jobLog = "success" => rfm = computed
    /\ ~tornSnapshot => summary \subseteq {SummaryOf(rfm)}
=============================================================================

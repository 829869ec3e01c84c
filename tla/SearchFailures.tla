--------------------------- MODULE SearchFailures ---------------------------
(***************************************************************************)
(* Samples of failed searches and their retention.                         *)
(*                                                                         *)
(* A failed search keeps its query, encrypted, for less than a week; the   *)
(* app may add what it saw; an operator's report shows samples; a sweep,   *)
(* run every minute by its own process, deletes what has expired.          *)
(***************************************************************************)
EXTENDS Integers, FiniteSets, SequencesExt, Common

CONSTANTS
  Sample,        \* sample ids
  Searcher,      \* user ids, as their keyed hashes
  FailedQuery,   \* queries, as their keyed digests
  FailureReason, \* reasons, "generic" among them if the app may give none
  Journey,       \* search journeys of the app
  Kept,          \* SAMPLE_RETENTION_MS
  Batch,         \* batch_size
  MaxBatches,    \* max_batches
  LastDay,       \* bound of the clock
  SampleAtStart, \* samples of an older version, whose retries extended their expiry
  SampleBudget   \* bound of reports of the app and of the operator, and of sweeps

\* A row of SearchFailureSample.
SampleRow == [owner : Searcher, query : FailedQuery, source : {"backend", "backend_and_app"},
              reason : FailureReason \cup {"generic"}, journey : Journey \cup {None},
              created : Int, expires : Int]

ASSUME SampleAssumption ==
  /\ Kept \in Nat /\ Batch \in Nat \ {0}
  /\ \A i \in DOMAIN SampleAtStart : SampleAtStart[i] \in SampleRow

VARIABLES
  sample,     \* SearchFailureSample, None without a row
  today,      \* the clock
  sweep,      \* the cleanup process
  sweepLog,   \* SearchFailureCleanupStatus
  report,     \* an operator's report in progress
  sampleLeft  \* what is left of SampleBudget

sampleVars == <<sample, today, sweep, sweepLog, report, sampleLeft>>

SampleSpend(e) == sampleLeft[e] > 0 /\ sampleLeft' = [sampleLeft EXCEPT ![e] = @ - 1]

NoSweep == [pc |-> "sleep"]
NoReport == [pc |-> "none", shown |-> {}]

Rows == {i \in Sample : sample[i] # None}

\* effective_expiry_ms, sample_is_live.
Expiry(row) == IF row.expires < row.created + Kept THEN row.expires ELSE row.created + Kept
LiveAt(row, t) == row.created <= t /\ t < Expiry(row)
Expired(t) == {i \in Rows : Expiry(sample[i]) <= t}

SampleInit ==
  /\ sample = [i \in Sample |-> IF i \in DOMAIN SampleAtStart THEN SampleAtStart[i] ELSE None]
  /\ today = 0
  /\ sweep = NoSweep
  /\ sweepLog = [outcome |-> "never_run", success |-> None]
  /\ report = NoReport
  /\ sampleLeft = SampleBudget

SampleTick ==
  /\ today < LastDay
  /\ today' = today + 1
  /\ UNCHANGED <<sample, sweep, sweepLog, report, sampleLeft>>

-----------------------------------------------------------------------------
(* SearchFailureService.record. *)

\* A search without a result: only the search handler creates samples.
Capture(i, u, q, reason) ==
  /\ sample[i] = None
  /\ sample' = [sample EXCEPT ![i] = [owner |-> u, query |-> q, source |-> "backend", reason |-> reason,
                                      journey |-> None, created |-> today, expires |-> today + Kept]]
  /\ UNCHANGED <<today, sweep, sweepLog, report, sampleLeft>>

\* report_app_search_failure: the row is locked before it is read; a sample that is
\* foreign, gone, expired or about something else is acknowledged and left alone.
AppReport(i, u, q, journey, reason) ==
  /\ SampleSpend("app")
  /\ i \in Rows
  /\ LET row == sample[i]
     IN /\ row.owner = u /\ row.query = q /\ LiveAt(row, today)
        /\ row.journey \in {None, journey}
        /\ sample' = [sample EXCEPT ![i] =
             [row EXCEPT !.source = "backend_and_app",
                         !.reason = IF reason = "generic" THEN row.reason ELSE reason,
                         !.journey = journey,
                         !.expires = Expiry(row)]]
  /\ UNCHANGED <<today, sweep, sweepLog, report>>

-----------------------------------------------------------------------------
(* get_search_failure_report. *)

\* recent: what is live, read once.
ReportSelect ==
  /\ report.pc = "none"
  /\ SampleSpend("report")
  /\ report' = [pc |-> "read", all |-> {[id |-> i, row |-> sample[i]] : i \in {j \in Rows : LiveAt(sample[j], today)}},
                left |-> {i \in Rows : LiveAt(sample[i], today)}, shown |-> {}]
  /\ UNCHANGED <<sample, today, sweep, sweepLog>>

\* One sample is decrypted, if it still may be.
ReportItem(c) ==
  /\ report.pc = "read" /\ c \in report.all /\ c.id \in report.left
  /\ report' = [report EXCEPT !.left = @ \ {c.id}, !.shown = IF LiveAt(c.row, today) THEN @ \cup {c} ELSE @]
  /\ UNCHANGED <<sample, today, sweep, sweepLog, sampleLeft>>

\* Mutant: what was selected is counted and shown.
StillShownAll(c) == TRUE

\* The last check, after all processing.
StillShown(c) == LiveAt(c.row, today)

ReportAnswer ==
  /\ report.pc = "read" /\ report.left = {}
  /\ report' = [pc |-> "answered", shown |-> {c \in report.shown : StillShown(c)},
                count |-> Cardinality({c \in report.all : StillShown(c)}), at |-> today]
  /\ UNCHANGED <<sample, today, sweep, sweepLog, sampleLeft>>

ReportOver ==
  /\ report.pc = "answered"
  /\ report' = NoReport
  /\ UNCHANGED <<sample, today, sweep, sweepLog, sampleLeft>>

-----------------------------------------------------------------------------
(* run_cleanup. *)

SweepStart ==
  /\ sweep.pc = "sleep"
  /\ SampleSpend("sweep")
  /\ sweep' = [pc |-> "batch", started |-> today, batches |-> 0, outcome |-> "running"]
  /\ sweepLog' = [sweepLog EXCEPT !.outcome = "running"]
  /\ UNCHANGED <<sample, today, report>>

\* At most a batch of a set; the statement orders by expiry, which is left open here.
Batches(set) ==
  {part \in SUBSET set : Cardinality(part) = IF Cardinality(set) < Batch THEN Cardinality(set) ELSE Batch}

Extended == {i \in Rows : sample[i].expires > sample[i].created + Kept}

\* A batch is one transaction: it deletes what has expired and shortens what an older
\* version extended.
SweepBatch ==
  /\ sweep.pc = "batch" /\ sweep.batches < MaxBatches
  /\ \E gone \in Batches(Expired(today)), long \in Batches(Extended \ Expired(today)) :
       /\ sample' = [i \in Sample |-> IF i \in gone THEN None
                                     ELSE IF i \in long THEN [sample[i] EXCEPT !.expires = sample[i].created + Kept]
                                     ELSE sample[i]]
       /\ sweep' = [sweep EXCEPT !.batches = @ + 1,
                                 !.pc = IF Cardinality(gone) < Batch /\ Cardinality(long) < Batch THEN "assess" ELSE "batch"]
  /\ UNCHANGED <<today, sweepLog, report, sampleLeft>>

\* The batches are used up, or the deadline has passed between two.
SweepStop ==
  /\ sweep.pc = "batch"
  /\ \/ sweep.batches = MaxBatches /\ sweep' = [sweep EXCEPT !.pc = "assess"]
     \/ sweep' = [sweep EXCEPT !.pc = "assess", !.outcome = "deadline_exceeded"]
  /\ UNCHANGED <<sample, today, sweepLog, report, sampleLeft>>

\* The outcome, and the checkpoint of the log, which a reader may keep from completing.
SweepAssess ==
  /\ sweep.pc = "assess"
  /\ LET verdict == IF sweep.outcome = "deadline_exceeded" THEN sweep.outcome
                    ELSE IF Expired(today) # {} \/ Extended # {} THEN "bounded_backlog" ELSE "success"
     IN \E outcome \in {verdict, "checkpoint_busy"} : sweep' = [sweep EXCEPT !.pc = "save", !.outcome = outcome]
  /\ UNCHANGED <<sample, today, sweepLog, report, sampleLeft>>

\* Mutant: the verdict is not looked at again under the lock.
FinalOutcomeEarly(outcome) == outcome

FinalOutcome(outcome) == IF outcome = "success" /\ Expired(today) # {} THEN "bounded_backlog" ELSE outcome

\* _save_status: an unsuccessful sweep keeps the time of the last success.
SweepSave ==
  /\ sweep.pc = "save"
  /\ LET outcome == FinalOutcome(sweep.outcome)
     IN sweepLog' = [outcome |-> outcome, success |-> IF outcome = "success" THEN today ELSE sweepLog.success]
  /\ sweep' = NoSweep
  /\ UNCHANGED <<sample, today, report, sampleLeft>>

\* A statement fails or the deadline interrupts it; the failure is saved if it can be.
SweepFail ==
  /\ sweep.pc # "sleep"
  /\ sweep' = NoSweep
  /\ \E outcome \in {sweepLog.outcome, "cleanup_failed"} : sweepLog' = [sweepLog EXCEPT !.outcome = outcome]
  /\ UNCHANGED <<sample, today, report, sampleLeft>>

SampleNext ==
  \/ SampleTick
  \/ \E i \in Sample, u \in Searcher, q \in FailedQuery, reason \in FailureReason :
       \/ Capture(i, u, q, reason)
       \/ \E journey \in Journey : AppReport(i, u, q, journey, reason)
  \/ ReportSelect \/ ReportAnswer \/ ReportOver
  \/ report.pc = "read" /\ \E c \in report.all : ReportItem(c)
  \/ SweepStart \/ SweepBatch \/ SweepStop \/ SweepAssess \/ SweepSave \/ SweepFail

SampleSpec == SampleInit /\ [][SampleNext]_sampleVars

-----------------------------------------------------------------------------
(* Properties. *)

\* A report that takes long, runs while a sweep deletes, and shows samples whose expiry
\* an older version extended, answers nothing, not even a count, of a sample past its
\* retention.
ReportedLive ==
  report.pc = "answered" =>
    /\ \A c \in report.shown : report.at < c.row.created + Kept
    /\ report.count = Cardinality({c \in report.shown : report.at < c.row.created + Kept})

\* A sweep that is recorded as a success, bounded batches and captures in between
\* notwithstanding, has left nothing that had expired when it was recorded.
SuccessMeansSwept ==
  [][sweepLog'.success # sweepLog.success =>
       \A i \in Sample : sample[i] # None => today < sample[i].created + Kept]_sampleVars
=============================================================================

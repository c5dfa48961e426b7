------------------------------- MODULE Reports ------------------------------
(***************************************************************************)
(* Scheduled reports (pkg/reports/dispatch, pkg/api/v1/reports, the report *)
(* rows of pkg/store/bolt).  Every node runs a dispatcher, one goroutine:  *)
(* each minute it lists the rows that are due and sends them one after the *)
(* other, and in between it takes what SendNow queued.  A send reads the   *)
(* row, renders, tries to mail with growing delays, and writes the row     *)
(* back whole with the next time its cron expression gives.                *)
(*                                                                         *)
(* NextFireAt is "zero", "later" or "due".  The delays are left out, and   *)
(* so are the run rows: they are written, or fail to be written, without   *)
(* any effect on what is sent.  The process always has a mailer            *)
(* (RunUnified passes mailer.New), configured or not.                      *)
(***************************************************************************)
EXTENDS Boot, Naturals, Sequences

CONSTANTS
    ReportNodes, ReportIDs, NoReport,
    Parsable,        \* the reports whose cron expression parses
    QueueCap,        \* capacity of Dispatcher.enqueued
    Attempts,        \* len(delays)
    MaxReportEdits,  \* bound: writes by administrators
    MaxSendNows,     \* bound: SendNow requests
    MaxReportFaults  \* bound: crashes of dispatching nodes and reads that fail

ASSUME ReportsAssumption ==
    /\ Parsable \subseteq ReportIDs
    /\ QueueCap \in Nat \ {0} /\ Attempts \in Nat \ {0}
    /\ MaxReportEdits \in Nat /\ MaxSendNows \in Nat /\ MaxReportFaults \in Nat

ReportRow == [enabled : BOOLEAN, next : {"zero", "later", "due"}]

VARIABLES
    reports,     \* stored rows
    due,         \* node -> reports of this pass still to be sent
    queue,       \* node -> reports queued by SendNow
    job,         \* node -> the send in progress
    odd,         \* history: the reports sent an odd number of times so far
    unscheduled, \* history: saved by an administrator and not put on schedule since
    reportEdits, sendNows, reportFaults

dispatchVars == <<due, queue, job>>
reportBounds == <<reportEdits, sendNows, reportFaults>>
reportsVars == <<reports, dispatchVars, odd, unscheduled, reportBounds>>

Job == [report : ReportIDs, row : ReportRow, step : {"mail", "advance"},
        attempt : 1..Attempts]

ReportsInit ==
    /\ reports \in Finds("reports", [ReportIDs -> {NoReport, [enabled |-> TRUE, next |-> "later"]}],
                         [r \in ReportIDs |-> NoReport])
    /\ \A r \in ReportIDs \ Parsable : reports[r] = NoReport
    /\ due = [n \in ReportNodes |-> {}]
    /\ queue = [n \in ReportNodes |-> <<>>]
    /\ job = [n \in ReportNodes |-> NoReport]
    /\ odd = {} /\ unscheduled = {}
    /\ reportEdits = 0 /\ sendNows = 0 /\ reportFaults = 0
-----------------------------------------------------------------------------
\* CreateReport, or UpdateReport once it found the row: a row made from the
\* request alone, in which NextFireAt is zero.
SaveReport(r, on) ==
    /\ reportEdits < MaxReportEdits /\ reportEdits' = reportEdits + 1
    /\ reports' = [reports EXCEPT ![r] = [enabled |-> on, next |-> "zero"]]
    /\ unscheduled' = unscheduled \union {r}
    /\ UNCHANGED <<dispatchVars, odd, sendNows, reportFaults>>

DeleteReport(r) ==
    /\ reportEdits < MaxReportEdits /\ reportEdits' = reportEdits + 1
    /\ reports' = [reports EXCEPT ![r] = NoReport]
    /\ UNCHANGED <<dispatchVars, odd, unscheduled, sendNows, reportFaults>>

\* Mutant: the queue has no limit.
SendNowUnbounded(n, r) ==
    /\ sendNows < MaxSendNows /\ sendNows' = sendNows + 1
    /\ reports[r] # NoReport
    /\ queue' = [queue EXCEPT ![n] = Append(@, r)]
    /\ UNCHANGED <<reports, due, job, odd, unscheduled, reportEdits, reportFaults>>

\* SendNow on node n; a full queue is an error.
SendNow(n, r) ==
    /\ sendNows < MaxSendNows /\ sendNows' = sendNows + 1
    /\ reports[r] # NoReport
    /\ Len(queue[n]) < QueueCap
    /\ queue' = [queue EXCEPT ![n] = Append(@, r)]
    /\ UNCHANGED <<reports, due, job, odd, unscheduled, reportEdits, reportFaults>>

\* The time has come.
ReportClock(r) ==
    /\ reports[r] # NoReport /\ reports[r].next = "later"
    /\ reports' = [reports EXCEPT ![r].next = "due"]
    /\ UNCHANGED <<dispatchVars, odd, unscheduled, reportBounds>>

Idle(n) == job[n] = NoReport /\ due[n] = {}

\* runDueReports lists.
RunDueReports(n) ==
    /\ Idle(n)
    /\ due' = [due EXCEPT ![n] = {r \in ReportIDs :
          reports[r] # NoReport /\ reports[r].enabled /\ reports[r].next = "due"}]
    /\ UNCHANGED <<reports, queue, job, odd, unscheduled, reportBounds>>

\* One more send of r is over, successful or not.
SendEnds(r) == odd' = IF r \in odd THEN odd \ {r} ELSE odd \union {r}

\* sendOne up to the first attempt.  A row that is gone or cannot be read is
\* passed over; a report that does not render has failed at once.
SendOne(n, r) ==
    \/ /\ \/ reports[r] = NoReport /\ UNCHANGED reportFaults
          \/ reportFaults < MaxReportFaults /\ reportFaults' = reportFaults + 1
       /\ UNCHANGED <<job, odd>>
    \/ /\ reports[r] # NoReport
       /\ \E s \in {"mail", "advance"} :
             /\ job' = [job EXCEPT ![n] = [report |-> r, row |-> reports[r], step |-> s, attempt |-> 1]]
             /\ IF s = "advance" THEN SendEnds(r) ELSE UNCHANGED odd
       /\ UNCHANGED reportFaults

SendDue(n, r) ==
    /\ job[n] = NoReport /\ r \in due[n]
    /\ due' = [due EXCEPT ![n] = @ \ {r}]
    /\ SendOne(n, r)
    /\ UNCHANGED <<reports, queue, unscheduled, reportEdits, sendNows>>

SendQueued(n) ==
    /\ Idle(n) /\ queue[n] # <<>>
    /\ queue' = [queue EXCEPT ![n] = Tail(@)]
    /\ SendOne(n, Head(queue[n]))
    /\ UNCHANGED <<reports, due, unscheduled, reportEdits, sendNows>>

Mailing(n) == job[n] # NoReport /\ job[n].step = "mail"

AttemptsOver(n) ==
    /\ job' = [job EXCEPT ![n].step = "advance"]
    /\ SendEnds(job[n].report)

\* Send fails: another attempt, or none after the last one.
MailFails(n) ==
    /\ Mailing(n)
    /\ IF job[n].attempt = Attempts
         THEN AttemptsOver(n)
         ELSE job' = [job EXCEPT ![n].attempt = @ + 1] /\ UNCHANGED odd
    /\ UNCHANGED <<reports, due, queue, unscheduled, reportBounds>>

MailSent(n) ==
    /\ Mailing(n) /\ AttemptsOver(n)
    /\ UNCHANGED <<reports, due, queue, unscheduled, reportBounds>>

\* Mutant: the row is written back without a next time.
AdvanceToZero(n) ==
    /\ job[n] # NoReport /\ job[n].step = "advance"
    /\ reports' = [reports EXCEPT ![job[n].report] = [job[n].row EXCEPT !.next = "zero"]]
    /\ unscheduled' = unscheduled \ {job[n].report}
    /\ job' = [job EXCEPT ![n] = NoReport]
    /\ UNCHANGED <<due, queue, odd, reportBounds>>

\* advanceNextFire: without a valid cron expression nothing is written, and a
\* PutReport may fail; else the copy is stored with its next time.
AdvanceNextFire(n) ==
    /\ job[n] # NoReport /\ job[n].step = "advance"
    /\ \/ UNCHANGED <<reports, unscheduled>>
       \/ /\ job[n].report \in Parsable
          /\ reports' = [reports EXCEPT ![job[n].report] = [job[n].row EXCEPT !.next = "later"]]
          /\ unscheduled' = unscheduled \ {job[n].report}
    /\ job' = [job EXCEPT ![n] = NoReport]
    /\ UNCHANGED <<due, queue, odd, reportBounds>>

\* The node goes down and comes back: queue, pass and send are forgotten.
ReportCrash(n) ==
    /\ reportFaults < MaxReportFaults /\ reportFaults' = reportFaults + 1
    /\ due' = [due EXCEPT ![n] = {}]
    /\ queue' = [queue EXCEPT ![n] = <<>>]
    /\ job' = [job EXCEPT ![n] = NoReport]
    /\ UNCHANGED <<reports, odd, unscheduled, reportEdits, sendNows>>

\* What the dispatcher does with a pass or a send it has begun.
Dispatch(n) ==
    \/ \E r \in ReportIDs : SendDue(n, r)
    \/ MailFails(n) \/ MailSent(n) \/ AdvanceNextFire(n)

ReportsNext ==
    /\ Running("reports")
    /\ \/ \E r \in ReportIDs :
             \/ \E on \in BOOLEAN : SaveReport(r, on)
             \/ DeleteReport(r) \/ ReportClock(r)
             \/ \E n \in ReportNodes : SendNow(n, r)
       \/ \E n \in ReportNodes :
             RunDueReports(n) \/ SendQueued(n) \/ Dispatch(n) \/ ReportCrash(n)

\* What a node may do; the composed specification adds the fairness below.
ReportsSpec == ReportsInit /\ [][ReportsNext]_reportsVars

\* Time passes and the dispatcher goes on, with what it has begun or with the
\* ticker; that the queue is served as well is not needed.
ReportsFairness ==
    /\ \A r \in ReportIDs : WF_reportsVars(Running("reports") /\ ReportClock(r))
    /\ \A n \in ReportNodes :
          /\ WF_reportsVars(Running("reports") /\ Dispatch(n))
          /\ WF_reportsVars(Running("reports") /\ RunDueReports(n))
-----------------------------------------------------------------------------
ReportsTypeOK ==
    /\ reports \in [ReportIDs -> ReportRow \union {NoReport}]
    /\ due \in [ReportNodes -> SUBSET ReportIDs]
    /\ queue \in [ReportNodes -> Seq(ReportIDs)]
    /\ \A n \in ReportNodes : Len(queue[n]) <= QueueCap
    /\ job \in [ReportNodes -> Job \union {NoReport}]
    /\ odd \subseteq ReportIDs /\ unscheduled \subseteq ReportIDs
    /\ reportEdits \in 0..MaxReportEdits /\ sendNows \in 0..MaxSendNows
    /\ reportFaults \in 0..MaxReportFaults

Enabled(r) == reports[r] # NoReport /\ reports[r].enabled

\* A report that is enabled and on the schedule is sent again and again: the number
\* of its sends changes for ever, through failing mail and reads, crashes, SendNow,
\* a second node and lost write-backs (advanceNextFire, runDueReports).
KeepsFiring ==
    \A r \in Parsable :
       /\ []<>(Enabled(r) /\ r \notin unscheduled => r \in odd)
       /\ []<>(Enabled(r) /\ r \notin unscheduled => r \notin odd)

\* A report that an administrator has saved with a valid cron expression and has
\* enabled is put on the schedule (see the package comment of dispatch, and
\* "CreateReport computes next_fire_at" in test/e2e/suites/24-reports.sh).
SavedIsScheduled ==
    \A r \in Parsable :
       (Enabled(r) /\ r \in unscheduled) ~> ~ (Enabled(r) /\ r \in unscheduled)
=============================================================================

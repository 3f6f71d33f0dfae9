------------------------------- MODULE AuditRun -------------------------------
(***************************************************************************)
(* One audit row, its reports, and every Celery task, sweeper and admin    *)
(* call that works on them: audit_service.py, report_service.py and the    *)
(* six modules of tasks/.                                                  *)
(*                                                                         *)
(* A step is one database statement (or one transaction) or one call of an *)
(* upstream, together with the local computation up to the next one.  The  *)
(* tasks of all runs interleave.  The broker delivers at least once: under *)
(* the bound MaxFaults a message is lost, handed out twice or redelivered  *)
(* after its worker died.                                                  *)
(*                                                                         *)
(* Time is abstract.  `aged` says that modified_at is older than           *)
(* SITEINTEL_AUDIT_STUCK_MINUTES; a poll may find its deadline passed at   *)
(* any moment, and not passed while the polls so far fit in the budget.    *)
(***************************************************************************)
EXTENDS Integers, FiniteSets, AuditTypes

CONSTANTS
    Sources,         \* the registered sources, list_sources()
    PollingSources,  \* those whose SourceFetcher has polls = True
    SourceErrors,    \* the error codes a SourceError may carry here
    MaxRetries,      \* MAX_RETRIES of run_source
    Interval,        \* poll_interval_s(), clamped to at least 1
    Budget,          \* poll_budget_s(), clamped to at least Interval
    MaxRuns,         \* bound: runs of the audit, the first one included
    MaxFaults        \* bound: broker and worker faults

ASSUME SourcesAssumption ==
    /\ Sources # {} /\ IsFiniteSet(Sources)
    /\ PollingSources \subseteq Sources
ASSUME ErrorsAssumption == SourceErrors \subseteq ErrorCode
ASSUME NumbersAssumption ==
    /\ MaxRetries \in Nat /\ MaxFaults \in Nat /\ MaxRuns \in Nat \ {0}
    /\ Interval \in Nat \ {0} /\ Budget \in Nat /\ Budget >= Interval

VARIABLES
    status,     \* Audit.status
    runId,      \* Audit.run_id: the number of the run that drew it
    modified,   \* Audit.modified_at: the number of writes of the row
    aged,       \* the last write is older than the stuck cutoff
    report,     \* the Report row of each source
    tasks,      \* queued messages and executing tasks
    waiting,    \* header tasks each chord still waits for
    announced,  \* how often report_ready was sent for each run
    faults      \* faults so far

vars == <<status, runId, modified, aged, report, tasks, waiting, announced, faults>>
auditVars == <<status, runId, modified, aged>>

-------------------------------------------------------------------------------
(* Records.  Two history fields: `writer` is the run of the task that wrote the
   report last, 0 while it is as reset; `quiet` says that no task was between its
   run check and its last write when the report was reset.  A chord is named after
   the run_audit message that published it; `copy` tells a duplicate apart.     *)
Runs == 1..MaxRuns
Copies == {0, 1}
Chords == Runs \X Copies

Report ==
    [status : ReportStatus, code : ErrorCode \cup {NoCode}, detail : BOOLEAN,
     retries : Nat, writer : 0..MaxRuns, quiet : BOOLEAN]

RunAuditTask ==
    [kind : {"run_audit"}, msg : Runs, copy : Copies, pc : {"queued", "claimed"}]
RunSourceTask ==
    [kind : {"run_source"}, chord : Chords, run : Runs, source : Sources, retries : Nat,
     copy : Copies, pc : {"queued", "matched", "fetching"}]
PollTask ==
    [kind : {"poll_urlscan"}, chord : Chords, run : Runs, source : Sources, polls : Nat,
     copy : Copies, pc : {"queued", "polling"}]
FinishTask ==
    [kind : {"finish_audit"}, chord : Chords, run : Runs, attempt : Nat, copy : Copies,
     pc : {"queued", "checked", "late", "failing", "closing"}, todo : SUBSET Sources]
Sweep == [kind : {"sweep"}, seen : Nat]
Announcer == [kind : {"announce"}, run : Runs, succeeded : SUBSET Sources, write : Nat]

Task == RunAuditTask \cup RunSourceTask \cup PollTask \cup FinishTask \cup Sweep \cup Announcer

NewReport(isQuiet) ==
    [status |-> "pending", code |-> NoCode, detail |-> FALSE, retries |-> 0, writer |-> 0,
     quiet |-> isQuiet]

RunAuditMessage(r) == [kind |-> "run_audit", msg |-> r, copy |-> 0, pc |-> "queued"]

SourceMessage(c, r, s) ==
    [kind |-> "run_source", chord |-> c, run |-> r, source |-> s, retries |-> 0,
     copy |-> c[2], pc |-> "queued"]

PollMessage(t) ==
    [kind |-> "poll_urlscan", chord |-> t.chord, run |-> t.run, source |-> t.source,
     polls |-> 1, copy |-> t.copy, pc |-> "queued"]

FinishMessage(c, r) ==
    [kind |-> "finish_audit", chord |-> c, run |-> r, attempt |-> 0, copy |-> c[2],
     pc |-> "queued", todo |-> {}]

-------------------------------------------------------------------------------
(* Slips: what the definitions of the same name without the suffix would be after
   a plausible bug.  No specification uses them; each belongs to a property it
   must break.                                                                 *)
AuditStatusOfSlip(S) ==     \* the vocabulary of reports, not of audits
    IF S = Sources THEN "completed" ELSE IF S # {} THEN "partial" ELSE "failed"
WritableSlip(s) == TRUE     \* an unconditional update
OwnRunSlip(t) == TRUE       \* the row looked up without run_id
ClosesRunSlip ==            \* the reports are not looked at
    status = "running"
ClosesAgainSlip ==          \* the status is not looked at
    \A s \in Sources : report[s].status \in FinishedReportStatuses
RerunnableSlip == TRUE      \* a running audit is rerun too
StuckSlip ==                \* pending audits are not swept
    status = "running" /\ aged
StillStuckSlip(t) ==        \* the age is not re-checked under the lock
    status \in InFlightAuditStatuses
FinalReportSlip(s, outcome) ==          \* the code of a noted retry stays
    [report[s] EXCEPT !.status = outcome]
ReturnFromHeaderSlip(t, more) ==        \* the chord never learns of it
    UNCHANGED waiting /\ tasks' = (tasks \ {t}) \cup more
AnnounceSlip(r, S) ==                   \* the sources that finished, not those that succeeded
    [kind |-> "announce", run |-> r, write |-> modified,
     succeeded |-> {s \in Sources : report[s].status \in FinishedReportStatuses}]
SendReportReadySlip(t) ==               \* no signal without a succeeded source
    /\ t.kind = "announce"
    /\ announced' = IF t.succeeded # {} THEN [announced EXCEPT ![t.run] = @ + 1] ELSE announced
    /\ tasks' = tasks \ {t}
    /\ UNCHANGED <<auditVars, report, waiting, faults>>

-------------------------------------------------------------------------------
(* The conditions the code branches on.                                        *)
Finished(s) == report[s].status \in FinishedReportStatuses

Succeeded == {s \in Sources : report[s].status \in SucceededReportStatuses}

AllFinished == \A s \in Sources : Finished(s)

(* _save updates the row only while it is unfinished. *)
Writable(s) == ~Finished(s)

(* The task's run_id is still the audit's: the filter of run_source and
   finish_audit, the comparison of poll_urlscan. *)
OwnRun(t) == t.run = runId

RetriesLeft(t) == t.retries < MaxRetries

(* finish(): the run is closed when this holds, else the call only returns. *)
ClosesRun == status = "running" /\ AllFinished

(* finish_audit stops re-checking. *)
GivesUp(t) == ~(t.attempt * Interval <= Budget + Interval)

(* The earliest time of a poll leaves it before its deadline. *)
PollsAgain(t) == t.polls * Interval < Budget

(* The sweeper's scan, and its re-check of the locked row: written since the
   scan means modified_at >= cutoff. *)
Stuck == status \in InFlightAuditStatuses /\ aged
StillStuck(t) == status \in InFlightAuditStatuses /\ modified = t.seen

Rerunnable == status # "running"

AuditStatusOf(S) ==
    IF S = Sources THEN "completed" ELSE IF S # {} THEN "partially_completed" ELSE "failed"

-------------------------------------------------------------------------------
(* One conditional write of a report by a task of run r. *)
Save(s, r, fields) ==
    report' = IF Writable(s) THEN [report EXCEPT ![s] = [fields EXCEPT !.writer = r]] ELSE report

FinalReport(s, outcome) ==
    [report[s] EXCEPT !.status = outcome,
                      !.code = IF outcome = "partial" THEN "truncated" ELSE NoCode]

FailedReport(s, c) == [report[s] EXCEPT !.status = "failed", !.code = c, !.detail = TRUE]

(* run_source's fail(..., retry_count=retries) *)
FailedAfterRetries(s, c, n) == [FailedReport(s, c) EXCEPT !.retries = n]

RetriedReport(s, n) ==
    [report[s] EXCEPT !.retries = n, !.code = "upstream", !.detail = TRUE]

WriteAudit(newStatus) ==
    /\ status' = newStatus
    /\ modified' = modified + 1
    /\ aged' = FALSE

(* Every close owes a signal of its own: `write` tells it by the write of the row. *)
Announce(r, S) == [kind |-> "announce", run |-> r, succeeded |-> S, write |-> modified]

Replace(t, new) == tasks' = (tasks \ {t}) \cup {new}
Goto(t, label) == Replace(t, [t EXCEPT !.pc = label])

(* A header task of chord t.chord has returned; the last one lets the chord
   publish its body.  `more` are the messages the task itself published. *)
ReturnFromHeader(t, more) ==
    LET left == waiting[t.chord] \ {t.source}
        body == IF t.source \in waiting[t.chord] /\ left = {}
                THEN {FinishMessage(t.chord, t.run)} ELSE {}
    IN  /\ waiting' = [waiting EXCEPT ![t.chord] = left]
        /\ tasks' = (tasks \ {t}) \cup more \cup body

At(t, kind, label) == t.kind = kind /\ t.pc = label

-------------------------------------------------------------------------------
(* run_audit                                                                   *)

(* Claim pending -> running, or return: already run elsewhere. *)
ClaimRun(t) ==
    /\ At(t, "run_audit", "queued")
    /\ IF status = "pending"
       THEN WriteAudit("running") /\ Goto(t, "claimed")
       ELSE tasks' = tasks \ {t} /\ UNCHANGED <<status, modified, aged>>
    /\ UNCHANGED <<runId, report, waiting, announced, faults>>

(* Re-read the audit and publish the chord under the run_id found now. *)
PublishChord(t) ==
    LET c == <<t.msg, t.copy>>
    IN  /\ At(t, "run_audit", "claimed")
        /\ tasks' = (tasks \ {t}) \cup {SourceMessage(c, runId, s) : s \in Sources}
        /\ waiting' = [waiting EXCEPT ![c] = Sources]
        /\ UNCHANGED <<auditVars, report, announced, faults>>

-------------------------------------------------------------------------------
(* run_source                                                                  *)

(* The query filtered on run_id; no row ends the header task. *)
StartSource(t) ==
    /\ At(t, "run_source", "queued")
    /\ IF OwnRun(t) THEN Goto(t, "matched") /\ UNCHANGED waiting ELSE ReturnFromHeader(t, {})
    /\ UNCHANGED <<auditVars, report, announced, faults>>

(* report_service.run: running, unless a concurrent run finished the report. *)
MarkRunning(t) ==
    /\ At(t, "run_source", "matched")
    /\ Save(t.source, t.run, [report[t.source] EXCEPT !.status = "running"])
    /\ IF Writable(t.source) THEN Goto(t, "fetching") /\ UNCHANGED waiting ELSE ReturnFromHeader(t, {})
    /\ UNCHANGED <<auditVars, announced, faults>>

(* The fetch of a non-polling source returned: complete(). *)
FetchCompletes(t, outcome) ==
    /\ At(t, "run_source", "fetching") /\ t.source \notin PollingSources
    /\ Save(t.source, t.run, FinalReport(t.source, outcome))
    /\ ReturnFromHeader(t, {})
    /\ UNCHANGED <<auditVars, announced, faults>>

(* A polling source returned its submission: keep it, schedule the first poll. *)
FetchSubmits(t) ==
    /\ At(t, "run_source", "fetching") /\ t.source \in PollingSources
    /\ Save(t.source, t.run, report[t.source])
    /\ ReturnFromHeader(t, {PollMessage(t)})
    /\ UNCHANGED <<auditVars, announced, faults>>

(* An upstream error with retries left: note it, queue the same task again. *)
FetchRetries(t) ==
    /\ At(t, "run_source", "fetching") /\ "upstream" \in SourceErrors /\ RetriesLeft(t)
    /\ Save(t.source, t.run, RetriedReport(t.source, t.retries + 1))
    /\ Replace(t, [t EXCEPT !.pc = "queued", !.retries = t.retries + 1])
    /\ UNCHANGED <<auditVars, waiting, announced, faults>>

(* Any other SourceError, or no retries left. *)
FetchFails(t, c) ==
    /\ At(t, "run_source", "fetching")
    /\ c = "upstream" => ~RetriesLeft(t)
    /\ Save(t.source, t.run, FailedAfterRetries(t.source, c, t.retries))
    /\ ReturnFromHeader(t, {})
    /\ UNCHANGED <<auditVars, announced, faults>>

(* Any other exception. *)
FetchBreaks(t) ==
    /\ At(t, "run_source", "fetching")
    /\ Save(t.source, t.run, FailedReport(t.source, "internal"))
    /\ ReturnFromHeader(t, {})
    /\ UNCHANGED <<auditVars, announced, faults>>

-------------------------------------------------------------------------------
(* poll_urlscan                                                                *)

StartPoll(t) ==
    /\ At(t, "poll_urlscan", "queued")
    /\ IF OwnRun(t) THEN Goto(t, "polling") ELSE tasks' = tasks \ {t}
    /\ UNCHANGED <<auditVars, report, waiting, announced, faults>>

PollCompletes(t, outcome) ==
    /\ At(t, "poll_urlscan", "polling")
    /\ Save(t.source, t.run, FinalReport(t.source, outcome))
    /\ tasks' = tasks \ {t}
    /\ UNCHANGED <<auditVars, waiting, announced, faults>>

(* A SourceError of the poll, or the result not ready at the deadline. *)
PollFails(t, c) ==
    /\ At(t, "poll_urlscan", "polling")
    /\ Save(t.source, t.run, FailedReport(t.source, c))
    /\ tasks' = tasks \ {t}
    /\ UNCHANGED <<auditVars, waiting, announced, faults>>

(* Any other exception escapes: the task is gone, the report stays as it is. *)
PollBreaks(t) ==
    /\ At(t, "poll_urlscan", "polling")
    /\ tasks' = tasks \ {t}
    /\ UNCHANGED <<auditVars, report, waiting, announced, faults>>

PollAgain(t) ==
    /\ At(t, "poll_urlscan", "polling") /\ PollsAgain(t)
    /\ Replace(t, [t EXCEPT !.pc = "queued", !.polls = t.polls + 1])
    /\ UNCHANGED <<auditVars, report, waiting, announced, faults>>

-------------------------------------------------------------------------------
(* finish_audit                                                                *)

CheckRun(t) ==
    /\ At(t, "finish_audit", "queued")
    /\ IF OwnRun(t) THEN Goto(t, "checked") ELSE tasks' = tasks \ {t}
    /\ UNCHANGED <<auditVars, report, waiting, announced, faults>>

(* The transaction of finish() closes the run; its commit owes the signal.  The
   audit is looked up by id alone. *)
CloseRun(t) ==
    /\ At(t, "finish_audit", "checked") \/ At(t, "finish_audit", "closing")
    /\ ClosesRun
    /\ WriteAudit(AuditStatusOf(Succeeded))
    /\ Replace(t, Announce(runId, Succeeded))
    /\ UNCHANGED <<runId, report, waiting, announced, faults>>

(* finish() found nothing to close: the run is over, or this was the last call. *)
FinishReturns(t) ==
    /\ \/ At(t, "finish_audit", "checked") /\ status # "running"
       \/ At(t, "finish_audit", "closing") /\ ~ClosesRun
    /\ tasks' = tasks \ {t}
    /\ UNCHANGED <<auditVars, report, waiting, announced, faults>>

(* finish() returned False: check again after one interval, or go on to fail. *)
CheckAgain(t) ==
    /\ At(t, "finish_audit", "checked") /\ status = "running" /\ ~AllFinished
    /\ IF GivesUp(t)
       THEN Goto(t, "late")
       ELSE Replace(t, [t EXCEPT !.pc = "queued", !.attempt = t.attempt + 1])
    /\ UNCHANGED <<auditVars, report, waiting, announced, faults>>

ListUnfinished(t) ==
    /\ At(t, "finish_audit", "late")
    /\ Replace(t, [t EXCEPT !.pc = "failing", !.todo = {s \in Sources : ~Finished(s)}])
    /\ UNCHANGED <<auditVars, report, waiting, announced, faults>>

(* Fail the listed reports one by one, then call finish() a last time. *)
FailNext(t) ==
    /\ At(t, "finish_audit", "failing")
    /\ IF t.todo = {}
       THEN Goto(t, "closing") /\ UNCHANGED report
       ELSE \E s \in t.todo :
              /\ Save(s, t.run, FailedReport(s, "timeout"))
              /\ Replace(t, [t EXCEPT !.todo = @ \ {s}])
    /\ UNCHANGED <<auditVars, waiting, announced, faults>>

-------------------------------------------------------------------------------
(* The signal, after the commit of whoever closed the run.                     *)
SendReportReady(t) ==
    /\ t.kind = "announce"
    /\ announced' = [announced EXCEPT ![t.run] = @ + 1]
    /\ tasks' = tasks \ {t}
    /\ UNCHANGED <<auditVars, report, waiting, faults>>

-------------------------------------------------------------------------------
(* Time, the beat tasks and the admin.                                         *)

(* The stuck cutoff overtakes modified_at of an audit in flight. *)
Age ==
    /\ status \in InFlightAuditStatuses /\ ~aged
    /\ aged' = TRUE
    /\ UNCHANGED <<status, runId, modified, report, tasks, waiting, announced, faults>>

(* fail_stuck_audits lists the stuck audits (bound: one sweep at a time) ... *)
SweepScan ==
    /\ Stuck
    /\ \A t \in tasks : t.kind # "sweep"
    /\ tasks' = tasks \cup {[kind |-> "sweep", seen |-> modified]}
    /\ UNCHANGED <<auditVars, report, waiting, announced, faults>>

(* ... and fails each in a transaction that locks and re-checks the row. *)
SweepFail(t) ==
    /\ t.kind = "sweep"
    /\ IF StillStuck(t)
       THEN /\ report' = [s \in Sources |->
                            IF Finished(s) THEN report[s]
                            ELSE [FailedReport(s, "timeout") EXCEPT !.writer = runId]]
            /\ WriteAudit("failed")
            /\ Replace(t, Announce(runId, Succeeded))
       ELSE tasks' = tasks \ {t} /\ UNCHANGED <<report, status, modified, aged>>
    /\ UNCHANGED <<runId, waiting, announced, faults>>

(* expire_audits, once expires_at has passed. *)
Expire ==
    /\ status \in ReusableAuditStatuses
    /\ WriteAudit("expired")
    /\ UNCHANGED <<runId, report, tasks, waiting, announced, faults>>

(* No task is between its run check and its last write. *)
Quiet == \A t \in tasks : t.kind \in {"run_source", "poll_urlscan", "finish_audit"} => t.pc = "queued"

(* rerun_audit: one transaction resets the reports and draws a run_id; its commit
   queues run_audit. *)
Rerun ==
    /\ Rerunnable /\ runId < MaxRuns
    /\ WriteAudit("pending")
    /\ runId' = runId + 1
    /\ report' = [s \in Sources |-> NewReport(Quiet)]
    /\ tasks' = tasks \cup {RunAuditMessage(runId + 1)}
    /\ UNCHANGED <<waiting, announced, faults>>

-------------------------------------------------------------------------------
(* Broker and worker faults (bound: MaxFaults of them).                        *)

(* A message is lost, or a process dies and its message is not delivered again. *)
Lose(t) ==
    /\ faults < MaxFaults /\ faults' = faults + 1
    /\ tasks' = tasks \ {t}
    /\ UNCHANGED <<auditVars, report, waiting, announced>>

(* acks_late: the message of a worker that died is handed out from the start. *)
Redeliver(t) ==
    /\ faults < MaxFaults /\ faults' = faults + 1
    /\ t.kind \notin {"sweep", "announce"} /\ t.pc # "queued"
    /\ Replace(t, IF t.kind = "finish_audit" THEN [t EXCEPT !.pc = "queued", !.todo = {}]
                                             ELSE [t EXCEPT !.pc = "queued"])
    /\ UNCHANGED <<auditVars, report, waiting, announced>>

(* The broker hands a queued message out twice. *)
Duplicate(t) ==
    /\ faults < MaxFaults /\ faults' = faults + 1
    /\ t.kind \notin {"sweep", "announce"} /\ t.pc = "queued" /\ t.copy = 0
    /\ tasks' = tasks \cup {[t EXCEPT !.copy = 1]}
    /\ UNCHANGED <<auditVars, report, waiting, announced>>

-------------------------------------------------------------------------------
(* request_audit has committed: the first run is queued. *)
Init ==
    /\ status = "pending" /\ runId = 1 /\ modified = 0 /\ aged = FALSE
    /\ report = [s \in Sources |-> NewReport(TRUE)]
    /\ tasks = {RunAuditMessage(1)}
    /\ waiting = [c \in Chords |-> {}]
    /\ announced = [r \in Runs |-> 0]
    /\ faults = 0

SourceStep(t) ==
    \/ StartSource(t) \/ MarkRunning(t) \/ FetchSubmits(t) \/ FetchRetries(t) \/ FetchBreaks(t)
    \/ \E outcome \in SucceededReportStatuses : FetchCompletes(t, outcome)
    \/ \E c \in SourceErrors : FetchFails(t, c)

PollStep(t) ==
    \/ StartPoll(t) \/ PollAgain(t) \/ PollBreaks(t)
    \/ \E outcome \in SucceededReportStatuses : PollCompletes(t, outcome)
    \/ \E c \in SourceErrors \cup {"timeout"} : PollFails(t, c)

FinishStep(t) ==
    \/ CheckRun(t) \/ CloseRun(t) \/ FinishReturns(t) \/ CheckAgain(t)
    \/ ListUnfinished(t) \/ FailNext(t)

(* A worker goes on with a task it was handed. *)
WorkerStep(t) ==
    \/ ClaimRun(t) \/ PublishChord(t) \/ SourceStep(t) \/ PollStep(t) \/ FinishStep(t)
    \/ SendReportReady(t)

Fault(t) == Lose(t) \/ Redeliver(t) \/ Duplicate(t)

Next ==
    \/ \E t \in tasks : WorkerStep(t) \/ SweepFail(t) \/ Fault(t)
    \/ SweepScan \/ Age \/ Expire \/ Rerun

Spec == Init /\ [][Next]_vars

(* Workers do not stop while they have work: every step of a task is taken after
   finitely many others, for each task takes finitely many. *)
WorkersRun == WF_vars(\E t \in tasks : WorkerStep(t))

(* Time passes, and the beat schedule of docs/operations.md runs the sweeper. *)
SweeperRuns == WF_vars(Age) /\ WF_vars(SweepScan \/ \E t \in tasks : SweepFail(t))

WorkerSpec == Spec /\ WorkersRun
SweeperSpec == Spec /\ SweeperRuns

-------------------------------------------------------------------------------
(* Properties.                                                                 *)

(* Every variable, report, message and task has its type. *)
TypeOK ==
    /\ status \in AuditStatus /\ runId \in Runs /\ modified \in Nat /\ aged \in BOOLEAN
    /\ report \in [Sources -> Report]
    /\ tasks \subseteq Task
    /\ waiting \in [Chords -> SUBSET Sources]
    /\ announced \in [Runs -> Nat]
    /\ faults \in 0..MaxFaults

(* The status of an audit says of its reports what docs/concept.md tabulates: a
   closed audit has no unfinished report, a completed one only succeeded ones, a
   partially completed one some but not all, an expired one some. *)
StatusMatchesReports ==
    /\ status \notin InFlightAuditStatuses => AllFinished
    /\ status = "completed" => Succeeded = Sources
    /\ status = "partially_completed" => Succeeded \notin {{}, Sources}
    /\ status = "expired" => Succeeded # {}

(* "A finished report is never reopened": late, duplicated and redelivered tasks
   leave a finished report as it is; only a rerun resets it. *)
FinishedNeverReopened ==
    [][\A s \in Sources : Finished(s) /\ runId' = runId => report'[s] = report[s]]_vars

(* report_ready is sent at most once per run, however many finish_audit tasks and
   sweeps of whatever runs try to close it. *)
AnnouncedAtMostOnce == \A r \in Runs : announced[r] <= 1

(* Between the commit that closes a run and its signal, the signal's
   succeeded_sources stay those of the reports a receiver finds. *)
SignalMatchesReports ==
    \A t \in tasks : t.kind = "announce" /\ t.run = runId =>
        status \notin InFlightAuditStatuses /\ t.succeeded = Succeeded

(* error_code tells the outcome: empty on a completed report although retries were
   noted before, truncated on a partial one, some code on a failed one. *)
CodeMatchesStatus ==
    \A s \in Sources :
        /\ report[s].status = "completed" => report[s].code = NoCode
        /\ report[s].status = "partial" => report[s].code = "truncated"
        /\ report[s].status = "failed" => report[s].code # NoCode /\ report[s].detail

(* An audit fails only when all its reports are finished, none with success, or when
   it was stuck at that moment.  Right after a claim or a rerun no report is finished
   and the audit was just written, so one claimed or rerun since the sweeper's scan
   is spared. *)
SweepOnlyFailsStuckRuns ==
    [][status' = "failed" /\ status # "failed" =>
         aged \/ (AllFinished /\ Succeeded = {})]_vars

(* "A stale retry or poll never writes into the new run", as far as the run check
   reaches: unless a task was past its check when the audit was rerun, what a report
   holds was written by a task of the current run. *)
ResultsAreOfTheRun ==
    \A s \in Sources : report[s].quiet => report[s].writer \in {0, runId}

(* A run in flight closes: by its own tasks when nothing is lost, by the sweeper
   whatever is lost. *)
RunEventuallyCloses == status \in InFlightAuditStatuses ~> status \notin InFlightAuditStatuses

(* Every closed run is announced, even when a rerun follows at once. *)
FinishedRunIsAnnounced ==
    \A r \in Runs : runId = r /\ status \notin InFlightAuditStatuses ~> announced[r] >= 1

(* The same without the condition, and of finished reports only: no result of
   another run is kept. *)
FinishedByTheRun == \A s \in Sources : Finished(s) => report[s].writer = runId
===============================================================================

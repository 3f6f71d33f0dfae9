------------------------- MODULE AuditRunSteps_proofs -------------------------
(* What a single step of AuditRun writes and leaves in the queue, and what follows
   from it: theorems about error codes, about the results of different runs, about
   the sweeper, and that AuditRun implements RunPromise. *)
EXTENDS AuditRun_proofs, AuditRunPromise

-------------------------------------------------------------------------------
(* What a step writes: the reports.                                            *)

(* The task is between its run check and its last write. *)
Busy(t) == t.kind \in {"run_source", "poll_urlscan", "finish_audit"} /\ t.pc # "queued"

(* The error code of a report tells its outcome. *)
Coherent(r) ==
    /\ r.status = "completed" => r.code = NoCode
    /\ r.status = "partial" => r.code = "truncated"
    /\ r.status = "failed" => r.code # NoCode /\ r.detail

(* One unfinished report is written by a task of run r. *)
Writes(s, r) ==
    /\ ~Finished(s)
    /\ \A u \in Sources \ {s} : report'[u] = report[u]
    /\ report'[s].writer = r /\ report'[s].quiet = report[s].quiet
    /\ Coherent(report'[s])

(* What the tasks write is coherent, unless the report is finished already. *)
LEMMA CoherentFields ==
    ASSUME TypeOK, NEW s \in Sources, ~Finished(s)
    PROVE  /\ Coherent(report[s])
           /\ Coherent([report[s] EXCEPT !.status = "running"])
           /\ \A outcome \in SucceededReportStatuses : Coherent(FinalReport(s, outcome))
           /\ \A c \in ErrorCode : Coherent(FailedReport(s, c))
           /\ \A c \in ErrorCode, n \in Nat : Coherent(FailedAfterRetries(s, c, n))
           /\ \A n \in Nat : Coherent(RetriedReport(s, n))
  <1>1. report[s] \in Report /\ report[s].status \in {"pending", "running"}
    BY DEF TypeOK, Report, Finished, FinishedReportStatuses, SucceededReportStatuses, ReportStatus
  <1> QED
    BY <1>1 DEF Report, Coherent, SucceededReportStatuses, ErrorCode, NoCode,
         FinalReport, FailedReport, FailedAfterRetries, RetriedReport

(* None of them says whether the reset was quiet. *)
LEMMA QuietFields ==
    ASSUME TypeOK, NEW s \in Sources
    PROVE  /\ [report[s] EXCEPT !.status = "running"].quiet = report[s].quiet
           /\ \A outcome : FinalReport(s, outcome).quiet = report[s].quiet
           /\ \A c : FailedReport(s, c).quiet = report[s].quiet
           /\ \A c, n : FailedAfterRetries(s, c, n).quiet = report[s].quiet
           /\ \A n : RetriedReport(s, n).quiet = report[s].quiet
  <1>1. report[s] \in Report
    BY DEF TypeOK
  <1> QED
    BY <1>1 DEF Report, FinalReport, FailedReport, FailedAfterRetries, RetriedReport

LEMMA SaveWrites ==
    ASSUME TypeOK, NEW s \in Sources, NEW r, NEW fields \in Report, Save(s, r, fields),
           ~Finished(s) => Coherent(fields), fields.quiet = report[s].quiet
    PROVE  report' = report \/ Writes(s, r)
  <1>1. CASE Finished(s)
    BY <1>1 DEF Save, Writable
  <1>2. CASE ~Finished(s)
    <2>1. report' = [report EXCEPT ![s] = [fields EXCEPT !.writer = r]]
      BY <1>2 DEF Save, Writable
    <2>2. report'[s] = [fields EXCEPT !.writer = r]
      BY <2>1 DEF TypeOK
    <2>3. Coherent(report'[s]) /\ report'[s].writer = r /\ report'[s].quiet = report[s].quiet
      BY <1>2, <2>2 DEF Coherent, Report
    <2>4. \A u \in Sources \ {s} : report'[u] = report[u]
      BY <2>1 DEF TypeOK
    <2> QED
      BY <1>2, <2>3, <2>4 DEF Writes
  <1> QED
    BY <1>1, <1>2

(* A task writes nothing, or one report, past its run check. *)
LEMMA SourceWrites ==
    ASSUME TypeOK, NEW t \in tasks, SourceStep(t)
    PROVE  report' = report \/ (Busy(t) /\ \E s \in Sources : Writes(s, t.run))
  <1>1. t.kind = "run_source" /\ t \in RunSourceTask
    BY TaskKinds DEF TypeOK, SourceStep, StartSource, MarkRunning, FetchSubmits, FetchRetries,
                     FetchBreaks, FetchCompletes, FetchFails, At
  <1>2. t.source \in Sources /\ t.retries \in Nat /\ t.retries + 1 \in Nat
    <2>1. t.source \in Sources /\ t.retries \in Nat
      BY <1>1 DEF RunSourceTask
    <2> QED
      BY <2>1
  <1> DEFINE s == t.source
             Saves == \E fields \in Report :
                         /\ Save(s, t.run, fields)
                         /\ ~Finished(s) => Coherent(fields)
                         /\ fields.quiet = report[s].quiet
  <1>3. Saves => report' = report \/ Writes(s, t.run)
    BY <1>2, SaveWrites
  <1>4. \A c \in SourceErrors : c \in ErrorCode
    BY ErrorsAssumption
  <1>5. "internal" \in ErrorCode
    BY DEF ErrorCode
  <1>6. CASE StartSource(t)
    BY <1>6 DEF StartSource
  <1>7. CASE MarkRunning(t)
    BY <1>7, <1>1, <1>2, <1>3, ReportTypes, CoherentFields, QuietFields DEF MarkRunning, At, Busy
  <1>8. CASE FetchSubmits(t)
    BY <1>8, <1>1, <1>2, <1>3, ReportTypes, CoherentFields, QuietFields DEF FetchSubmits, At, Busy
  <1>9. CASE FetchRetries(t)
    BY <1>9, <1>1, <1>2, <1>3, ReportTypes, CoherentFields, QuietFields DEF FetchRetries, At, Busy
  <1>10. CASE FetchBreaks(t)
    BY <1>10, <1>1, <1>2, <1>3, <1>5, ReportTypes, CoherentFields, QuietFields DEF FetchBreaks, At, Busy
  <1>11. CASE \E outcome \in SucceededReportStatuses : FetchCompletes(t, outcome)
    BY <1>11, <1>1, <1>2, <1>3, ReportTypes, CoherentFields, QuietFields DEF FetchCompletes, At, Busy
  <1>12. CASE \E c \in SourceErrors : FetchFails(t, c)
    <2>1. PICK c \in ErrorCode : Save(s, t.run, FailedAfterRetries(s, c, t.retries))
      BY <1>12, <1>4 DEF FetchFails
    <2>2. /\ FailedAfterRetries(s, c, t.retries) \in Report
          /\ ~Finished(s) => Coherent(FailedAfterRetries(s, c, t.retries))
          /\ FailedAfterRetries(s, c, t.retries).quiet = report[s].quiet
      <3>1. FailedAfterRetries(s, c, t.retries) \in Report
        BY <1>2, ReportTypes
      <3>2. ~Finished(s) => Coherent(FailedAfterRetries(s, c, t.retries))
        BY <1>2, CoherentFields
      <3>3. FailedAfterRetries(s, c, t.retries).quiet = report[s].quiet
        BY <1>2, QuietFields
      <3> QED
        BY <3>1, <3>2, <3>3
    <2>3. report' = report \/ Writes(s, t.run)
      BY <1>2, <2>1, <2>2, SaveWrites
    <2> QED
      BY <1>12, <1>1, <1>2, <2>3 DEF FetchFails, At, Busy
  <1> QED
    BY <1>6, <1>7, <1>8, <1>9, <1>10, <1>11, <1>12 DEF SourceStep

LEMMA PollWrites ==
    ASSUME TypeOK, NEW t \in tasks, PollStep(t)
    PROVE  report' = report \/ (Busy(t) /\ \E s \in Sources : Writes(s, t.run))
  <1>1. t.kind = "poll_urlscan" /\ t \in PollTask
    BY TaskKinds DEF TypeOK, PollStep, StartPoll, PollAgain, PollBreaks, PollCompletes, PollFails, At
  <1>2. t.source \in Sources
    BY <1>1 DEF PollTask
  <1>3. \A c \in SourceErrors \cup {"timeout"} : c \in ErrorCode
    BY ErrorsAssumption DEF ErrorCode
  <1>4. CASE StartPoll(t) \/ PollAgain(t) \/ PollBreaks(t)
    BY <1>4 DEF StartPoll, PollAgain, PollBreaks
  <1>5. CASE \E outcome \in SucceededReportStatuses : PollCompletes(t, outcome)
    BY <1>5, <1>1, <1>2, SaveWrites, ReportTypes, CoherentFields, QuietFields DEF PollCompletes, At, Busy
  <1>6. CASE \E c \in SourceErrors \cup {"timeout"} : PollFails(t, c)
    BY <1>6, <1>1, <1>2, <1>3, SaveWrites, ReportTypes, CoherentFields, QuietFields DEF PollFails, At, Busy
  <1> QED
    BY <1>4, <1>5, <1>6 DEF PollStep

LEMMA FinishWrites ==
    ASSUME TypeOK, NEW t \in tasks, FinishStep(t)
    PROVE  report' = report \/ (Busy(t) /\ \E s \in Sources : Writes(s, t.run))
  <1>1. CASE FailNext(t)
    <2>1. t.kind = "finish_audit" /\ t \in FinishTask
      BY <1>1, TaskKinds DEF TypeOK, FailNext, At
    <2>2. CASE t.todo = {}
      BY <1>1, <2>2 DEF FailNext
    <2>3. CASE t.todo # {}
      <3>1. PICK s \in t.todo : Save(s, t.run, FailedReport(s, "timeout"))
        BY <1>1, <2>3 DEF FailNext
      <3>2. s \in Sources /\ "timeout" \in ErrorCode
        BY <2>1 DEF FinishTask, ErrorCode
      <3> QED
        BY <1>1, <2>1, <3>1, <3>2, SaveWrites, ReportTypes, CoherentFields, QuietFields
           DEF FailNext, At, Busy
    <2> QED
      BY <2>2, <2>3
  <1>2. CASE ~FailNext(t)
    BY <1>2 DEF FinishStep, CheckRun, CloseRun, FinishReturns, CheckAgain, ListUnfinished
  <1> QED
    BY <1>1, <1>2

(* Which reports a step writes. *)
LEMMA StepWrites ==
    ASSUME TypeOK, [Next]_vars
    PROVE  \/ report' = report
           \/ \E t \in tasks, s \in Sources : WorkerStep(t) /\ Busy(t) /\ Writes(s, t.run)
           \/ \E t \in tasks : SweepFail(t) /\ StillStuck(t)
           \/ Rerun
  <1>1. ASSUME NEW t \in tasks, WorkerStep(t)
        PROVE  report' = report \/ (Busy(t) /\ \E s \in Sources : Writes(s, t.run))
    <2>1. CASE ClaimRun(t) \/ PublishChord(t) \/ SendReportReady(t)
      BY <2>1 DEF ClaimRun, PublishChord, SendReportReady
    <2> QED
      BY <1>1, <2>1, SourceWrites, PollWrites, FinishWrites DEF WorkerStep
  <1>2. ASSUME NEW t \in tasks, Fault(t) \/ (SweepFail(t) /\ ~StillStuck(t)) PROVE report' = report
    BY <1>2 DEF Fault, Lose, Redeliver, Duplicate, SweepFail
  <1>3. CASE SweepScan \/ Age \/ Expire
    BY <1>3 DEF SweepScan, Age, Expire
  <1>4. CASE UNCHANGED vars
    BY <1>4 DEF vars
  <1> QED
    BY <1>1, <1>2, <1>3, <1>4 DEF Next
-------------------------------------------------------------------------------
(* What a step leaves in the queue: the tasks.                                 *)

(* A new task is no sweep; if it is busy, it passed its run check just now or goes
   on with the run of a busy one. *)
Follows(u) ==
    /\ u.kind # "sweep"
    /\ Busy(u) => u.run = runId \/ \E v \in tasks : Busy(v) /\ v.run = u.run

NewFollow == \A u \in tasks' \ tasks : Follows(u)

(* Nothing but the task of the step leaves the queue. *)
OthersStay(t) == tasks \ {t} \subseteq tasks'

(* The task of a source, a poll or finish_audit as it moves on. *)
LEMMA TaskFollows ==
    ASSUME TypeOK, NEW t \in tasks,
           t.kind \in {"run_source", "poll_urlscan", "finish_audit"},
           Busy(t) \/ t.run = runId
    PROVE  /\ \A label : Follows([t EXCEPT !.pc = label])
           /\ \A label, n : Follows([t EXCEPT !.pc = label, !.retries = n])
           /\ \A label, n : Follows([t EXCEPT !.pc = label, !.polls = n])
           /\ \A label, n : Follows([t EXCEPT !.pc = label, !.attempt = n])
           /\ \A label, S : Follows([t EXCEPT !.pc = label, !.todo = S])
           /\ \A S : Follows([t EXCEPT !.todo = S])
  <1>1. ASSUME NEW u, u.kind = t.kind, u.run = t.run PROVE Follows(u)
    BY <1>1 DEF Follows
  <1>2. CASE t \in RunSourceTask
    BY <1>1, <1>2 DEF RunSourceTask
  <1>3. CASE t \in PollTask
    BY <1>1, <1>3 DEF PollTask
  <1>4. CASE t \in FinishTask
    BY <1>1, <1>4 DEF FinishTask
  <1> QED
    BY <1>2, <1>3, <1>4, TaskKinds DEF TypeOK

(* A message is not busy. *)
LEMMA MessagesFollow ==
    /\ \A r : Follows(RunAuditMessage(r))
    /\ \A c, r, s : Follows(SourceMessage(c, r, s))
    /\ \A t : Follows(PollMessage(t))
    /\ \A c, r : Follows(FinishMessage(c, r))
    /\ \A r, S : Follows(Announce(r, S))
  BY DEF RunAuditMessage, SourceMessage, PollMessage, FinishMessage, Announce, Follows, Busy

LEMMA ReplaceFollows ==
    ASSUME NEW t \in tasks, NEW u, Replace(t, u), Follows(u)
    PROVE  NewFollow /\ OthersStay(t)
  BY DEF Replace, NewFollow, OthersStay

LEMMA HeaderFollows ==
    ASSUME NEW t \in tasks, NEW more, ReturnFromHeader(t, more), \A u \in more : Follows(u)
    PROVE  NewFollow /\ OthersStay(t)
  BY MessagesFollow DEF ReturnFromHeader, NewFollow, OthersStay

LEMMA ClaimFollows ==
    ASSUME TypeOK, NEW t \in tasks, ClaimRun(t) \/ PublishChord(t)
    PROVE  NewFollow /\ OthersStay(t)
  <1>1. CASE ClaimRun(t)
    <2>1. t \in RunAuditTask
      BY <1>1, TaskKinds DEF TypeOK, ClaimRun, At
    <2>2. Follows([t EXCEPT !.pc = "claimed"])
      BY <2>1 DEF RunAuditTask, Follows, Busy
    <2> QED
      BY <1>1, <2>2, ReplaceFollows DEF ClaimRun, Goto, NewFollow, OthersStay
  <1>2. CASE PublishChord(t)
    BY <1>2, MessagesFollow DEF PublishChord, NewFollow, OthersStay
  <1> QED
    BY <1>1, <1>2

LEMMA SourceFollows ==
    ASSUME TypeOK, NEW t \in tasks, SourceStep(t)
    PROVE  NewFollow /\ OthersStay(t)
  <1>1. ReturnFromHeader(t, {}) => NewFollow /\ OthersStay(t)
    BY HeaderFollows
  <1>2. ReturnFromHeader(t, {PollMessage(t)}) => NewFollow /\ OthersStay(t)
    BY HeaderFollows, MessagesFollow
  <1>3. CASE StartSource(t)
    BY <1>3, <1>1, TaskFollows, ReplaceFollows DEF StartSource, At, OwnRun, Goto
  <1>4. CASE MarkRunning(t)
    BY <1>4, <1>1, TaskFollows, ReplaceFollows DEF MarkRunning, At, Busy, Goto
  <1>5. CASE FetchSubmits(t)
    BY <1>5, <1>2 DEF FetchSubmits
  <1>6. CASE FetchRetries(t)
    BY <1>6, TaskFollows, ReplaceFollows DEF FetchRetries, At, Busy
  <1>7. CASE FetchBreaks(t)
    BY <1>7, <1>1 DEF FetchBreaks
  <1>8. CASE \E outcome \in SucceededReportStatuses : FetchCompletes(t, outcome)
    BY <1>8, <1>1 DEF FetchCompletes
  <1>9. CASE \E c \in SourceErrors : FetchFails(t, c)
    BY <1>9, <1>1 DEF FetchFails
  <1> QED
    BY <1>3, <1>4, <1>5, <1>6, <1>7, <1>8, <1>9 DEF SourceStep

LEMMA PollFollows ==
    ASSUME TypeOK, NEW t \in tasks, PollStep(t)
    PROVE  NewFollow /\ OthersStay(t)
  <1>1. tasks' = tasks \ {t} => NewFollow /\ OthersStay(t)
    BY DEF NewFollow, OthersStay
  <1>2. CASE StartPoll(t)
    BY <1>2, <1>1, TaskFollows, ReplaceFollows DEF StartPoll, At, OwnRun, Goto
  <1>3. CASE PollAgain(t)
    BY <1>3, TaskFollows, ReplaceFollows DEF PollAgain, At, Busy
  <1>4. CASE PollBreaks(t)
    BY <1>4, <1>1 DEF PollBreaks
  <1>5. CASE \E outcome \in SucceededReportStatuses : PollCompletes(t, outcome)
    BY <1>5, <1>1 DEF PollCompletes
  <1>6. CASE \E c \in SourceErrors \cup {"timeout"} : PollFails(t, c)
    BY <1>6, <1>1 DEF PollFails
  <1> QED
    BY <1>2, <1>3, <1>4, <1>5, <1>6 DEF PollStep

LEMMA FinishFollows ==
    ASSUME TypeOK, NEW t \in tasks, FinishStep(t)
    PROVE  NewFollow /\ OthersStay(t)
  <1>1. tasks' = tasks \ {t} => NewFollow /\ OthersStay(t)
    BY DEF NewFollow, OthersStay
  <1>2. CASE CheckRun(t)
    BY <1>2, <1>1, TaskFollows, ReplaceFollows DEF CheckRun, At, OwnRun, Goto
  <1>3. CASE CloseRun(t)
    BY <1>3, MessagesFollow, ReplaceFollows DEF CloseRun
  <1>4. CASE FinishReturns(t)
    BY <1>4, <1>1 DEF FinishReturns
  <1>5. CASE CheckAgain(t)
    BY <1>5, TaskFollows, ReplaceFollows DEF CheckAgain, At, Busy, Goto
  <1>6. CASE ListUnfinished(t)
    BY <1>6, TaskFollows, ReplaceFollows DEF ListUnfinished, At, Busy
  <1>7. CASE FailNext(t)
    <2>1. /\ t.kind = "finish_audit" /\ Busy(t)
          /\ Goto(t, "closing") \/ \E s \in t.todo : Replace(t, [t EXCEPT !.todo = @ \ {s}])
      BY <1>7 DEF FailNext, At, Busy
    <2> QED
      BY <2>1, TaskFollows, ReplaceFollows DEF Goto
  <1> QED
    BY <1>2, <1>3, <1>4, <1>5, <1>6, <1>7 DEF FinishStep

LEMMA FaultFollows ==
    ASSUME TypeOK, NEW t \in tasks, Fault(t)
    PROVE  NewFollow /\ OthersStay(t)
  <1>1. CASE Lose(t)
    BY <1>1 DEF Lose, NewFollow, OthersStay
  <1>2. ASSUME t.kind \notin {"sweep", "announce"}
        PROVE  /\ Follows([t EXCEPT !.pc = "queued"])
               /\ t.kind = "finish_audit" => Follows([t EXCEPT !.pc = "queued", !.todo = {}])
               /\ t.pc = "queued" => Follows([t EXCEPT !.copy = 1])
    <2>1. CASE t \in RunAuditTask
      BY <2>1 DEF RunAuditTask, Follows, Busy
    <2>2. CASE t \in RunSourceTask
      BY <2>2 DEF RunSourceTask, Follows, Busy
    <2>3. CASE t \in PollTask
      BY <2>3 DEF PollTask, Follows, Busy
    <2>4. CASE t \in FinishTask
      BY <2>4 DEF FinishTask, Follows, Busy
    <2> QED
      BY <1>2, <2>1, <2>2, <2>3, <2>4, TaskKinds DEF TypeOK, Task, Sweep, Announcer
  <1>3. CASE Redeliver(t)
    BY <1>2, <1>3, ReplaceFollows DEF Redeliver
  <1>4. CASE Duplicate(t)
    BY <1>2, <1>4 DEF Duplicate, NewFollow, OthersStay
  <1> QED
    BY <1>1, <1>3, <1>4 DEF Fault

(* Every step but a scan of the sweeper. *)
LEMMA StepFollows ==
    ASSUME TypeOK, [Next]_vars, ~SweepScan
    PROVE  NewFollow
  <1>1. ASSUME NEW t \in tasks, WorkerStep(t) PROVE NewFollow
    <2>1. CASE SendReportReady(t)
      BY <2>1 DEF SendReportReady, NewFollow
    <2> QED
      BY <1>1, <2>1, ClaimFollows, SourceFollows, PollFollows, FinishFollows DEF WorkerStep
  <1>2. ASSUME NEW t \in tasks, SweepFail(t) PROVE NewFollow
    BY <1>2, MessagesFollow, ReplaceFollows DEF SweepFail, NewFollow
  <1>3. CASE Rerun
    BY <1>3, MessagesFollow DEF Rerun, NewFollow
  <1>4. CASE Age \/ Expire \/ UNCHANGED vars
    BY <1>4 DEF Age, Expire, vars, NewFollow
  <1> QED
    BY <1>1, <1>2, <1>3, <1>4, FaultFollows DEF Next
-------------------------------------------------------------------------------
(* Error codes, and whose results the reports hold.                            *)

(* While the reports are as a quiet reset left them or newer, whoever is past its run
   check is of the current run. *)
QuietRuns == \A t \in tasks, s \in Sources : Busy(t) /\ report[s].quiet => t.run = runId

RInv == TypeOK /\ CodeMatchesStatus /\ QuietRuns /\ ResultsAreOfTheRun

LEMMA RunKept ==
    ASSUME TypeOK, [Next]_vars, ~Rerun
    PROVE  runId' = runId
  BY StepCases DEF Inert, CloseRun, SweepFail, WriteAudit, SendReportReady, auditVars, Expire

LEMMA SweepWrites ==
    ASSUME TypeOK, NEW t \in tasks, SweepFail(t), StillStuck(t), NEW s \in Sources
    PROVE  \/ report'[s] = report[s]
           \/ /\ Coherent(report'[s])
              /\ report'[s].writer = runId /\ report'[s].quiet = report[s].quiet
  <1>1. report'[s] = IF Finished(s) THEN report[s]
                     ELSE [FailedReport(s, "timeout") EXCEPT !.writer = runId]
    BY DEF SweepFail
  <1>2. CASE ~Finished(s)
    <2>1. /\ FailedReport(s, "timeout") \in Report /\ Coherent(FailedReport(s, "timeout"))
          /\ FailedReport(s, "timeout").quiet = report[s].quiet
      BY <1>2, ReportTypes, CoherentFields, QuietFields DEF ErrorCode
    <2> QED
      BY <1>1, <1>2, <2>1 DEF Report, Coherent
  <1> QED
    BY <1>1, <1>2

LEMMA NextRInv ==
    ASSUME RInv, [Next]_vars PROVE RInv'
  <1>1. TypeOK /\ TypeOK'
    BY NextType DEF RInv
  <1>2. CodeMatchesStatus <=> \A s \in Sources : Coherent(report[s])
    BY DEF CodeMatchesStatus, Coherent
  <1>3. CodeMatchesStatus' <=> \A s \in Sources : Coherent(report'[s])
    BY DEF CodeMatchesStatus, Coherent
  <1>4. CASE Rerun
    <2>1. \A s \in Sources : report'[s] = NewReport(Quiet)
      BY <1>4 DEF Rerun
    <2>2. /\ Coherent(NewReport(Quiet)) /\ NewReport(Quiet).writer = 0
          /\ NewReport(Quiet).quiet = Quiet
      BY DEF NewReport, Coherent
    <2>3. \A t \in tasks' : t \in tasks \/ ~Busy(t)
      BY <1>4, MessagesFollow DEF Rerun, RunAuditMessage, Busy
    <2>4. Quiet => \A t \in tasks : ~Busy(t)
      BY DEF Quiet, Busy
    <2>5. QuietRuns'
      BY <2>1, <2>2, <2>3, <2>4 DEF QuietRuns, Busy
    <2> QED
      BY <1>1, <1>3, <2>1, <2>2, <2>5 DEF RInv, ResultsAreOfTheRun
  <1>5. CASE ~Rerun
    <2>1. runId' = runId
      BY <1>1, <1>5, RunKept
    <2>2. ASSUME NEW s \in Sources
          PROVE  /\ Coherent(report'[s]) /\ report'[s].quiet = report[s].quiet
                 /\ report'[s].quiet => report'[s].writer \in {0, runId}
      <3>1. CASE report'[s] = report[s]
        BY <1>2, <2>2, <3>1 DEF RInv, ResultsAreOfTheRun
      <3>2. CASE \E t \in tasks, u \in Sources : WorkerStep(t) /\ Busy(t) /\ Writes(u, t.run)
        <4>1. PICK t \in tasks, u \in Sources : Busy(t) /\ Writes(u, t.run)
          BY <3>2
        <4>2. CASE u = s
          BY <4>1, <4>2 DEF Writes, RInv, QuietRuns
        <4>3. CASE u # s
          BY <2>2, <3>1, <4>1, <4>3 DEF Writes
        <4> QED
          BY <4>2, <4>3
      <3>3. CASE \E t \in tasks : SweepFail(t) /\ StillStuck(t)
        BY <1>1, <2>2, <3>1, <3>3, SweepWrites
      <3> QED
        BY <1>1, <1>5, <3>1, <3>2, <3>3, StepWrites
    <2>3. QuietRuns'
      <3>1. CASE SweepScan
        BY <2>1, <3>1 DEF SweepScan, RInv, QuietRuns, Busy
      <3>2. CASE ~SweepScan
        <4>1. NewFollow
          BY <1>1, <3>2, StepFollows
        <4> SUFFICES ASSUME NEW t \in tasks', NEW s \in Sources, Busy(t), report'[s].quiet
                     PROVE  t.run = runId
          BY <2>1 DEF QuietRuns, Busy
        <4>2. report[s].quiet
          BY <2>2
        <4> QED
          BY <4>1, <4>2 DEF NewFollow, Follows, RInv, QuietRuns
      <3> QED
        BY <3>1, <3>2
    <2>4. ResultsAreOfTheRun'
      BY <2>1, <2>2 DEF ResultsAreOfTheRun
    <2> QED
      BY <1>1, <1>3, <2>2, <2>3, <2>4 DEF RInv
  <1> QED
    BY <1>4, <1>5

LEMMA InitRInv ==
    ASSUME Init PROVE RInv
  <1>1. TypeOK
    BY InitType
  <1>2. \A s \in Sources : report[s] = NewReport(TRUE)
    BY DEF Init
  <1>3. \A t \in tasks : ~Busy(t)
    BY DEF Init, RunAuditMessage, Busy
  <1> QED
    BY <1>1, <1>2, <1>3 DEF RInv, CodeMatchesStatus, QuietRuns, ResultsAreOfTheRun, NewReport

LEMMA ResultsInvariance == Spec => []RInv
  <1>1. Init => RInv
    BY InitRInv
  <1>2. RInv /\ [Next]_vars => RInv'
    BY NextRInv
  <1> QED
    BY <1>1, <1>2, PTL DEF Spec

(* The error code of every report tells its outcome: whatever was noted by retries, a
   completed report carries none and a failed one carries one with its detail. *)
THEOREM CodeCorrect == Spec => []CodeMatchesStatus
  <1>1. RInv => CodeMatchesStatus
    BY DEF RInv
  <1> QED
    BY <1>1, ResultsInvariance, PTL

(* Unless a task was past its run check at the rerun, every report holds what a task
   of the current run wrote, whatever stale, duplicated and redelivered tasks of
   earlier runs do. *)
THEOREM RunsKeptApart == Spec => []ResultsAreOfTheRun
  <1>1. RInv => ResultsAreOfTheRun
    BY DEF RInv
  <1> QED
    BY <1>1, ResultsInvariance, PTL

-------------------------------------------------------------------------------
(* What the sweeper knows.                                                     *)

(* A row that was not written since the scan is still older than the cutoff. *)
SweepsKnow ==
    \A t \in tasks : t.kind = "sweep" => t.seen <= modified /\ (StillStuck(t) => aged)

(* The columns of the audit row a step may change together. *)
LEMMA StepAudits ==
    ASSUME TypeOK, [Next]_vars
    PROVE  \/ status' = status /\ modified' = modified /\ aged' = aged
           \/ modified' = modified + 1
           \/ Age
  <1>1. ASSUME NEW t \in tasks, WorkerStep(t)
        PROVE  (status' = status /\ modified' = modified /\ aged' = aged) \/ modified' = modified + 1
    <2>1. CASE ClaimRun(t) \/ PublishChord(t) \/ SendReportReady(t)
      BY <2>1 DEF ClaimRun, PublishChord, SendReportReady, WriteAudit, auditVars
    <2>2. CASE SourceStep(t)
      BY <2>2 DEF SourceStep, StartSource, MarkRunning, FetchSubmits, FetchRetries,
                  FetchBreaks, FetchCompletes, FetchFails, auditVars
    <2>3. CASE PollStep(t)
      BY <2>3 DEF PollStep, StartPoll, PollAgain, PollBreaks, PollCompletes, PollFails, auditVars
    <2>4. CASE FinishStep(t)
      BY <2>4 DEF FinishStep, CheckRun, CloseRun, FinishReturns, CheckAgain, ListUnfinished,
                  FailNext, WriteAudit, auditVars
    <2> QED
      BY <1>1, <2>1, <2>2, <2>3, <2>4 DEF WorkerStep
  <1>2. ASSUME NEW t \in tasks, SweepFail(t) \/ Fault(t)
        PROVE  (status' = status /\ modified' = modified /\ aged' = aged) \/ modified' = modified + 1
    <2>1. CASE SweepFail(t)
      BY <2>1 DEF SweepFail, WriteAudit
    <2>2. CASE Fault(t)
      BY <2>2 DEF Fault, Lose, Redeliver, Duplicate, auditVars
    <2> QED
      BY <1>2, <2>1, <2>2
  <1>3. CASE SweepScan \/ Expire \/ Rerun \/ UNCHANGED vars
    BY <1>3 DEF SweepScan, Expire, Rerun, WriteAudit, auditVars, vars
  <1> QED
    BY <1>1, <1>2, <1>3 DEF Next

LEMMA NextSweepsKnow ==
    ASSUME TypeOK, SweepsKnow, [Next]_vars PROVE SweepsKnow'
  <1> SUFFICES ASSUME NEW t \in tasks', t.kind = "sweep"
               PROVE  t.seen <= modified' /\ (StillStuck(t)' => aged')
    BY DEF SweepsKnow
  <1>1. modified \in Nat
    BY DEF TypeOK
  <1>2. CASE t \in tasks
    <2>1. t.seen <= modified /\ (StillStuck(t) => aged)
      BY <1>2 DEF SweepsKnow
    <2>2. t.seen \in Nat
      BY <1>2, TaskKinds DEF TypeOK, Sweep
    <2>3. CASE status' = status /\ modified' = modified /\ aged' = aged
      BY <2>1, <2>3 DEF StillStuck
    <2>4. CASE modified' = modified + 1
      BY <1>1, <2>1, <2>2, <2>4 DEF StillStuck
    <2>5. CASE Age
      BY <2>1, <2>5 DEF Age
    <2> QED
      BY <2>3, <2>4, <2>5, StepAudits
  <1>3. CASE t \notin tasks
    <2>1. CASE SweepScan
      BY <1>1, <1>3, <2>1 DEF SweepScan, Stuck, StillStuck, auditVars
    <2>2. CASE ~SweepScan
      BY <1>3, <2>2, StepFollows DEF NewFollow, Follows
    <2> QED
      BY <2>1, <2>2
  <1> QED
    BY <1>2, <1>3

LEMMA NextSpares ==
    ASSUME TypeOK, SweepsKnow, [Next]_vars
    PROVE  status' = "failed" /\ status # "failed" => aged \/ (AllFinished /\ Succeeded = {})
  <1> DEFINE Spares == status' = "failed" /\ status # "failed" =>
                          aged \/ (AllFinished /\ Succeeded = {})
  <1>1. CASE Inert
    BY <1>1 DEF Inert, InFlightAuditStatuses
  <1>2. ASSUME NEW t \in tasks, CloseRun(t) PROVE Spares
    <2>1. status' = AuditStatusOf(Succeeded) /\ AllFinished
      BY <1>2 DEF CloseRun, WriteAudit, ClosesRun
    <2> QED
      BY <2>1 DEF AuditStatusOf, Succeeded
  <1>3. ASSUME NEW t \in tasks, SweepFail(t), StillStuck(t) PROVE Spares
    BY <1>3 DEF SweepFail, SweepsKnow
  <1>4. ASSUME NEW t \in tasks, SendReportReady(t) PROVE Spares
    BY <1>4 DEF SendReportReady, auditVars
  <1>5. CASE Expire \/ Rerun
    BY <1>5 DEF Expire, Rerun, WriteAudit
  <1> QED
    BY <1>1, <1>2, <1>3, <1>4, <1>5, StepCases

(* The sweeper fails no run that was claimed or rerun since its scan: an audit that
   fails with a report unfinished or succeeded was older than the cutoff at that moment. *)
THEOREM SweepSparesLiveRuns == Spec => SweepOnlyFailsStuckRuns
  <1> DEFINE Inv == TypeOK /\ SweepsKnow
             Spares == status' = "failed" /\ status # "failed" =>
                          aged \/ (AllFinished /\ Succeeded = {})
  <1>1. ASSUME Init PROVE Inv
    <2>1. \A t \in tasks : t.kind # "sweep"
      BY <1>1 DEF Init, RunAuditMessage
    <2> QED
      BY <1>1, <2>1, InitType DEF SweepsKnow
  <1>2. Inv /\ [Next]_vars => Inv'
    BY NextType, NextSweepsKnow
  <1>3. Inv /\ [Next]_vars => [Spares]_vars
    BY NextSpares
  <1> QED
    BY <1>1, <1>2, <1>3, PTL DEF Spec, SweepOnlyFailsStuckRuns

-------------------------------------------------------------------------------
(* The refinement: every step of AuditRun is a step of RunPromise, or changes  *)
(* nothing of it.                                                              *)

(* Each close writes the audit row, so that no two owed signals are alike. *)
SignalsNumbered == \A t \in Announcers : t.write < modified

(* What the refinement rests on; it holds next to run_now as well. *)
PInv == TypeOK /\ StatusMatchesReports /\ SignalsNumbered

LEMMA SignalsAre == PromisedSignals = Announcers /\ PromisedSignals' = Announcers'
  BY DEF PromisedSignals, Announcers

(* The outcome of a source, in terms of the status of its report. *)
LEMMA OutcomesAre ==
    /\ DOMAIN PromisedOutcome = Sources
    /\ \A s \in Sources :
        /\ PromisedOutcome[s] = "succeeded" <=> s \in Succeeded
        /\ PromisedOutcome[s] = "open" <=> ~Finished(s)
        /\ PromisedOutcome[s] \in {"open", "succeeded", "failed"}
  BY DEF PromisedOutcome, Succeeded, Finished, FinishedReportStatuses

LEMMA PhasesAre ==
    /\ PromisedPhase = "queued" <=> status = "pending"
    /\ PromisedPhase = "working" <=> status = "running"
    /\ PromisedPhase = "closed" <=> status \notin {"pending", "running"}
    /\ PromisedPhase \in {"queued", "working", "closed"}
  BY DEF PromisedPhase

LEMMA OutcomesKept ==
    ASSUME report' = report
    PROVE  PromisedOutcome' = PromisedOutcome
  BY DEF PromisedOutcome, Succeeded, Finished

(* A task writes one report of a run in flight: Settle, or nothing is promised of it. *)
LEMMA SettleStep ==
    ASSUME PInv, NEW s \in Sources, NEW r, Writes(s, r), status' = status, runId' = runId,
           announced' = announced, Announcers' = Announcers
    PROVE  [Promise!Next]_(Promise!vars)
  <1>1. status \in InFlightAuditStatuses
    BY DEF PInv, StatusMatchesReports, AllFinished, Writes
  <1>2. PromisedPhase # "closed" /\ PromisedPhase' = PromisedPhase /\ PromisedSignals' = PromisedSignals
    BY <1>1, PhasesAre, SignalsAre DEF PromisedPhase, InFlightAuditStatuses
  <1>3. PromisedOutcome[s] = "open"
    BY OutcomesAre DEF Writes
  <1>4. \A u \in Sources \ {s} : PromisedOutcome'[u] = PromisedOutcome[u]
    BY DEF PromisedOutcome, Succeeded, Finished, Writes
  <1>5. PromisedOutcome'[s] \in {"open", "succeeded", "failed"}
    BY DEF PromisedOutcome
  <1>6. PromisedOutcome' = [PromisedOutcome EXCEPT ![s] = PromisedOutcome'[s]]
    BY <1>4 DEF PromisedOutcome
  <1>7. CASE PromisedOutcome'[s] = "open"
    <2>1. PromisedOutcome' = PromisedOutcome
      BY <1>3, <1>6, <1>7 DEF PromisedOutcome
    <2> QED
      BY <1>2, <2>1 DEF Promise!vars
  <1>8. CASE PromisedOutcome'[s] \in {"succeeded", "failed"}
    <2>1. Promise!Settle(s)
      BY <1>2, <1>3, <1>6, <1>8 DEF Promise!Settle
    <2> QED
      BY <2>1 DEF Promise!Next
  <1> QED
    BY <1>5, <1>7, <1>8

LEMMA StutterStep ==
    ASSUME report' = report, PromisedPhase' = PromisedPhase, runId' = runId,
           announced' = announced, Announcers' = Announcers
    PROVE  [Promise!Next]_(Promise!vars)
  BY OutcomesKept, SignalsAre DEF Promise!vars

(* A task that neither claims nor closes the run nor announces it. *)
LEMMA TaskStep ==
    ASSUME PInv, NEW t \in tasks, PublishChord(t) \/ SourceStep(t) \/ PollStep(t) \/ FinishStep(t),
           ~CloseRun(t)
    PROVE  [Promise!Next]_(Promise!vars)
  <1>1. TypeOK
    BY DEF PInv
  <1>2. Inert
    BY <1>1, ClaimInert, SourceInert, PollInert, FinishInert
  <1>3. OthersStay(t)
    BY <1>1, ClaimFollows, SourceFollows, PollFollows, FinishFollows
  <1>4. t.kind # "announce" /\ status' = status
    <2>1. CASE PublishChord(t)
      BY <2>1 DEF PublishChord, At, auditVars
    <2>2. CASE SourceStep(t)
      BY <2>2 DEF SourceStep, StartSource, MarkRunning, FetchSubmits, FetchRetries,
                  FetchBreaks, FetchCompletes, FetchFails, At, auditVars
    <2>3. CASE PollStep(t)
      BY <2>3 DEF PollStep, StartPoll, PollAgain, PollBreaks, PollCompletes, PollFails, At, auditVars
    <2>4. CASE FinishStep(t)
      BY <2>4 DEF FinishStep, CheckRun, FinishReturns, CheckAgain, ListUnfinished, FailNext, At,
                  auditVars
    <2> QED
      BY <2>1, <2>2, <2>3, <2>4
  <1>5. Announcers' = Announcers
    BY <1>2, <1>3, <1>4 DEF Inert, OthersStay, Announcers
  <1>6. report' = report \/ \E s \in Sources : Writes(s, t.run)
    BY <1>1, SourceWrites, PollWrites, FinishWrites DEF PublishChord
  <1>7. CASE report' = report
    BY <1>2, <1>4, <1>5, <1>7, StutterStep DEF Inert, PromisedPhase
  <1>8. CASE \E s \in Sources : Writes(s, t.run)
    BY <1>2, <1>4, <1>5, <1>8, SettleStep DEF Inert
  <1> QED
    BY <1>6, <1>7, <1>8

(* The claim begins the run. *)
LEMMA ClaimStep ==
    ASSUME PInv, NEW t \in tasks, ClaimRun(t)
    PROVE  [Promise!Next]_(Promise!vars)
  <1>1. TypeOK
    BY DEF PInv
  <1>2. Announcers' = Announcers
    <2>1. t.kind # "announce"
      BY DEF ClaimRun, At
    <2> QED
      BY <1>1, <2>1, ClaimInert, ClaimFollows DEF Inert, OthersStay, Announcers
  <1>3. report' = report /\ runId' = runId /\ announced' = announced
    BY DEF ClaimRun
  <1>4. CASE status = "pending"
    <2>1. PromisedPhase = "queued" /\ PromisedPhase' = "working"
      BY <1>4 DEF ClaimRun, WriteAudit, PromisedPhase
    <2>2. Promise!Begin
      BY <1>2, <1>3, <2>1, OutcomesKept, SignalsAre DEF Promise!Begin
    <2> QED
      BY <2>2 DEF Promise!Next
  <1>5. CASE status # "pending"
    BY <1>2, <1>3, <1>5, StutterStep DEF ClaimRun, PromisedPhase
  <1> QED
    BY <1>4, <1>5

(* finish() and the sweeper close the run and fail what is open. *)
LEMMA ClosingStep ==
    ASSUME PInv, Closing, StatusMatchesReports'
    PROVE  Promise!Close
  <1> DEFINE a == Announce(runId, Succeeded)
  <1>1. PromisedPhase # "closed" /\ PromisedPhase' = "closed"
    BY DEF Closing, PromisedPhase, InFlightAuditStatuses
  <1>2. AllFinished'
    BY DEF Closing, StatusMatchesReports
  <1>3. ASSUME NEW s \in Sources
        PROVE  PromisedOutcome'[s] = IF PromisedOutcome[s] = "open" THEN "failed" ELSE PromisedOutcome[s]
    <2>1. (Finished(s))' /\ (s \in Succeeded' <=> s \in Succeeded)
      BY <1>2 DEF Closing, AllFinished
    <2>2. s \in Succeeded => Finished(s)
      BY DEF Succeeded, Finished, FinishedReportStatuses
    <2> QED
      BY <2>1, <2>2 DEF PromisedOutcome
  <1>4. PromisedOutcome' = [s \in Sources |-> IF PromisedOutcome[s] = "open" THEN "failed"
                                              ELSE PromisedOutcome[s]]
    BY <1>3 DEF PromisedOutcome
  <1>5. Promise!OutcomeSucceeded = Succeeded
    BY OutcomesAre DEF Promise!OutcomeSucceeded, Succeeded
  <1>6. a.run = runId /\ a.succeeded = Promise!OutcomeSucceeded /\ a.write = modified
    BY <1>5 DEF Announce
  <1> HIDE DEF a
  <1>7. a \notin Announcers
    <2>1. modified \in Nat
      BY DEF PInv, TypeOK
    <2> QED
      BY <1>6, <2>1 DEF PInv, SignalsNumbered
  <1>8. Announcers' = Announcers \cup {a}
    BY DEF Closing, a
  <1>9. /\ a \in PromisedSignals' \ PromisedSignals
        /\ PromisedSignals' = PromisedSignals \cup {a}
    BY <1>7, <1>8, SignalsAre
  <1> QED
    BY <1>1, <1>4, <1>6, <1>9 DEF Promise!Close, Closing

LEMMA CloseStep ==
    ASSUME PInv, NEW t \in tasks, CloseRun(t) \/ (SweepFail(t) /\ StillStuck(t))
    PROVE  [Promise!Next]_(Promise!vars)
  <1>1. Closing /\ StatusMatchesReports'
    BY CloseRunCloses, SweepFailCloses DEF PInv
  <1> QED
    BY <1>1, ClosingStep DEF Promise!Next

LEMMA SignalStep ==
    ASSUME PInv, NEW t \in tasks, SendReportReady(t)
    PROVE  [Promise!Next]_(Promise!vars)
  <1>1. t \in Announcers /\ Announcers' = Announcers \ {t}
    BY DEF SendReportReady, Announcers
  <1>2. PromisedSignals' = PromisedSignals \ {t} /\ t \in PromisedSignals
    BY <1>1, SignalsAre
  <1>3. PromisedOutcome' = PromisedOutcome /\ PromisedPhase' = PromisedPhase /\ runId' = runId
    BY OutcomesKept DEF SendReportReady, auditVars, PromisedPhase
  <1>4. announced' = [announced EXCEPT ![t.run] = @ + 1]
    BY DEF SendReportReady
  <1>5. Promise!Signal(t)
    BY <1>2, <1>3, <1>4 DEF Promise!Signal
  <1> QED
    BY <1>2, <1>5 DEF Promise!Next

(* A fault loses a signal at most. *)
LEMMA FaultStep ==
    ASSUME PInv, NEW t \in tasks, Fault(t)
    PROVE  [Promise!Next]_(Promise!vars)
  <1>1. /\ report' = report /\ runId' = runId /\ announced' = announced
        /\ PromisedPhase' = PromisedPhase
    BY DEF Fault, Lose, Redeliver, Duplicate, auditVars, PromisedPhase
  <1>2. CASE Lose(t) /\ t.kind = "announce"
    <2>1. t \in Announcers /\ Announcers' = Announcers \ {t}
      BY <1>2 DEF Lose, Announcers
    <2>2. PromisedSignals' = PromisedSignals \ {t} /\ t \in PromisedSignals
      BY <2>1, SignalsAre
    <2>3. Promise!LoseSignal(t)
      BY <1>1, <2>2, OutcomesKept DEF Promise!LoseSignal
    <2> QED
      BY <2>2, <2>3 DEF Promise!Next
  <1>3. CASE t.kind # "announce"
    <2>1. Inert /\ OthersStay(t)
      BY OthersInert, FaultFollows DEF PInv
    <2>2. Announcers' = Announcers
      BY <1>3, <2>1 DEF Inert, OthersStay, Announcers
    <2> QED
      BY <1>1, <2>2, StutterStep
  <1> QED
    BY <1>2, <1>3 DEF Fault, Redeliver, Duplicate

LEMMA RerunStep ==
    ASSUME PInv, Rerun
    PROVE  [Promise!Next]_(Promise!vars)
  <1>1. PromisedPhase # "working" /\ PromisedPhase' = "queued"
    BY DEF Rerun, Rerunnable, WriteAudit, PromisedPhase
  <1>2. PromisedOutcome' = [s \in Sources |-> "open"]
    <2>1. \A s \in Sources : report'[s].status = "pending"
      BY DEF Rerun, NewReport
    <2> QED
      BY <2>1 DEF PromisedOutcome, Succeeded, Finished, FinishedReportStatuses, SucceededReportStatuses
  <1>3. Announcers' = Announcers
    BY DEF Rerun, RunAuditMessage, Announcers
  <1>4. Promise!Restart
    BY <1>1, <1>2, <1>3, SignalsAre DEF Rerun, Promise!Restart
  <1> QED
    BY <1>4 DEF Promise!Next

(* The rest changes nothing of what is promised. *)
LEMMA QuietStep ==
    ASSUME PInv, \/ SweepScan \/ Age \/ Expire \/ UNCHANGED vars
                 \/ \E t \in tasks : SweepFail(t) /\ ~StillStuck(t)
    PROVE  [Promise!Next]_(Promise!vars)
  <1>1. report' = report /\ runId' = runId /\ announced' = announced /\ Announcers' = Announcers
    BY DEF SweepScan, Age, Expire, SweepFail, WriteAudit, vars, auditVars, Announcers
  <1>2. PromisedPhase' = PromisedPhase
    BY DEF SweepScan, Age, Expire, SweepFail, WriteAudit, vars, auditVars, PromisedPhase,
           ReusableAuditStatuses
  <1> QED
    BY <1>1, <1>2, StutterStep

LEMMA PromiseInit ==
    ASSUME Init PROVE Promise!Init
  <1>1. PromisedPhase = "queued" /\ PromisedSignals = {}
    BY DEF Init, RunAuditMessage, PromisedPhase, PromisedSignals
  <1>2. PromisedOutcome = [s \in Sources |-> "open"]
    BY DEF Init, NewReport, PromisedOutcome, Succeeded, Finished, FinishedReportStatuses,
           SucceededReportStatuses
  <1> QED
    BY <1>1, <1>2 DEF Init, Promise!Init, Runs

LEMMA PromiseNext ==
    ASSUME PInv, [Next]_vars PROVE [Promise!Next]_(Promise!vars)
  <1>1. ASSUME NEW t \in tasks, WorkerStep(t) PROVE [Promise!Next]_(Promise!vars)
    BY <1>1, ClaimStep, TaskStep, CloseStep, SignalStep DEF WorkerStep
  <1>2. ASSUME NEW t \in tasks, SweepFail(t) PROVE [Promise!Next]_(Promise!vars)
    BY <1>2, CloseStep, QuietStep
  <1> QED
    BY <1>1, <1>2, FaultStep, RerunStep, QuietStep DEF Next

(* A new signal carries the number of the write that closed the run. *)
LEMMA NextNumbered ==
    ASSUME TypeOK, TypeOK', SignalsNumbered, [Next]_vars PROVE SignalsNumbered'
  <1>1. modified \in Nat /\ modified' \in Nat /\ \A t \in Announcers : t.write \in Nat
    BY TaskKinds DEF TypeOK, Announcers, Announcer
  <1>2. modified <= modified'
    <2>1. modified' = modified \/ modified' = modified + 1
      BY StepAudits DEF Age
    <2> QED
      BY <1>1, <2>1
  <1>3. CASE Announcers' \subseteq Announcers
    BY <1>1, <1>2, <1>3 DEF SignalsNumbered
  <1>4. ASSUME NEW t \in tasks, CloseRun(t) \/ (SweepFail(t) /\ StillStuck(t))
        PROVE  SignalsNumbered'
    <2> DEFINE a == Announce(runId, Succeeded)
    <2>1. Announcers' = Announcers \cup {a}
      BY <1>4, CloseRunCloses, SweepFailCloses DEF Closing
    <2>2. modified' = modified + 1
      BY <1>4 DEF CloseRun, SweepFail, WriteAudit
    <2>3. a.write = modified
      BY DEF Announce
    <2> HIDE DEF a
    <2> QED
      BY <1>1, <1>2, <2>1, <2>2, <2>3 DEF SignalsNumbered
  <1>5. Inert \/ Expire \/ Rerun \/ (\E t \in tasks : SendReportReady(t)) => Announcers' \subseteq Announcers
    BY DEF Inert, Expire, Rerun, RunAuditMessage, SendReportReady, Announcers
  <1> QED
    BY <1>3, <1>4, <1>5, StepCases

LEMMA InitPInv == Init => PInv
  <1> SUFFICES ASSUME Init PROVE PInv
    OBVIOUS
  <1>1. Announcers = {}
    BY DEF Init, RunAuditMessage, Announcers
  <1> QED
    BY <1>1, InitIInv DEF PInv, IInv, SignalsNumbered

(* The refinement: with any number of sources, retries, reruns and faults, an audit
   keeps its promise.  Each source settles at most once per run, a closed run has all
   settled and stays, and owes one signal that names exactly what succeeded. *)
THEOREM Refinement == Spec => KeepsPromise
  <1>1. Init => Promise!Init
    BY PromiseInit
  <1>2. PInv /\ [Next]_vars => [Promise!Next]_(Promise!vars)
    BY PromiseNext
  <1>3. PInv /\ IInv /\ [Next]_vars => PInv'
    BY NextIInv, NextNumbered DEF PInv, IInv
  <1>4. Spec => []PInv
    BY <1>3, InitPInv, Invariance, PTL DEF Spec
  <1> QED
    BY <1>1, <1>2, <1>4, PTL DEF Spec, KeepsPromise, Promise!Spec
===============================================================================

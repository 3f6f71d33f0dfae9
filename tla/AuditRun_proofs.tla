--------------------------- MODULE AuditRun_proofs ----------------------------
(* Theorems about AuditRun, for every set of sources and every bound. *)
EXTENDS AuditRun, TLAPS

(* A task is a record of the kind its kind field names. *)
LEMMA TaskKinds ==
    ASSUME NEW t \in Task
    PROVE  /\ t.kind = "run_audit" => t \in RunAuditTask
           /\ t.kind = "run_source" => t \in RunSourceTask
           /\ t.kind = "poll_urlscan" => t \in PollTask
           /\ t.kind = "finish_audit" => t \in FinishTask
           /\ t.kind = "sweep" => t \in Sweep
           /\ t.kind = "announce" => t \in Announcer
  BY DEF Task, RunAuditTask, RunSourceTask, PollTask, FinishTask, Sweep, Announcer

(* The reports a task may write are reports. *)
LEMMA ReportTypes ==
    ASSUME TypeOK, NEW s \in Sources
    PROVE  /\ report[s] \in Report
           /\ [report[s] EXCEPT !.status = "running"] \in Report
           /\ \A outcome \in SucceededReportStatuses : FinalReport(s, outcome) \in Report
           /\ \A c \in ErrorCode : FailedReport(s, c) \in Report
           /\ \A c \in ErrorCode, n \in Nat : FailedAfterRetries(s, c, n) \in Report
           /\ \A n \in Nat : RetriedReport(s, n) \in Report
  <1>1. report[s] \in Report
    BY DEF TypeOK
  <1>2. [report[s] EXCEPT !.status = "running"] \in Report
    BY <1>1 DEF Report, ReportStatus
  <1>3. \A outcome \in SucceededReportStatuses : FinalReport(s, outcome) \in Report
    BY <1>1 DEF Report, ReportStatus, SucceededReportStatuses, ErrorCode, NoCode, FinalReport
  <1>4. \A c \in ErrorCode : FailedReport(s, c) \in Report
    BY <1>1 DEF Report, ReportStatus, FailedReport
  <1>5. \A c \in ErrorCode, n \in Nat : FailedAfterRetries(s, c, n) \in Report
    BY <1>4 DEF Report, FailedAfterRetries
  <1>6. \A n \in Nat : RetriedReport(s, n) \in Report
    BY <1>1 DEF Report, ErrorCode, RetriedReport
  <1> QED
    BY <1>1, <1>2, <1>3, <1>4, <1>5, <1>6

LEMMA SaveType ==
    ASSUME TypeOK, NEW s \in Sources, NEW r \in Runs, NEW fields \in Report, Save(s, r, fields)
    PROVE  report' \in [Sources -> Report]
  <1>1. [fields EXCEPT !.writer = r] \in Report
    BY NumbersAssumption DEF Report, Runs
  <1> QED
    BY <1>1 DEF TypeOK, Save

(* What a header task leaves behind when it returns. *)
LEMMA HeaderType ==
    ASSUME TypeOK, NEW t \in tasks, t.kind = "run_source", NEW more \in SUBSET Task,
           ReturnFromHeader(t, more)
    PROVE  tasks' \subseteq Task /\ waiting' \in [Chords -> SUBSET Sources]
  <1>1. t \in RunSourceTask
    BY TaskKinds DEF TypeOK
  <1>2. FinishMessage(t.chord, t.run) \in FinishTask
    BY <1>1 DEF FinishMessage, FinishTask, RunSourceTask, Chords
  <1>3. waiting[t.chord] \ {t.source} \in SUBSET Sources
    BY <1>1 DEF TypeOK, RunSourceTask
  <1> QED
    BY <1>1, <1>2, <1>3 DEF TypeOK, ReturnFromHeader, Task


-------------------------------------------------------------------------------
(* Type correctness, one lemma per task. *)

(* A write of the audit row keeps the types of its columns. *)
LEMMA WriteAuditType ==
    ASSUME TypeOK, NEW newStatus \in AuditStatus, WriteAudit(newStatus)
    PROVE  status' \in AuditStatus /\ modified' \in Nat /\ aged' \in BOOLEAN
  <1>1. modified \in Nat /\ modified' = modified + 1
    BY DEF TypeOK, WriteAudit
  <1>2. modified' \in Nat
    BY <1>1
  <1> QED
    BY <1>2 DEF WriteAudit

LEMMA ClaimType ==
    ASSUME TypeOK, NEW t \in tasks, ClaimRun(t) \/ PublishChord(t)
    PROVE  TypeOK'
  <1>1. t.kind = "run_audit" /\ t \in RunAuditTask
    BY TaskKinds DEF TypeOK, ClaimRun, PublishChord, At
  <1>2. CASE ClaimRun(t)
    <2>1. [t EXCEPT !.pc = "claimed"] \in RunAuditTask
      BY <1>1 DEF RunAuditTask
    <2>2. [t EXCEPT !.pc = "claimed"] \in Task
      BY <2>1 DEF Task
    <2>3. status' \in AuditStatus /\ modified' \in Nat /\ aged' \in BOOLEAN
      <3>1. "running" \in AuditStatus
        BY DEF AuditStatus
      <3> QED
        BY <1>2, <3>1, WriteAuditType DEF ClaimRun, TypeOK
    <2>4. tasks' \subseteq Task
      BY <1>2, <2>2 DEF TypeOK, ClaimRun, Goto, Replace
    <2> QED
      BY <1>2, <2>3, <2>4 DEF TypeOK, ClaimRun
  <1>3. CASE PublishChord(t)
    <2>1. <<t.msg, t.copy>> \in Chords /\ t.copy \in Copies
      BY <1>1 DEF RunAuditTask, Chords
    <2>2. \A s \in Sources : SourceMessage(<<t.msg, t.copy>>, runId, s) \in RunSourceTask
      BY <2>1 DEF TypeOK, SourceMessage, RunSourceTask
    <2> QED
      BY <1>3, <2>1, <2>2 DEF TypeOK, PublishChord, Task, auditVars
  <1> QED
    BY <1>2, <1>3

LEMMA SourceType ==
    ASSUME TypeOK, NEW t \in tasks, SourceStep(t)
    PROVE  TypeOK'
  <1>1. t.kind = "run_source" /\ t \in RunSourceTask
    BY TaskKinds DEF TypeOK, SourceStep, StartSource, MarkRunning, FetchSubmits, FetchRetries,
                     FetchBreaks, FetchCompletes, FetchFails, At
  <1>2. /\ t.source \in Sources /\ t.run \in Runs /\ t.retries \in Nat
        /\ [t EXCEPT !.pc = "matched"] \in Task
        /\ [t EXCEPT !.pc = "fetching"] \in Task
        /\ [t EXCEPT !.pc = "queued", !.retries = t.retries + 1] \in Task
    <2>1. t.source \in Sources /\ t.run \in Runs /\ t.retries \in Nat
      BY <1>1 DEF RunSourceTask
    <2>2. /\ [t EXCEPT !.pc = "matched"] \in RunSourceTask
          /\ [t EXCEPT !.pc = "fetching"] \in RunSourceTask
      BY <1>1 DEF RunSourceTask
    <2>3. \A n \in Nat : [t EXCEPT !.pc = "queued", !.retries = n] \in RunSourceTask
      BY <1>1 DEF RunSourceTask
    <2>4. t.retries + 1 \in Nat
      BY <2>1
    <2> QED
      BY <2>1, <2>2, <2>3, <2>4 DEF Task
  <1>3. PollMessage(t) \in Task
    BY <1>1 DEF RunSourceTask, PollMessage, PollTask, Task
  <1>4. \A more \in SUBSET Task :
            ReturnFromHeader(t, more) => tasks' \subseteq Task /\ waiting' \in [Chords -> SUBSET Sources]
    BY <1>1, HeaderType
  <1>5. \A fields \in Report : Save(t.source, t.run, fields) => report' \in [Sources -> Report]
    BY <1>2, SaveType
  <1>6. \A c \in SourceErrors : c \in ErrorCode
    BY ErrorsAssumption
  <1>7. "internal" \in ErrorCode
    BY DEF ErrorCode
  <1>8. CASE StartSource(t)
    BY <1>8, <1>2, <1>4 DEF StartSource, Goto, Replace, TypeOK, auditVars
  <1>9. CASE MarkRunning(t)
    BY <1>9, <1>2, <1>4, <1>5, ReportTypes DEF MarkRunning, Goto, Replace, TypeOK, auditVars
  <1>10. CASE FetchSubmits(t)
    BY <1>10, <1>2, <1>3, <1>4, <1>5, ReportTypes DEF FetchSubmits, TypeOK, auditVars
  <1>11. CASE FetchRetries(t)
    <2>1. RetriedReport(t.source, t.retries + 1) \in Report
      <3>1. t.retries + 1 \in Nat
        BY <1>2
      <3> QED
        BY <3>1, <1>2, ReportTypes
    <2>2. report' \in [Sources -> Report]
      BY <1>11, <1>5, <2>1 DEF FetchRetries
    <2>3. tasks' \subseteq Task
      BY <1>11, <1>2 DEF FetchRetries, Replace, TypeOK
    <2> QED
      BY <1>11, <2>2, <2>3 DEF FetchRetries, TypeOK, auditVars
  <1>12. CASE FetchBreaks(t)
    BY <1>12, <1>2, <1>4, <1>5, <1>7, ReportTypes DEF FetchBreaks, TypeOK, auditVars
  <1>13. CASE \E outcome \in SucceededReportStatuses : FetchCompletes(t, outcome)
    BY <1>13, <1>2, <1>4, <1>5, ReportTypes DEF FetchCompletes, TypeOK, auditVars
  <1>14. CASE \E c \in SourceErrors : FetchFails(t, c)
    BY <1>14, <1>2, <1>4, <1>5, <1>6, ReportTypes DEF FetchFails, TypeOK, auditVars
  <1> QED
    BY <1>8, <1>9, <1>10, <1>11, <1>12, <1>13, <1>14 DEF SourceStep

LEMMA PollType ==
    ASSUME TypeOK, NEW t \in tasks, PollStep(t)
    PROVE  TypeOK'
  <1>1. t.kind = "poll_urlscan" /\ t \in PollTask
    BY TaskKinds DEF TypeOK, PollStep, StartPoll, PollAgain, PollBreaks, PollCompletes, PollFails, At
  <1>2. /\ t.source \in Sources /\ t.run \in Runs
        /\ [t EXCEPT !.pc = "polling"] \in Task
        /\ [t EXCEPT !.pc = "queued", !.polls = t.polls + 1] \in Task
    <2>1. t.source \in Sources /\ t.run \in Runs /\ t.polls \in Nat
      BY <1>1 DEF PollTask
    <2>2. [t EXCEPT !.pc = "polling"] \in PollTask
      BY <1>1 DEF PollTask
    <2>3. \A n \in Nat : [t EXCEPT !.pc = "queued", !.polls = n] \in PollTask
      BY <1>1 DEF PollTask
    <2>4. t.polls + 1 \in Nat
      BY <2>1
    <2> QED
      BY <2>1, <2>2, <2>3, <2>4 DEF Task
  <1>3. \A fields \in Report : Save(t.source, t.run, fields) => report' \in [Sources -> Report]
    BY <1>2, SaveType
  <1>4. \A c \in SourceErrors \cup {"timeout"} : c \in ErrorCode
    BY ErrorsAssumption DEF ErrorCode
  <1>5. CASE StartPoll(t) \/ PollAgain(t) \/ PollBreaks(t)
    BY <1>5, <1>2 DEF StartPoll, PollAgain, PollBreaks, Goto, Replace, TypeOK, auditVars
  <1>6. CASE \E outcome \in SucceededReportStatuses : PollCompletes(t, outcome)
    BY <1>6, <1>2, <1>3, ReportTypes DEF PollCompletes, TypeOK, auditVars
  <1>7. CASE \E c \in SourceErrors \cup {"timeout"} : PollFails(t, c)
    BY <1>7, <1>2, <1>3, <1>4, ReportTypes DEF PollFails, TypeOK, auditVars
  <1> QED
    BY <1>5, <1>6, <1>7 DEF PollStep

LEMMA AuditStatusOfType ==
    ASSUME NEW S PROVE AuditStatusOf(S) \in AuditStatus
  BY DEF AuditStatusOf, AuditStatus

LEMMA FinishType ==
    ASSUME TypeOK, NEW t \in tasks, FinishStep(t)
    PROVE  TypeOK'
  <1>1. t.kind = "finish_audit" /\ t \in FinishTask
    BY TaskKinds DEF TypeOK, FinishStep, CheckRun, CloseRun, FinishReturns, CheckAgain,
                     ListUnfinished, FailNext, At
  <1>2. /\ t.run \in Runs /\ t.todo \in SUBSET Sources
        /\ [t EXCEPT !.pc = "checked"] \in Task
        /\ [t EXCEPT !.pc = "late"] \in Task
        /\ [t EXCEPT !.pc = "closing"] \in Task
        /\ [t EXCEPT !.pc = "queued", !.attempt = t.attempt + 1] \in Task
    <2>1. t.run \in Runs /\ t.todo \in SUBSET Sources /\ t.attempt \in Nat
      BY <1>1 DEF FinishTask
    <2>2. /\ [t EXCEPT !.pc = "checked"] \in FinishTask
          /\ [t EXCEPT !.pc = "late"] \in FinishTask
          /\ [t EXCEPT !.pc = "closing"] \in FinishTask
      BY <1>1 DEF FinishTask
    <2>3. \A n \in Nat : [t EXCEPT !.pc = "queued", !.attempt = n] \in FinishTask
      BY <1>1 DEF FinishTask
    <2>4. t.attempt + 1 \in Nat
      BY <2>1
    <2> QED
      BY <2>1, <2>2, <2>3, <2>4 DEF Task
  <1>3. \A S \in SUBSET Sources : [t EXCEPT !.pc = "failing", !.todo = S] \in Task
    BY <1>1 DEF FinishTask, Task
  <1>4. \A S \in SUBSET Sources : [t EXCEPT !.todo = S] \in Task
    BY <1>1 DEF FinishTask, Task
  <1>5. Announce(runId, Succeeded) \in Task
    BY DEF TypeOK, Announce, Announcer, Task, Succeeded
  <1>6. CASE CheckRun(t) \/ FinishReturns(t) \/ CheckAgain(t)
    BY <1>6, <1>2 DEF CheckRun, FinishReturns, CheckAgain, Goto, Replace, TypeOK, auditVars
  <1>7. CASE CloseRun(t)
    <2>1. status' \in AuditStatus /\ modified' \in Nat /\ aged' \in BOOLEAN
      BY <1>7, AuditStatusOfType, WriteAuditType DEF CloseRun
    <2>2. tasks' \subseteq Task
      BY <1>7, <1>5 DEF CloseRun, Replace, TypeOK
    <2> QED
      BY <1>7, <2>1, <2>2 DEF CloseRun, TypeOK
  <1>8. CASE ListUnfinished(t)
    BY <1>8, <1>3 DEF ListUnfinished, Replace, TypeOK, auditVars
  <1>9. CASE FailNext(t)
    <2>1. CASE t.todo = {}
      BY <1>9, <2>1, <1>2 DEF FailNext, Goto, Replace, TypeOK, auditVars
    <2>2. CASE t.todo # {}
      <3>1. PICK s \in t.todo : /\ Save(s, t.run, FailedReport(s, "timeout"))
                                /\ Replace(t, [t EXCEPT !.todo = t.todo \ {s}])
        BY <1>9, <2>2 DEF FailNext
      <3>2. s \in Sources /\ FailedReport(s, "timeout") \in Report
        BY <1>2, ReportTypes DEF ErrorCode
      <3>3. report' \in [Sources -> Report]
        BY <3>1, <3>2, <1>2, SaveType
      <3>4. [t EXCEPT !.todo = t.todo \ {s}] \in Task
        BY <1>2, <1>4
      <3> QED
        BY <1>9, <3>1, <3>3, <3>4 DEF FailNext, Replace, TypeOK, auditVars
    <2> QED
      BY <2>1, <2>2
  <1> QED
    BY <1>6, <1>7, <1>8, <1>9 DEF FinishStep

LEMMA SignalType ==
    ASSUME TypeOK, NEW t \in tasks, SendReportReady(t)
    PROVE  TypeOK'
  <1>1. t \in Announcer
    BY TaskKinds DEF TypeOK, SendReportReady
  <1>2. t.run \in Runs /\ announced[t.run] + 1 \in Nat
    BY <1>1 DEF TypeOK, Announcer
  <1> QED
    BY <1>2 DEF TypeOK, SendReportReady, auditVars

LEMMA SweepType ==
    ASSUME TypeOK, NEW t \in tasks, SweepFail(t)
    PROVE  TypeOK'
  <1>1. CASE StillStuck(t)
    <2>1. status' \in AuditStatus /\ modified' \in Nat /\ aged' \in BOOLEAN
      <3>1. "failed" \in AuditStatus
        BY DEF AuditStatus
      <3> QED
        BY <1>1, <3>1, WriteAuditType DEF SweepFail
    <2>2. \A s \in Sources : [FailedReport(s, "timeout") EXCEPT !.writer = runId] \in Report
      <3>1. \A s \in Sources : FailedReport(s, "timeout") \in Report
        BY ReportTypes DEF ErrorCode
      <3>2. runId \in 0..MaxRuns
        BY NumbersAssumption DEF TypeOK, Runs
      <3> QED
        BY <3>1, <3>2 DEF Report
    <2>3. report' \in [Sources -> Report]
      BY <1>1, <2>2 DEF SweepFail, TypeOK
    <2>4. Announce(runId, Succeeded) \in Task
      BY DEF TypeOK, Announce, Announcer, Task, Succeeded
    <2>5. tasks' \subseteq Task
      BY <1>1, <2>4 DEF SweepFail, Replace, TypeOK
    <2> QED
      BY <1>1, <2>1, <2>3, <2>5 DEF SweepFail, TypeOK
  <1>2. CASE ~StillStuck(t)
    BY <1>2 DEF SweepFail, TypeOK
  <1> QED
    BY <1>1, <1>2

LEMMA NewReportType ==
    ASSUME NEW q \in BOOLEAN PROVE NewReport(q) \in Report
  BY NumbersAssumption DEF NewReport, Report, ReportStatus, NoCode

LEMMA RerunType ==
    ASSUME TypeOK, Rerun
    PROVE  TypeOK'
  <1>1. runId' \in Runs /\ runId + 1 \in Runs
    BY NumbersAssumption DEF Rerun, TypeOK, Runs
  <1>2. status' \in AuditStatus /\ modified' \in Nat /\ aged' \in BOOLEAN
    <2>1. "pending" \in AuditStatus
      BY DEF AuditStatus
    <2> QED
      BY <2>1, WriteAuditType DEF Rerun
  <1>3. NewReport(Quiet) \in Report
    BY NewReportType DEF Quiet
  <1>4. RunAuditMessage(runId + 1) \in Task
    BY <1>1 DEF RunAuditMessage, RunAuditTask, Copies, Task
  <1> QED
    BY <1>1, <1>2, <1>3, <1>4 DEF Rerun, TypeOK

LEMMA BeatType ==
    ASSUME TypeOK, SweepScan \/ Age \/ Expire
    PROVE  TypeOK'
  <1>1. CASE SweepScan
    <2>1. [kind |-> "sweep", seen |-> modified] \in Task
      BY DEF TypeOK, Sweep, Task
    <2> QED
      BY <1>1, <2>1 DEF SweepScan, TypeOK, auditVars
  <1>2. CASE Age
    BY <1>2 DEF Age, TypeOK
  <1>3. CASE Expire
    <2>1. status' \in AuditStatus /\ modified' \in Nat /\ aged' \in BOOLEAN
      <3>1. "expired" \in AuditStatus
        BY DEF AuditStatus
      <3> QED
        BY <1>3, <3>1, WriteAuditType DEF Expire
    <2> QED
      BY <1>3, <2>1 DEF Expire, TypeOK
  <1> QED
    BY <1>1, <1>2, <1>3

(* A redelivered or duplicated task is a task. *)
LEMMA FaultType ==
    ASSUME TypeOK, NEW t \in tasks, Fault(t)
    PROVE  TypeOK'
  <1>1. faults' \in 0..MaxFaults
    BY NumbersAssumption DEF Fault, Lose, Redeliver, Duplicate, TypeOK
  <1>2. CASE Lose(t)
    BY <1>1, <1>2 DEF Lose, TypeOK, auditVars
  <1>3. ASSUME t.kind \notin {"sweep", "announce"}
        PROVE  /\ [t EXCEPT !.copy = 1] \in Task
               /\ t.kind # "finish_audit" => [t EXCEPT !.pc = "queued"] \in Task
               /\ t.kind = "finish_audit" => [t EXCEPT !.pc = "queued", !.todo = {}] \in Task
    <2>1. t.kind \in {"run_audit", "run_source", "poll_urlscan", "finish_audit"}
      BY <1>3 DEF TypeOK, Task, RunAuditTask, RunSourceTask, PollTask, FinishTask, Sweep, Announcer
    <2>2. CASE t.kind = "run_audit"
      <3>1. t \in RunAuditTask
        BY <2>2, TaskKinds DEF TypeOK
      <3>2. [t EXCEPT !.copy = 1] \in RunAuditTask /\ [t EXCEPT !.pc = "queued"] \in RunAuditTask
        BY <3>1 DEF RunAuditTask, Copies
      <3> QED
        BY <2>2, <3>2 DEF Task
    <2>3. CASE t.kind = "run_source"
      <3>1. t \in RunSourceTask
        BY <2>3, TaskKinds DEF TypeOK
      <3>2. [t EXCEPT !.copy = 1] \in RunSourceTask /\ [t EXCEPT !.pc = "queued"] \in RunSourceTask
        BY <3>1 DEF RunSourceTask, Copies
      <3> QED
        BY <2>3, <3>2 DEF Task
    <2>4. CASE t.kind = "poll_urlscan"
      <3>1. t \in PollTask
        BY <2>4, TaskKinds DEF TypeOK
      <3>2. [t EXCEPT !.copy = 1] \in PollTask /\ [t EXCEPT !.pc = "queued"] \in PollTask
        BY <3>1 DEF PollTask, Copies
      <3> QED
        BY <2>4, <3>2 DEF Task
    <2>5. CASE t.kind = "finish_audit"
      <3>1. t \in FinishTask
        BY <2>5, TaskKinds DEF TypeOK
      <3>2. /\ [t EXCEPT !.copy = 1] \in FinishTask
            /\ [t EXCEPT !.pc = "queued", !.todo = {}] \in FinishTask
        BY <3>1 DEF FinishTask, Copies
      <3> QED
        BY <2>5, <3>2 DEF Task
    <2> QED
      BY <2>1, <2>2, <2>3, <2>4, <2>5
  <1>4. CASE Redeliver(t)
    BY <1>1, <1>3, <1>4 DEF Redeliver, Replace, TypeOK, auditVars
  <1>5. CASE Duplicate(t)
    BY <1>1, <1>3, <1>5 DEF Duplicate, TypeOK, auditVars
  <1> QED
    BY <1>2, <1>4, <1>5 DEF Fault

LEMMA InitType ==
    ASSUME Init PROVE TypeOK
  <1>1. 1 \in Runs
    BY NumbersAssumption DEF Runs
  <1>2. NewReport(TRUE) \in Report
    BY NewReportType
  <1>3. RunAuditMessage(1) \in Task
    BY <1>1 DEF RunAuditMessage, RunAuditTask, Copies, Task
  <1> QED
    <2>1. status \in AuditStatus /\ runId \in Runs /\ modified \in Nat /\ aged \in BOOLEAN
      BY <1>1 DEF Init, AuditStatus
    <2>2. report \in [Sources -> Report] /\ tasks \subseteq Task
      BY <1>2, <1>3 DEF Init
    <2>3. /\ waiting \in [Chords -> SUBSET Sources] /\ announced \in [Runs -> Nat]
          /\ faults \in 0..MaxFaults
      BY NumbersAssumption DEF Init
    <2> QED
      BY <2>1, <2>2, <2>3 DEF TypeOK

LEMMA NextType ==
    ASSUME TypeOK, [Next]_vars PROVE TypeOK'
  <1>1. ASSUME NEW t \in tasks, WorkerStep(t) PROVE TypeOK'
    BY <1>1, ClaimType, SourceType, PollType, FinishType, SignalType DEF WorkerStep
  <1>2. CASE UNCHANGED vars
    BY <1>2 DEF vars, TypeOK
  <1> QED
    BY <1>1, <1>2, SweepType, FaultType, BeatType, RerunType DEF Next

(* Type correctness: whatever is lost, duplicated or interleaved, the rows, the
   messages and the chords keep their types. *)
THEOREM TypeCorrect == Spec => []TypeOK
  <1>1. Init => TypeOK
    BY InitType
  <1>2. TypeOK /\ [Next]_vars => TypeOK'
    BY NextType
  <1> QED
    BY <1>1, <1>2, PTL DEF Spec

-------------------------------------------------------------------------------
(* The inductive invariant behind the safety theorems.                         *)

Announcers == {t \in tasks : t.kind = "announce"}

(* Of every run at most one signal was ever owed: it is owed or sent only once the
   run is closed, by one process, and never both. *)
SignalsOwed ==
    /\ \A t \in Announcers : t.run <= runId /\ announced[t.run] = 0
    /\ \A t, u \in Announcers : t.run = u.run => t = u
    /\ status \in InFlightAuditStatuses =>
          announced[runId] = 0 /\ \A t \in Announcers : t.run # runId
    /\ \A r \in Runs : announced[r] <= 1 /\ (r > runId => announced[r] = 0)

IInv == TypeOK /\ SignalsOwed /\ StatusMatchesReports /\ SignalMatchesReports

FinishedKept == \A s \in Sources : Finished(s) => report'[s] = report[s]

(* A step that neither closes nor replaces the run, and keeps finished reports. *)
Inert ==
    /\ runId' = runId /\ announced' = announced
    /\ status' = status \/ (status \in InFlightAuditStatuses /\ status' \in InFlightAuditStatuses)
    /\ Announcers' \subseteq Announcers
    /\ FinishedKept

LEMMA SaveKeepsFinished ==
    ASSUME TypeOK, NEW s \in Sources, NEW r, NEW fields, Save(s, r, fields)
    PROVE  FinishedKept
  BY DEF Save, FinishedKept, Writable, TypeOK

LEMMA HeaderAnnouncers ==
    ASSUME NEW t \in tasks, NEW more, \A u \in more : u.kind # "announce", ReturnFromHeader(t, more)
    PROVE  Announcers' \subseteq Announcers
  <1>1. FinishMessage(t.chord, t.run).kind # "announce"
    BY DEF FinishMessage
  <1> QED
    BY <1>1 DEF ReturnFromHeader, Announcers

(* A task that moves on is still no announcer. *)
LEMMA TaskMoves ==
    ASSUME TypeOK, NEW t \in tasks, t.kind # "announce"
    PROVE  /\ \A label : [t EXCEPT !.pc = label].kind # "announce"
           /\ \A label, n : [t EXCEPT !.pc = label, !.retries = n].kind # "announce"
           /\ \A label, n : [t EXCEPT !.pc = label, !.polls = n].kind # "announce"
           /\ \A label, n : [t EXCEPT !.pc = label, !.attempt = n].kind # "announce"
           /\ \A label, S : [t EXCEPT !.pc = label, !.todo = S].kind # "announce"
           /\ \A S : [t EXCEPT !.todo = S].kind # "announce"
           /\ [t EXCEPT !.copy = 1].kind # "announce"
  <1>1. CASE t \in RunAuditTask
    BY <1>1 DEF RunAuditTask
  <1>2. CASE t \in RunSourceTask
    BY <1>2 DEF RunSourceTask
  <1>3. CASE t \in PollTask
    BY <1>3 DEF PollTask
  <1>4. CASE t \in FinishTask
    BY <1>4 DEF FinishTask
  <1>5. CASE t \in Sweep
    BY <1>5 DEF Sweep
  <1> QED
    BY <1>1, <1>2, <1>3, <1>4, <1>5, TaskKinds DEF TypeOK, Task, Announcer

LEMMA ClaimInert ==
    ASSUME TypeOK, NEW t \in tasks, ClaimRun(t) \/ PublishChord(t)
    PROVE  Inert
  <1>1. t.kind = "run_audit"
    BY DEF ClaimRun, PublishChord, At
  <1>2. CASE ClaimRun(t)
    <2>1. Announcers' \subseteq Announcers
      BY <1>1, <1>2, TaskMoves DEF ClaimRun, Goto, Replace, Announcers
    <2> QED
      BY <1>2, <2>1 DEF ClaimRun, WriteAudit, Inert, FinishedKept, InFlightAuditStatuses
  <1>3. CASE PublishChord(t)
    <2>1. \A c, r, s : SourceMessage(c, r, s).kind # "announce"
      BY DEF SourceMessage
    <2>2. Announcers' \subseteq Announcers
      BY <1>3, <2>1 DEF PublishChord, Announcers
    <2> QED
      BY <1>3, <2>2 DEF PublishChord, Inert, FinishedKept, auditVars
  <1> QED
    BY <1>2, <1>3

LEMMA SourceInert ==
    ASSUME TypeOK, NEW t \in tasks, SourceStep(t)
    PROVE  Inert
  <1>1. t.kind = "run_source" /\ t.source \in Sources
    <2>1. t.kind = "run_source"
      BY DEF SourceStep, StartSource, MarkRunning, FetchSubmits, FetchRetries,
             FetchBreaks, FetchCompletes, FetchFails, At
    <2>2. t \in RunSourceTask
      BY <2>1, TaskKinds DEF TypeOK
    <2> QED
      BY <2>1, <2>2 DEF RunSourceTask
  <1>2. \A r, fields : Save(t.source, r, fields) => FinishedKept
    BY <1>1, SaveKeepsFinished
  <1>3. ReturnFromHeader(t, {}) => Announcers' \subseteq Announcers
    BY HeaderAnnouncers
  <1>4. ReturnFromHeader(t, {PollMessage(t)}) => Announcers' \subseteq Announcers
    <2>1. PollMessage(t).kind # "announce"
      BY DEF PollMessage
    <2> QED
      BY <2>1, HeaderAnnouncers
  <1>5. \A label : Goto(t, label) => Announcers' \subseteq Announcers
    BY <1>1, TaskMoves DEF Goto, Replace, Announcers
  <1>6. CASE StartSource(t)
    BY <1>6, <1>3, <1>5 DEF StartSource, Inert, FinishedKept, auditVars
  <1>7. CASE MarkRunning(t)
    BY <1>7, <1>2, <1>3, <1>5 DEF MarkRunning, Inert, auditVars
  <1>8. CASE FetchSubmits(t)
    BY <1>8, <1>2, <1>4 DEF FetchSubmits, Inert, auditVars
  <1>9. CASE FetchRetries(t)
    <2> DEFINE u == [t EXCEPT !.pc = "queued", !.retries = t.retries + 1]
    <2>1. u.kind # "announce" /\ Replace(t, u)
      BY <1>9, <1>1, TaskMoves DEF FetchRetries
    <2>2. Announcers' \subseteq Announcers
      <3> HIDE DEF u
      <3> QED
        BY <2>1 DEF Replace, Announcers
    <2> QED
      BY <1>9, <1>2, <2>2 DEF FetchRetries, Inert, auditVars
  <1>10. CASE FetchBreaks(t)
    BY <1>10, <1>2, <1>3 DEF FetchBreaks, Inert, auditVars
  <1>11. CASE \E outcome \in SucceededReportStatuses : FetchCompletes(t, outcome)
    BY <1>11, <1>2, <1>3 DEF FetchCompletes, Inert, auditVars
  <1>12. CASE \E c \in SourceErrors : FetchFails(t, c)
    BY <1>12, <1>2, <1>3 DEF FetchFails, Inert, auditVars
  <1> QED
    BY <1>6, <1>7, <1>8, <1>9, <1>10, <1>11, <1>12 DEF SourceStep

LEMMA PollInert ==
    ASSUME TypeOK, NEW t \in tasks, PollStep(t)
    PROVE  Inert
  <1>1. t.kind = "poll_urlscan" /\ t.source \in Sources
    <2>1. t.kind = "poll_urlscan"
      BY DEF PollStep, StartPoll, PollAgain, PollBreaks, PollCompletes, PollFails, At
    <2>2. t \in PollTask
      BY <2>1, TaskKinds DEF TypeOK
    <2> QED
      BY <2>1, <2>2 DEF PollTask
  <1>2. \A r, fields : Save(t.source, r, fields) => FinishedKept
    BY <1>1, SaveKeepsFinished
  <1>3. tasks' = tasks \ {t} => Announcers' \subseteq Announcers
    BY DEF Announcers
  <1>4. CASE StartPoll(t)
    BY <1>4, <1>1, <1>3, TaskMoves DEF StartPoll, Goto, Replace, Announcers, Inert, FinishedKept, auditVars
  <1>5. CASE PollAgain(t)
    <2> DEFINE u == [t EXCEPT !.pc = "queued", !.polls = t.polls + 1]
    <2>1. u.kind # "announce" /\ Replace(t, u)
      BY <1>5, <1>1, TaskMoves DEF PollAgain
    <2>2. Announcers' \subseteq Announcers
      <3> HIDE DEF u
      <3> QED
        BY <2>1 DEF Replace, Announcers
    <2> QED
      BY <1>5, <2>2 DEF PollAgain, Inert, FinishedKept, auditVars
  <1>6. CASE \E outcome \in SucceededReportStatuses : PollCompletes(t, outcome)
    BY <1>6, <1>2, <1>3 DEF PollCompletes, Inert, auditVars
  <1>7. CASE \E c \in SourceErrors \cup {"timeout"} : PollFails(t, c)
    BY <1>7, <1>2, <1>3 DEF PollFails, Inert, auditVars
  <1>8. CASE PollBreaks(t)
    BY <1>8, <1>3 DEF PollBreaks, Inert, FinishedKept, auditVars
  <1> QED
    BY <1>4, <1>5, <1>6, <1>7, <1>8 DEF PollStep

(* Every step of finish_audit but the closing transaction. *)
LEMMA FinishInert ==
    ASSUME TypeOK, NEW t \in tasks, FinishStep(t), ~CloseRun(t)
    PROVE  Inert
  <1>1. t.kind = "finish_audit" /\ t.todo \subseteq Sources
    <2>1. t.kind = "finish_audit"
      BY DEF FinishStep, CheckRun, FinishReturns, CheckAgain, ListUnfinished, FailNext, At
    <2>2. t \in FinishTask
      BY <2>1, TaskKinds DEF TypeOK
    <2> QED
      BY <2>1, <2>2 DEF FinishTask
  <1>2. \A label : Goto(t, label) => Announcers' \subseteq Announcers
    BY <1>1, TaskMoves DEF Goto, Replace, Announcers
  <1>3. CASE CheckRun(t) \/ FinishReturns(t)
    BY <1>3, <1>2 DEF CheckRun, FinishReturns, Announcers, Inert, FinishedKept, auditVars
  <1>4. CASE CheckAgain(t)
    <2> DEFINE u == [t EXCEPT !.pc = "queued", !.attempt = t.attempt + 1]
    <2>1. u.kind # "announce" /\ (Goto(t, "late") \/ Replace(t, u))
      BY <1>4, <1>1, TaskMoves DEF CheckAgain
    <2>2. Announcers' \subseteq Announcers
      <3> HIDE DEF u
      <3> QED
        BY <2>1, <1>2 DEF Replace, Announcers
    <2> QED
      BY <1>4, <2>2 DEF CheckAgain, Inert, FinishedKept, auditVars
  <1>5. CASE ListUnfinished(t)
    <2> DEFINE u == [t EXCEPT !.pc = "failing", !.todo = {s \in Sources : ~Finished(s)}]
    <2>1. u.kind # "announce" /\ Replace(t, u)
      BY <1>5, <1>1, TaskMoves DEF ListUnfinished
    <2>2. Announcers' \subseteq Announcers
      <3> HIDE DEF u
      <3> QED
        BY <2>1 DEF Replace, Announcers
    <2> QED
      BY <1>5, <2>2 DEF ListUnfinished, Inert, FinishedKept, auditVars
  <1>6. CASE FailNext(t)
    <2>1. CASE t.todo = {}
      BY <1>6, <2>1, <1>2 DEF FailNext, Inert, FinishedKept, auditVars
    <2>2. CASE t.todo # {}
      <3>1. PICK s \in t.todo : /\ Save(s, t.run, FailedReport(s, "timeout"))
                                /\ Replace(t, [t EXCEPT !.todo = t.todo \ {s}])
        BY <1>6, <2>2 DEF FailNext
      <3>2. FinishedKept
        BY <1>1, <3>1, SaveKeepsFinished
      <3>3. Announcers' \subseteq Announcers
        BY <1>1, <3>1, TaskMoves DEF Replace, Announcers
      <3> QED
        BY <1>6, <3>2, <3>3 DEF FailNext, Inert, auditVars
    <2> QED
      BY <2>1, <2>2
  <1> QED
    BY <1>3, <1>4, <1>5, <1>6 DEF FinishStep

LEMMA OthersInert ==
    ASSUME TypeOK,
           \/ SweepScan \/ Age
           \/ \E t \in tasks : Fault(t) \/ (SweepFail(t) /\ ~StillStuck(t))
           \/ UNCHANGED vars
    PROVE  Inert
  <1>1. CASE SweepScan
    BY <1>1 DEF SweepScan, Announcers, Inert, FinishedKept, auditVars
  <1>2. CASE Age
    BY <1>2 DEF Age, Announcers, Inert, FinishedKept
  <1>3. ASSUME NEW t \in tasks, Fault(t) PROVE Inert
    <2>1. CASE Lose(t)
      BY <2>1 DEF Lose, Announcers, Inert, FinishedKept, auditVars
    <2>2. CASE Redeliver(t)
      <3> DEFINE u == [t EXCEPT !.pc = "queued"]
                 v == [t EXCEPT !.pc = "queued", !.todo = {}]
      <3>1. u.kind # "announce" /\ v.kind # "announce" /\ (Replace(t, u) \/ Replace(t, v))
        BY <2>2, TaskMoves DEF Redeliver
      <3>2. Announcers' \subseteq Announcers
        <4> HIDE DEF u, v
        <4> QED
          BY <3>1 DEF Replace, Announcers
      <3> QED
        BY <2>2, <3>2 DEF Redeliver, Inert, FinishedKept, auditVars
    <2>3. CASE Duplicate(t)
      BY <2>3, TaskMoves DEF Duplicate, Announcers, Inert, FinishedKept, auditVars
    <2> QED
      BY <1>3, <2>1, <2>2, <2>3 DEF Fault
  <1>4. ASSUME NEW t \in tasks, SweepFail(t), ~StillStuck(t) PROVE Inert
    BY <1>4 DEF SweepFail, Announcers, Inert, FinishedKept
  <1>5. CASE UNCHANGED vars
    BY <1>5 DEF vars, Announcers, Inert, FinishedKept
  <1> QED
    BY <1>1, <1>2, <1>3, <1>4, <1>5

-------------------------------------------------------------------------------
(* The invariant along inert steps.                                            *)

LEMMA InertKeepsIInv ==
    ASSUME IInv, TypeOK', Inert
    PROVE  IInv'
  <1>1. SignalsOwed'
    BY DEF IInv, SignalsOwed, Inert
  <1>2. ASSUME status \notin InFlightAuditStatuses
        PROVE  status' = status /\ report' = report
    <2>1. status' = status
      BY <1>2 DEF Inert
    <2>2. \A s \in Sources : report'[s] = report[s]
      BY <1>2 DEF IInv, StatusMatchesReports, AllFinished, Inert, FinishedKept
    <2> QED
      BY <2>1, <2>2 DEF IInv, TypeOK
  <1>3. status \in InFlightAuditStatuses => status' \in InFlightAuditStatuses
    BY DEF Inert
  <1>4. StatusMatchesReports'
    <2>1. CASE status \in InFlightAuditStatuses
      BY <2>1, <1>3 DEF StatusMatchesReports, InFlightAuditStatuses
    <2>2. CASE status \notin InFlightAuditStatuses
      BY <2>2, <1>2 DEF IInv, StatusMatchesReports, AllFinished, Finished, Succeeded
    <2> QED
      BY <2>1, <2>2
  <1>5. SignalMatchesReports'
    <2> SUFFICES ASSUME NEW t \in Announcers', t.run = runId
                 PROVE  status' \notin InFlightAuditStatuses /\ t.succeeded = Succeeded'
      BY DEF SignalMatchesReports, Announcers, Inert
    <2>1. t \in Announcers
      BY DEF Inert
    <2>2. status \notin InFlightAuditStatuses /\ t.succeeded = Succeeded
      BY <2>1 DEF IInv, SignalMatchesReports, Announcers
    <2> QED
      BY <2>2, <1>2 DEF Succeeded
  <1> QED
    BY <1>1, <1>4, <1>5 DEF IInv

-------------------------------------------------------------------------------
(* The invariant along the steps that close a run.                             *)

Closing ==
    /\ status \in InFlightAuditStatuses /\ status' \notin InFlightAuditStatuses
    /\ runId' = runId /\ announced' = announced
    /\ Announcers' = Announcers \cup {Announce(runId, Succeeded)}
    /\ Succeeded' = Succeeded
    /\ FinishedKept

LEMMA ClosingKeepsSignals ==
    ASSUME IInv, Closing
    PROVE  SignalsOwed' /\ SignalMatchesReports'
  <1> DEFINE a == Announce(runId, Succeeded)
  <1>1. a.run = runId /\ a.succeeded = Succeeded
    BY DEF Announce
  <1>2. announced[runId] = 0 /\ \A t \in Announcers : t.run # runId
    BY DEF IInv, SignalsOwed, Closing
  <1>3. Announcers' = Announcers \cup {a}
    BY DEF Closing
  <1>4. runId \in Nat
    BY DEF IInv, TypeOK, Runs
  <1> HIDE DEF a
  <1>5. \A t \in Announcers' : t.run <= runId /\ announced[t.run] = 0
    BY <1>1, <1>2, <1>3, <1>4 DEF IInv, SignalsOwed
  <1>6. \A t, u \in Announcers' : t.run = u.run => t = u
    BY <1>1, <1>2, <1>3 DEF IInv, SignalsOwed
  <1>7. SignalsOwed'
    BY <1>5, <1>6 DEF IInv, SignalsOwed, Closing
  <1>8. SignalMatchesReports'
    <2> SUFFICES ASSUME NEW t \in Announcers', t.run = runId
                 PROVE  status' \notin InFlightAuditStatuses /\ t.succeeded = Succeeded'
      BY DEF SignalMatchesReports, Announcers, Closing
    <2>1. t = a
      BY <1>2, <1>3
    <2> QED
      BY <2>1, <1>1 DEF Closing
  <1> QED
    BY <1>7, <1>8

LEMMA CloseRunCloses ==
    ASSUME TypeOK, NEW t \in tasks, CloseRun(t)
    PROVE  Closing /\ StatusMatchesReports'
  <1>1. t.kind = "finish_audit" /\ status = "running" /\ AllFinished /\ report' = report
    BY DEF CloseRun, At, ClosesRun
  <1>2. status' = AuditStatusOf(Succeeded)
    BY DEF CloseRun, WriteAudit
  <1>3. Succeeded' = Succeeded /\ AllFinished'
    BY <1>1 DEF Succeeded, AllFinished, Finished
  <1>4. Announce(runId, Succeeded).kind = "announce"
    BY DEF Announce
  <1>5. Announcers' = Announcers \cup {Announce(runId, Succeeded)}
    BY <1>1, <1>4 DEF CloseRun, Replace, Announcers
  <1>6. Closing
    BY <1>1, <1>2, <1>3, <1>5
       DEF CloseRun, Closing, FinishedKept, InFlightAuditStatuses, AuditStatusOf
  <1>7. StatusMatchesReports'
    BY <1>2, <1>3 DEF StatusMatchesReports, AuditStatusOf
  <1> QED
    BY <1>6, <1>7

LEMMA SweepFailCloses ==
    ASSUME TypeOK, NEW t \in tasks, SweepFail(t), StillStuck(t)
    PROVE  Closing /\ StatusMatchesReports'
  <1>1. /\ t.kind = "sweep" /\ status \in InFlightAuditStatuses /\ status' = "failed"
        /\ report' = [s \in Sources |->
                        IF Finished(s) THEN report[s]
                        ELSE [FailedReport(s, "timeout") EXCEPT !.writer = runId]]
    BY DEF SweepFail, StillStuck, WriteAudit
  <1>2. \A s \in Sources : ~Finished(s) => report'[s].status = "failed"
    <2> SUFFICES ASSUME NEW s \in Sources, ~Finished(s) PROVE report'[s].status = "failed"
      OBVIOUS
    <2>1. report'[s] = [FailedReport(s, "timeout") EXCEPT !.writer = runId]
      BY <1>1
    <2>2. FailedReport(s, "timeout") \in Report
      BY ReportTypes DEF ErrorCode
    <2>3. FailedReport(s, "timeout").status = "failed"
      BY ReportTypes DEF FailedReport, Report
    <2> QED
      BY <2>1, <2>2, <2>3 DEF Report
  <1>3. FinishedKept
    BY <1>1 DEF FinishedKept
  <1>4. AllFinished'
    BY <1>2, <1>3 DEF AllFinished, FinishedKept, Finished, FinishedReportStatuses
  <1>5. Succeeded' = Succeeded
    BY <1>2, <1>3 DEF Succeeded, FinishedKept, Finished, FinishedReportStatuses, SucceededReportStatuses
  <1>6. Announce(runId, Succeeded).kind = "announce"
    BY DEF Announce
  <1>7. Announcers' = Announcers \cup {Announce(runId, Succeeded)}
    BY <1>1, <1>6 DEF SweepFail, Replace, Announcers
  <1>8. Closing
    BY <1>1, <1>3, <1>5, <1>7 DEF SweepFail, Closing, InFlightAuditStatuses
  <1>9. StatusMatchesReports'
    BY <1>1, <1>4 DEF StatusMatchesReports
  <1> QED
    BY <1>8, <1>9

-------------------------------------------------------------------------------
(* The invariant along the signal, expiry and rerun.                           *)

LEMMA SignalKeepsIInv ==
    ASSUME IInv, TypeOK', NEW t \in tasks, SendReportReady(t)
    PROVE  IInv'
  <1>1. t \in Announcers /\ t.run \in Runs /\ t.run <= runId /\ announced[t.run] = 0
    BY TaskKinds DEF SendReportReady, Announcers, IInv, SignalsOwed, TypeOK, Announcer
  <1>2. status \in InFlightAuditStatuses => t.run # runId
    BY <1>1 DEF IInv, SignalsOwed
  <1>3. Announcers' = Announcers \ {t}
    BY DEF SendReportReady, Announcers
  <1>4. \A u \in Announcers' : u.run # t.run
    BY <1>1, <1>3 DEF IInv, SignalsOwed
  <1>5. announced' = [announced EXCEPT ![t.run] = 1]
    BY <1>1 DEF SendReportReady
  <1>6. announced \in [Runs -> Nat] /\ runId \in Runs /\ \A u \in Announcers : u.run \in Runs
    BY TaskKinds DEF IInv, TypeOK, Announcers, Announcer
  <1>7. runId' = runId /\ status' = status /\ report' = report
    BY DEF SendReportReady, auditVars
  <1>8. \A u \in Announcers' : u.run <= runId /\ announced'[u.run] = 0
    BY <1>3, <1>4, <1>5, <1>6 DEF IInv, SignalsOwed
  <1>9. \A r \in Runs : announced'[r] <= 1 /\ (r > runId => announced'[r] = 0)
    BY <1>1, <1>5, <1>6 DEF IInv, SignalsOwed, Runs
  <1>10. status \in InFlightAuditStatuses => announced'[runId] = 0
    BY <1>2, <1>5, <1>6 DEF IInv, SignalsOwed
  <1>11. SignalsOwed'
    BY <1>3, <1>7, <1>8, <1>9, <1>10 DEF IInv, SignalsOwed
  <1>12. StatusMatchesReports'
    BY <1>7 DEF IInv, StatusMatchesReports, AllFinished, Finished, Succeeded
  <1>13. SignalMatchesReports'
    BY <1>7 DEF IInv, SignalMatchesReports, Succeeded, SendReportReady
  <1> QED
    BY <1>11, <1>12, <1>13 DEF IInv

LEMMA ExpireKeepsIInv ==
    ASSUME IInv, TypeOK', Expire
    PROVE  IInv'
  <1>1. /\ status \in ReusableAuditStatuses /\ status' = "expired" /\ runId' = runId
        /\ report' = report /\ tasks' = tasks /\ announced' = announced
    BY DEF Expire, WriteAudit
  <1>2. status \notin InFlightAuditStatuses /\ status' \notin InFlightAuditStatuses
    BY <1>1 DEF ReusableAuditStatuses, InFlightAuditStatuses
  <1>3. SignalsOwed'
    BY <1>1, <1>2 DEF IInv, SignalsOwed, Announcers
  <1>4. Succeeded # {}
    BY <1>1, SourcesAssumption DEF IInv, StatusMatchesReports, ReusableAuditStatuses
  <1>5. StatusMatchesReports'
    BY <1>1, <1>2, <1>4 DEF IInv, StatusMatchesReports, AllFinished, Finished, Succeeded
  <1>6. SignalMatchesReports'
    BY <1>1, <1>2 DEF IInv, SignalMatchesReports, Succeeded
  <1> QED
    BY <1>3, <1>5, <1>6 DEF IInv

LEMMA RerunKeepsIInv ==
    ASSUME IInv, TypeOK', Rerun
    PROVE  IInv'
  <1>1. runId' = runId + 1 /\ status' = "pending" /\ announced' = announced
    BY DEF Rerun, WriteAudit
  <1>2. runId \in Nat /\ runId + 1 \in Runs
    BY <1>1 DEF IInv, TypeOK, Runs
  <1>3. Announcers' = Announcers
    BY DEF Rerun, RunAuditMessage, Announcers
  <1>4. \A t \in Announcers : t.run \in Nat
    BY TaskKinds DEF IInv, TypeOK, Announcers, Announcer, Runs
  <1>5. \A t \in Announcers' : t.run <= runId' /\ t.run # runId' /\ announced'[t.run] = 0
    BY <1>1, <1>2, <1>3, <1>4 DEF IInv, SignalsOwed
  <1>6. \A r \in Runs : announced'[r] <= 1 /\ (r > runId' => announced'[r] = 0)
    BY <1>1, <1>2 DEF IInv, SignalsOwed, Runs
  <1>7. announced'[runId'] = 0
    BY <1>1, <1>2 DEF IInv, SignalsOwed
  <1>8. SignalsOwed'
    BY <1>3, <1>5, <1>6, <1>7 DEF IInv, SignalsOwed
  <1>9. StatusMatchesReports'
    BY <1>1 DEF StatusMatchesReports, InFlightAuditStatuses
  <1>10. SignalMatchesReports'
    BY <1>5 DEF SignalMatchesReports, Announcers
  <1> QED
    BY <1>8, <1>9, <1>10 DEF IInv

-------------------------------------------------------------------------------
(* The theorems.                                                               *)

LEMMA InitIInv ==
    ASSUME Init PROVE IInv
  <1>1. TypeOK
    BY InitType
  <1>2. Announcers = {} /\ \A t \in tasks : t.kind # "announce"
    BY DEF Init, RunAuditMessage, Announcers
  <1>3. SignalsOwed
    <2>1. runId \in Runs
      BY <1>1 DEF TypeOK
    <2> QED
      BY <1>2, <2>1 DEF Init, SignalsOwed
  <1>4. StatusMatchesReports
    BY DEF Init, StatusMatchesReports, InFlightAuditStatuses
  <1> QED
    BY <1>1, <1>2, <1>3, <1>4 DEF IInv, SignalMatchesReports

(* Which of the cases above a step falls under. *)
LEMMA StepCases ==
    ASSUME TypeOK, [Next]_vars
    PROVE  \/ Inert
           \/ \E t \in tasks : CloseRun(t) \/ (SweepFail(t) /\ StillStuck(t)) \/ SendReportReady(t)
           \/ Expire \/ Rerun
  <1>1. ASSUME NEW t \in tasks, WorkerStep(t)
        PROVE  Inert \/ CloseRun(t) \/ SendReportReady(t)
    BY <1>1, ClaimInert, SourceInert, PollInert, FinishInert DEF WorkerStep
  <1> QED
    BY <1>1, OthersInert DEF Next

LEMMA NextIInv ==
    ASSUME IInv, [Next]_vars PROVE IInv'
  <1>1. TypeOK /\ TypeOK'
    BY NextType DEF IInv
  <1>2. CASE Inert
    BY <1>1, <1>2, InertKeepsIInv
  <1>3. ASSUME NEW t \in tasks, CloseRun(t) PROVE IInv'
    BY <1>1, <1>3, CloseRunCloses, ClosingKeepsSignals DEF IInv
  <1>4. ASSUME NEW t \in tasks, SweepFail(t), StillStuck(t) PROVE IInv'
    BY <1>1, <1>4, SweepFailCloses, ClosingKeepsSignals DEF IInv
  <1>5. ASSUME NEW t \in tasks, SendReportReady(t) PROVE IInv'
    BY <1>1, <1>5, SignalKeepsIInv
  <1> QED
    BY <1>1, <1>2, <1>3, <1>4, <1>5, ExpireKeepsIInv, RerunKeepsIInv, StepCases

(* The strengthening is an invariant. *)
THEOREM Invariance == Spec => []IInv
  <1>1. Init => IInv
    BY InitIInv
  <1>2. IInv /\ [Next]_vars => IInv'
    BY NextIInv
  <1> QED
    BY <1>1, <1>2, PTL DEF Spec

(* report_ready is sent at most once per run, under any number of duplicated,
   redelivered or stale finish_audit tasks and sweeps. *)
THEOREM AnnouncedOnce == Spec => []AnnouncedAtMostOnce
  <1>1. IInv => AnnouncedAtMostOnce
    BY DEF IInv, SignalsOwed, AnnouncedAtMostOnce
  <1> QED
    BY <1>1, Invariance, PTL

(* The status of a closed audit tells its reports, in every interleaving. *)
THEOREM StatusCorrect == Spec => []StatusMatchesReports
  <1>1. IInv => StatusMatchesReports
    BY DEF IInv
  <1> QED
    BY <1>1, Invariance, PTL

(* A signal still to be sent names the sources its receivers find succeeded. *)
THEOREM SignalCorrect == Spec => []SignalMatchesReports
  <1>1. IInv => SignalMatchesReports
    BY DEF IInv
  <1> QED
    BY <1>1, Invariance, PTL

(* No task and no sweep reopens or rewrites a finished report. *)
THEOREM NeverReopened == Spec => FinishedNeverReopened
  <1> DEFINE Keeps == \A s \in Sources : Finished(s) /\ runId' = runId => report'[s] = report[s]
  <1>1. ASSUME IInv, [Next]_vars PROVE Keeps
    <2>1. CASE Inert
      BY <2>1 DEF Inert, FinishedKept
    <2>2. ASSUME NEW t \in tasks, CloseRun(t) \/ (SweepFail(t) /\ StillStuck(t)) PROVE Keeps
      BY <1>1, <2>2, CloseRunCloses, SweepFailCloses DEF IInv, Closing, FinishedKept
    <2>3. ASSUME NEW t \in tasks, SendReportReady(t) PROVE Keeps
      BY <2>3 DEF SendReportReady
    <2>4. CASE Expire
      BY <2>4 DEF Expire
    <2>5. CASE Rerun
      <3>1. runId' = runId + 1 /\ runId \in Nat
        BY <1>1, <2>5 DEF Rerun, IInv, TypeOK, Runs
      <3> QED
        BY <3>1
    <2> QED
      BY <1>1, <2>1, <2>2, <2>3, <2>4, <2>5, StepCases DEF IInv
  <1>2. IInv /\ [Next]_vars => [Keeps]_vars
    BY <1>1
  <1> QED
    BY <1>2, Invariance, PTL DEF Spec, FinishedNeverReopened
===============================================================================

------------------------- MODULE AuditRunDev_proofs ---------------------------
(* Theorems about run_now next to the workers: what AuditRun_proofs and
   AuditRunSteps_proofs show of the workers alone, under the call that neither checks
   the run nor the status. *)
EXTENDS AuditRunDevPromise, AuditRunSteps_proofs, FiniteSetTheorems

-------------------------------------------------------------------------------
(* The invariant.                                                              *)

Dev ==
    [pc : {"idle", "next", "fetching", "broken", "over"}, run : 0..MaxRuns, source : Sources,
     todo : SUBSET Sources, reopened : BOOLEAN]

DevTypeOK ==
    /\ dev \in Dev
    /\ dev.pc = "idle" => ~dev.reopened
    /\ dev.pc # "idle" => dev.run \in Runs

(* The run that run_now set running again may be announced once more. *)
Again(r) == dev.reopened /\ dev.run = r

(* The signals of a run: sent, owed by a process that closed it, and the one the run in
   flight will still owe. *)
Owed(r) == {t \in Announcers : t.run = r}
InFlight(r) == r = runId /\ status \in InFlightAuditStatuses
Signals(r) == announced[r] + Cardinality(Owed(r)) + (IF InFlight(r) THEN 1 ELSE 0)

DevCounted ==
    /\ IsFiniteSet(Announcers)
    /\ \A r \in Runs : Signals(r) <= IF Again(r) THEN 2 ELSE 1
    /\ \A r \in Runs : r > runId => Signals(r) = 0

DInv == TypeOK /\ DevTypeOK /\ StatusMatchesReports /\ DevCounted

-------------------------------------------------------------------------------
(* The steps of run_now, as steps of the audit.                                *)

(* No step but the first changes which run may be announced again. *)
DevKept == dev'.run = dev.run /\ dev'.reopened = dev.reopened

LEMMA DevSaveType ==
    ASSUME TypeOK, NEW s \in Sources, NEW r \in Runs, NEW fields \in Report, Save(s, r, fields),
           UNCHANGED <<auditVars, tasks, waiting, announced, faults>>
    PROVE  TypeOK' /\ Inert
  <1>1. report' \in [Sources -> Report]
    BY SaveType
  <1>2. FinishedKept
    BY SaveKeepsFinished
  <1> QED
    BY <1>1, <1>2 DEF TypeOK, auditVars, Inert, Announcers

LEMMA DevReportStep ==
    ASSUME TypeOK, DevTypeOK,
           \/ \E s \in Sources : DevMarkRunning(s)
           \/ \E outcome \in SucceededReportStatuses : DevCompletes(outcome)
           \/ \E c \in SourceErrors \cup {"timeout"} : DevFails(c)
    PROVE  TypeOK' /\ DevTypeOK' /\ DevKept /\ Inert
  <1>1. dev \in Dev
    BY DEF DevTypeOK
  <1>2. ASSUME NEW s \in Sources, DevMarkRunning(s)
        PROVE  TypeOK' /\ DevTypeOK' /\ DevKept /\ Inert
    <2>1. dev.run \in Runs
      BY <1>2 DEF DevTypeOK, DevMarkRunning
    <2>2. TypeOK' /\ Inert
      BY <1>2, <2>1, ReportTypes, DevSaveType DEF DevMarkRunning
    <2>3. \A label \in {"fetching", "next"} :
              LET d == [dev EXCEPT !.todo = @ \ {s}, !.source = s, !.pc = label]
              IN  d \in Dev /\ d.run = dev.run /\ d.reopened = dev.reopened /\ d.pc # "idle"
      BY <1>1 DEF Dev
    <2>4. \E label \in {"fetching", "next"} :
              dev' = [dev EXCEPT !.todo = @ \ {s}, !.source = s, !.pc = label]
      BY <1>2 DEF DevMarkRunning
    <2>5. DevTypeOK' /\ DevKept
      BY <2>1, <2>3, <2>4 DEF DevTypeOK, DevKept
    <2> QED
      BY <2>2, <2>5
  <1>3. ASSUME dev.pc = "fetching", DevGoto("next"),
               UNCHANGED <<auditVars, tasks, waiting, announced, faults>>,
               NEW fields \in Report, Save(dev.source, dev.run, fields)
        PROVE  TypeOK' /\ DevTypeOK' /\ DevKept /\ Inert
    <2>1. dev.run \in Runs /\ dev.source \in Sources
      BY <1>1, <1>3 DEF DevTypeOK, Dev
    <2>2. TypeOK' /\ Inert
      BY <1>3, <2>1, DevSaveType
    <2>3. DevTypeOK' /\ DevKept
      BY <1>1, <1>3, <2>1 DEF DevGoto, DevTypeOK, DevKept, Dev
    <2> QED
      BY <2>2, <2>3
  <1>4. ASSUME NEW outcome \in SucceededReportStatuses, DevCompletes(outcome)
        PROVE  TypeOK' /\ DevTypeOK' /\ DevKept /\ Inert
    <2>1. dev.source \in Sources
      BY <1>1 DEF Dev
    <2>2. FinalReport(dev.source, outcome) \in Report
      BY <2>1, ReportTypes
    <2> QED
      BY <1>3, <1>4, <2>2 DEF DevCompletes
  <1>5. ASSUME NEW c \in SourceErrors \cup {"timeout"}, DevFails(c)
        PROVE  TypeOK' /\ DevTypeOK' /\ DevKept /\ Inert
    <2>1. dev.source \in Sources /\ c \in ErrorCode
      BY <1>1, ErrorsAssumption DEF Dev, ErrorCode
    <2>2. FailedReport(dev.source, c) \in Report
      BY <2>1, ReportTypes
    <2> QED
      BY <1>3, <1>5, <2>2 DEF DevFails
  <1> QED
    BY <1>2, <1>4, <1>5

LEMMA DevBreaksStep ==
    ASSUME TypeOK, DevTypeOK, DevBreaks
    PROVE  TypeOK' /\ DevTypeOK' /\ DevKept /\ Inert
  <1>1. dev \in Dev /\ dev.run \in Runs /\ UNCHANGED vars
    BY DEF DevTypeOK, DevBreaks
  <1>2. TypeOK'
    BY <1>1 DEF vars, TypeOK
  <1>3. Inert
    BY <1>1, OthersInert
  <1>4. DevTypeOK' /\ DevKept
    BY <1>1 DEF DevBreaks, DevGoto, DevTypeOK, DevKept, Dev
  <1> QED
    BY <1>2, <1>3, <1>4

LEMMA DevFinishStep ==
    ASSUME TypeOK, DevTypeOK, DevFinish
    PROVE  TypeOK' /\ DevTypeOK' /\ DevKept /\ (UNCHANGED vars \/ (Closing /\ StatusMatchesReports'))
  <1>1. dev \in Dev /\ dev.run \in Runs
    BY DEF DevTypeOK, DevFinish
  <1>2. DevTypeOK' /\ DevKept
    BY <1>1 DEF DevFinish, DevGoto, DevTypeOK, DevKept, Dev
  <1>3. CASE ~DevClosesRun
    <2>1. UNCHANGED vars
      BY <1>3 DEF DevFinish, vars
    <2> QED
      BY <1>2, <2>1 DEF vars, TypeOK
  <1>4. CASE DevClosesRun
    <2> DEFINE a == Announce(runId, Succeeded)
    <2>1. status = "running" /\ AllFinished /\ report' = report
      BY <1>4 DEF DevFinish, DevClosesRun, ClosesRun
    <2>2. WriteAudit(AuditStatusOf(Succeeded)) /\ tasks' = tasks \cup {a}
      BY <1>4 DEF DevFinish
    <2>3. a \in Task /\ a.kind = "announce"
      BY DEF Announce, Task, Announcer, Succeeded, TypeOK
    <2>4. TypeOK'
      BY <2>1, <2>2, <2>3, AuditStatusOfType, WriteAuditType DEF TypeOK, DevFinish
    <2>5. Succeeded' = Succeeded /\ AllFinished'
      BY <2>1 DEF Succeeded, AllFinished, Finished
    <2>6. Announcers' = Announcers \cup {a}
      BY <2>2, <2>3 DEF Announcers
    <2>7. status' = AuditStatusOf(Succeeded)
      BY <2>2 DEF WriteAudit
    <2>8. Closing
      BY <2>1, <2>5, <2>6, <2>7
         DEF DevFinish, Closing, FinishedKept, InFlightAuditStatuses, AuditStatusOf
    <2>9. StatusMatchesReports'
      BY <2>5, <2>7 DEF StatusMatchesReports, AuditStatusOf
    <2> QED
      BY <1>2, <2>4, <2>8, <2>9
  <1> QED
    BY <1>3, <1>4

(* What the first step does, before the counts. *)
LEMMA DevStartStep ==
    ASSUME TypeOK, DevTypeOK, DevStart
    PROVE  /\ TypeOK' /\ DevTypeOK' /\ ~dev.reopened
           /\ dev'.run = runId /\ dev'.reopened = (status \notin InFlightAuditStatuses)
           /\ status' = "running" /\ runId' = runId /\ report' = report /\ tasks' = tasks
           /\ announced' = announced
  <1>1. dev \in Dev /\ runId \in Runs /\ ~dev.reopened
    BY DEF DevTypeOK, TypeOK, DevStart
  <1>2. Runs \subseteq 0..MaxRuns
    BY NumbersAssumption DEF Runs
  <1>3. "running" \in AuditStatus
    BY DEF AuditStatus
  <1>4. TypeOK'
    BY <1>3, WriteAuditType DEF DevStart, TypeOK
  <1>5. (status \notin InFlightAuditStatuses) \in BOOLEAN
    OBVIOUS
  <1>6. /\ dev' \in Dev /\ dev'.pc = "next" /\ dev'.run = runId
        /\ dev'.reopened = (status \notin InFlightAuditStatuses)
    BY <1>1, <1>2, <1>5 DEF DevStart, Dev
  <1> QED
    BY <1>1, <1>4, <1>6 DEF DevStart, DevTypeOK, WriteAudit

(* Every step of the audit under run_now. *)
LEMMA DevStepCases ==
    ASSUME TypeOK, DevTypeOK, [DevNext]_devVars
    PROVE  /\ TypeOK' /\ DevTypeOK'
           /\ \/ DevStart
              \/ /\ DevKept
                 /\ \/ Inert
                    \/ Closing /\ StatusMatchesReports'
                    \/ \E t \in tasks : SendReportReady(t)
                    \/ Expire \/ Rerun
  <1>1. CASE DevStep
    BY <1>1, DevStartStep, DevReportStep, DevBreaksStep, DevFinishStep, OthersInert DEF DevStep
  <1>2. CASE [Next]_vars /\ UNCHANGED dev
    <2>1. TypeOK' /\ DevTypeOK' /\ DevKept
      BY <1>2, NextType DEF DevTypeOK, DevKept
    <2> QED
      BY <1>2, <2>1, StepCases, CloseRunCloses, SweepFailCloses
  <1> QED
    BY <1>1, <1>2 DEF DevNext, devVars, vars


-------------------------------------------------------------------------------
(* The invariant along the steps.                                              *)

LEMMA DevTypes ==
    ASSUME TypeOK
    PROVE  /\ runId \in Runs /\ runId \in Nat /\ Runs \subseteq Nat
           /\ announced \in [Runs -> Nat] /\ \A r \in Runs : announced[r] \in Nat
           /\ \A t \in Announcers : t.run \in Runs
  BY TaskKinds, NumbersAssumption DEF TypeOK, Runs, Announcers, Announcer

LEMMA OwedFinite ==
    ASSUME IsFiniteSet(Announcers), NEW r
    PROVE  IsFiniteSet(Owed(r)) /\ Cardinality(Owed(r)) \in Nat
  <1>1. Owed(r) \subseteq Announcers
    BY DEF Owed
  <1> QED
    BY <1>1, FS_Subset, FS_CardinalityType

(* Signals that become no more, of runs that are bounded no less, stay bounded. *)
LEMMA NoMoreSignals ==
    ASSUME DInv, IsFiniteSet(Announcers'), TypeOK', DevKept, runId' = runId,
           \A r \in Runs : Signals(r)' <= Signals(r)
    PROVE  DevCounted'
  <1>1. \A r \in Runs : Signals(r) \in Nat /\ Signals(r)' \in Nat
    <2> SUFFICES ASSUME NEW r \in Runs
                 PROVE  Signals(r) \in Nat /\ Signals(r)' \in Nat
      OBVIOUS
    <2>1. Cardinality(Owed(r)) \in Nat /\ announced[r] \in Nat
      BY OwedFinite, DevTypes DEF DInv, DevCounted
    <2>2. Cardinality(Owed(r)') \in Nat
      <3>1. Owed(r)' \subseteq Announcers'
        BY DEF Owed
      <3> QED
        BY <3>1, FS_Subset, FS_CardinalityType
    <2>3. announced'[r] \in Nat
      BY DEF TypeOK
    <2> QED
      BY <2>1, <2>2, <2>3 DEF Signals
  <1>2. \A r : Again(r)' <=> Again(r)
    BY DEF Again, DevKept
  <1> QED
    BY <1>1, <1>2 DEF DInv, DevCounted

LEMMA InertKeepsStatus ==
    ASSUME TypeOK, TypeOK', StatusMatchesReports, Inert
    PROVE  StatusMatchesReports'
  <1>1. CASE status \in InFlightAuditStatuses
    BY <1>1 DEF Inert, StatusMatchesReports, InFlightAuditStatuses
  <1>2. CASE status \notin InFlightAuditStatuses
    <2>1. status' = status
      BY <1>2 DEF Inert
    <2>2. \A s \in Sources : report'[s] = report[s]
      BY <1>2 DEF StatusMatchesReports, AllFinished, Inert, FinishedKept
    <2> QED
      BY <2>1, <2>2 DEF StatusMatchesReports, AllFinished, Finished, Succeeded
  <1> QED
    BY <1>1, <1>2

LEMMA DevInert ==
    ASSUME DInv, TypeOK', DevTypeOK', DevKept, Inert
    PROVE  DInv'
  <1>1. StatusMatchesReports'
    BY InertKeepsStatus DEF DInv
  <1>2. IsFiniteSet(Announcers')
    BY FS_Subset DEF DInv, DevCounted, Inert
  <1>3. \A r \in Runs : Signals(r)' <= Signals(r)
    <2> SUFFICES ASSUME NEW r \in Runs
                 PROVE  Signals(r)' <= Signals(r)
      OBVIOUS
    <2>1. IsFiniteSet(Owed(r)) /\ Cardinality(Owed(r)) \in Nat /\ announced[r] \in Nat
      BY OwedFinite, DevTypes DEF DInv, DevCounted
    <2>2. Owed(r)' \subseteq Owed(r)
      BY DEF Owed, Inert
    <2>3. Cardinality(Owed(r)') <= Cardinality(Owed(r)) /\ Cardinality(Owed(r)') \in Nat
      BY <2>1, <2>2, FS_Subset, FS_CardinalityType
    <2>4. announced' = announced /\ (InFlight(r)' => InFlight(r))
      BY DEF InFlight, Inert
    <2> QED
      BY <2>1, <2>3, <2>4 DEF Signals
  <1>4. DevCounted'
    BY <1>2, <1>3, NoMoreSignals DEF Inert
  <1> QED
    BY <1>1, <1>4 DEF DInv

(* A close turns the signal a run in flight will owe into one that is owed. *)
LEMMA DevClosing ==
    ASSUME DInv, TypeOK', DevTypeOK', DevKept, Closing, StatusMatchesReports'
    PROVE  DInv'
  <1> DEFINE a == Announce(runId, Succeeded)
  <1>1. a.run = runId
    BY DEF Announce
  <1> HIDE DEF a
  <1>2. Announcers' = Announcers \cup {a} /\ runId' = runId /\ announced' = announced
    BY DEF Closing, a
  <1>3. IsFiniteSet(Announcers')
    BY <1>2, FS_AddElement DEF DInv, DevCounted
  <1>4. \A r \in Runs : Signals(r)' <= Signals(r)
    <2> SUFFICES ASSUME NEW r \in Runs
                 PROVE  Signals(r)' <= Signals(r)
      OBVIOUS
    <2>1. IsFiniteSet(Owed(r)) /\ Cardinality(Owed(r)) \in Nat /\ announced[r] \in Nat
      BY OwedFinite, DevTypes DEF DInv, DevCounted
    <2>2. ~InFlight(r)'
      BY DEF InFlight, Closing
    <2>3. CASE r = runId
      <3>1. Owed(r)' = Owed(r) \cup {a}
        BY <1>1, <1>2, <2>3 DEF Owed
      <3>2. Cardinality(Owed(r) \cup {a})
                \in {Cardinality(Owed(r)), Cardinality(Owed(r)) + 1}
        BY <2>1, FS_AddElement
      <3>3. InFlight(r)
        BY <2>3 DEF InFlight, Closing
      <3> QED
        BY <1>2, <2>1, <2>2, <3>1, <3>2, <3>3 DEF Signals
    <2>4. CASE r # runId
      <3>1. Owed(r)' = Owed(r)
        BY <1>1, <1>2, <2>4 DEF Owed
      <3>2. ~InFlight(r)
        BY <2>4 DEF InFlight
      <3> QED
        BY <1>2, <2>1, <2>2, <3>1, <3>2 DEF Signals
    <2> QED
      BY <2>3, <2>4
  <1>5. DevCounted'
    BY <1>2, <1>3, <1>4, NoMoreSignals
  <1> QED
    BY <1>5 DEF DInv

(* A signal that is sent is no longer owed. *)
LEMMA DevSignal ==
    ASSUME DInv, TypeOK', DevTypeOK', DevKept, NEW t \in tasks, SendReportReady(t)
    PROVE  DInv'
  <1>1. t \in Announcers /\ Announcers' = Announcers \ {t}
    BY DEF SendReportReady, Announcers
  <1>2. announced \in [Runs -> Nat] /\ announced' = [announced EXCEPT ![t.run] = @ + 1]
    BY DevTypes DEF SendReportReady, DInv
  <1>3. runId' = runId /\ status' = status /\ report' = report
    BY DEF SendReportReady, auditVars
  <1>4. StatusMatchesReports'
    BY <1>3 DEF DInv, StatusMatchesReports, AllFinished, Finished, Succeeded
  <1>5. IsFiniteSet(Announcers')
    BY <1>1, FS_RemoveElement DEF DInv, DevCounted
  <1>6. \A r \in Runs : Signals(r)' <= Signals(r)
    <2> SUFFICES ASSUME NEW r \in Runs
                 PROVE  Signals(r)' <= Signals(r)
      OBVIOUS
    <2>1. IsFiniteSet(Owed(r)) /\ Cardinality(Owed(r)) \in Nat /\ announced[r] \in Nat
      BY OwedFinite, DevTypes DEF DInv, DevCounted
    <2>2. InFlight(r)' <=> InFlight(r)
      BY <1>3 DEF InFlight
    <2>3. CASE r = t.run
      <3>1. t \in Owed(r) /\ Owed(r)' = Owed(r) \ {t}
        BY <1>1, <2>3 DEF Owed
      <3>2. Cardinality(Owed(r)') = Cardinality(Owed(r)) - 1
        BY <2>1, <3>1, FS_RemoveElement
      <3>3. announced'[r] = announced[r] + 1
        BY <1>2, <2>3
      <3> QED
        BY <2>1, <2>2, <3>2, <3>3 DEF Signals
    <2>4. CASE r # t.run
      <3>1. Owed(r)' = Owed(r)
        BY <1>1, <2>4 DEF Owed
      <3>2. announced'[r] = announced[r]
        BY <1>2, <2>4
      <3> QED
        BY <2>1, <2>2, <3>1, <3>2 DEF Signals
    <2> QED
      BY <2>3, <2>4
  <1>7. DevCounted'
    BY <1>3, <1>5, <1>6, NoMoreSignals
  <1> QED
    BY <1>4, <1>7 DEF DInv

LEMMA DevExpire ==
    ASSUME DInv, TypeOK', DevTypeOK', DevKept, Expire
    PROVE  DInv'
  <1>1. /\ status \in ReusableAuditStatuses /\ status' = "expired" /\ runId' = runId
        /\ report' = report /\ tasks' = tasks /\ announced' = announced
    BY DEF Expire, WriteAudit
  <1>2. status \notin InFlightAuditStatuses /\ status' \notin InFlightAuditStatuses
    BY <1>1 DEF ReusableAuditStatuses, InFlightAuditStatuses
  <1>3. Succeeded # {}
    BY <1>1, SourcesAssumption DEF DInv, StatusMatchesReports, ReusableAuditStatuses
  <1>4. StatusMatchesReports'
    BY <1>1, <1>2, <1>3 DEF DInv, StatusMatchesReports, AllFinished, Finished, Succeeded
  <1>5. Announcers' = Announcers
    BY <1>1 DEF Announcers
  <1>6. \A r : Signals(r)' = Signals(r) /\ (Again(r)' <=> Again(r))
    BY <1>1, <1>2, <1>5 DEF Signals, Owed, InFlight, Again, DevKept
  <1>7. DevCounted'
    BY <1>1, <1>5, <1>6 DEF DInv, DevCounted
  <1> QED
    BY <1>4, <1>7 DEF DInv

(* A rerun abandons what the old run would still owe; the new one owes one signal. *)
LEMMA DevRerun ==
    ASSUME DInv, TypeOK', DevTypeOK', DevKept, Rerun
    PROVE  DInv'
  <1>1. runId' = runId + 1 /\ status' = "pending" /\ announced' = announced
    BY DEF Rerun, WriteAudit
  <1>2. runId \in Nat /\ Runs \subseteq Nat
    BY DevTypes DEF DInv
  <1>3. Announcers' = Announcers
    BY DEF Rerun, RunAuditMessage, Announcers
  <1>4. \A r : (Again(r)' <=> Again(r)) /\ Owed(r)' = Owed(r)
    BY <1>3 DEF Again, DevKept, Owed
  <1>5. \A r \in Runs : Signals(r) \in Nat /\ announced[r] \in Nat /\ Cardinality(Owed(r)) \in Nat
    BY OwedFinite, DevTypes DEF DInv, DevCounted, Signals
  <1>6. \A r \in Runs : r > runId' => Signals(r)' = 0
    <2> SUFFICES ASSUME NEW r \in Runs, r > runId'
                 PROVE  Signals(r)' = 0
      OBVIOUS
    <2>1. Signals(r) = 0 /\ ~InFlight(r) /\ ~InFlight(r)'
      BY <1>1, <1>2 DEF DInv, DevCounted, InFlight
    <2> QED
      BY <1>1, <1>4, <2>1 DEF Signals
  <1>7. ASSUME NEW r \in Runs
        PROVE  Signals(r)' <= IF Again(r) THEN 2 ELSE 1
    <2>1. CASE r = runId'
      <3>1. Signals(r) = 0 /\ ~InFlight(r)
        BY <1>1, <1>2, <2>1 DEF DInv, DevCounted, InFlight
      <3>2. Signals(r)' <= 1 /\ Signals(r)' \in Nat
        BY <1>1, <1>4, <1>5, <3>1 DEF Signals
      <3> QED
        BY <3>2
    <2>2. CASE r # runId'
      <3>1. ~InFlight(r)'
        BY <2>2 DEF InFlight
      <3>2. Signals(r)' <= Signals(r) /\ Signals(r)' \in Nat
        BY <1>1, <1>4, <1>5, <3>1 DEF Signals
      <3>3. Signals(r) <= IF Again(r) THEN 2 ELSE 1
        BY DEF DInv, DevCounted
      <3> QED
        BY <1>5, <3>2, <3>3
    <2> QED
      BY <2>1, <2>2
  <1>8. DevCounted'
    BY <1>3, <1>4, <1>6, <1>7 DEF DInv, DevCounted
  <1>9. StatusMatchesReports'
    BY <1>1 DEF StatusMatchesReports, InFlightAuditStatuses
  <1> QED
    BY <1>8, <1>9 DEF DInv

(* run_now on a closed audit makes room for one more signal, on one in flight for none. *)
LEMMA DevStartKeeps ==
    ASSUME DInv, DevStart
    PROVE  DInv'
  <1>1. /\ TypeOK' /\ DevTypeOK' /\ ~dev.reopened
        /\ dev'.run = runId /\ dev'.reopened = (status \notin InFlightAuditStatuses)
        /\ status' = "running" /\ runId' = runId /\ report' = report /\ tasks' = tasks
        /\ announced' = announced
    BY DevStartStep DEF DInv
  <1>2. StatusMatchesReports'
    BY <1>1 DEF StatusMatchesReports, InFlightAuditStatuses
  <1>3. /\ \A r : ~Again(r)
        /\ \A r : Again(r)' <=> (status \notin InFlightAuditStatuses /\ r = runId)
    BY <1>1 DEF Again
  <1>4. Announcers' = Announcers /\ \A r : Owed(r)' = Owed(r)
    BY <1>1 DEF Announcers, Owed
  <1>5. \A r \in Runs : announced[r] \in Nat /\ Cardinality(Owed(r)) \in Nat
    BY OwedFinite, DevTypes DEF DInv, DevCounted
  <1>6. \A r \in Runs : Signals(r) <= 1 /\ (r > runId => Signals(r) = 0)
    BY <1>3 DEF DInv, DevCounted
  <1>7. ASSUME NEW r \in Runs
        PROVE  /\ Signals(r)' <= IF Again(r)' THEN 2 ELSE 1
               /\ r > runId => Signals(r)' = 0
    <2>1. CASE r = runId
      <3>1. Signals(r)' = IF InFlight(r) THEN Signals(r) ELSE Signals(r) + 1
        BY <1>1, <1>4, <1>5, <2>1 DEF Signals, InFlight, InFlightAuditStatuses
      <3>2. InFlight(r) <=> ~Again(r)'
        BY <1>3, <2>1 DEF InFlight
      <3>3. ~(r > runId) /\ Signals(r) \in Nat
        BY <1>5, <2>1, DevTypes DEF DInv, Signals
      <3> QED
        BY <1>6, <3>1, <3>2, <3>3
    <2>2. CASE r # runId
      <3>1. Signals(r)' = Signals(r) /\ ~Again(r)'
        BY <1>1, <1>3, <1>4, <2>2 DEF Signals, InFlight
      <3> QED
        BY <1>6, <3>1
    <2> QED
      BY <2>1, <2>2
  <1>8. DevCounted'
    BY <1>1, <1>4, <1>7 DEF DInv, DevCounted
  <1> QED
    BY <1>1, <1>2, <1>8 DEF DInv

LEMMA DevNextKeeps ==
    ASSUME DInv, [DevNext]_devVars
    PROVE  DInv'
  <1>1. TypeOK /\ DevTypeOK
    BY DEF DInv
  <1> QED
    BY <1>1, DevStepCases, DevStartKeeps, DevInert, DevClosing, DevSignal, DevExpire, DevRerun

-------------------------------------------------------------------------------
(* The theorems.                                                               *)

LEMMA DevInitKeeps == DevInit => DInv
  <1> SUFFICES ASSUME DevInit
               PROVE  DInv
    OBVIOUS
  <1>1. TypeOK /\ StatusMatchesReports
    BY InitIInv DEF DevInit, IInv
  <1>2. DevTypeOK
    BY NumbersAssumption DEF DevInit, DevTypeOK, Dev
  <1>3. Announcers = {}
    BY DEF DevInit, Init, RunAuditMessage, Announcers
  <1>4. \A r \in Runs : announced[r] = 0
    BY DEF DevInit, Init
  <1>5. runId = 1 /\ \A r \in Runs : r \in Nat
    BY NumbersAssumption DEF DevInit, Init, Runs
  <1>6. IsFiniteSet(Announcers) /\ \A r \in Runs : Cardinality(Owed(r)) = 0
    BY <1>3, FS_EmptySet DEF Owed
  <1>7. \A r \in Runs : Signals(r) = IF InFlight(r) THEN 1 ELSE 0
    BY <1>4, <1>6 DEF Signals
  <1>8. DevCounted
    BY <1>5, <1>6, <1>7 DEF DevCounted, InFlight
  <1> QED
    BY <1>1, <1>2, <1>8 DEF DInv

(* The invariant is inductive under run_now. *)
THEOREM DevInvariance == DevSpec => []DInv
  <1>1. DInv /\ [DevNext]_devVars => DInv'
    BY DevNextKeeps
  <1> QED
    BY <1>1, DevInitKeeps, PTL DEF DevSpec

(* Worker and development endpoint together announce a run once, and once more only if
   run_now was called on a closed audit. *)
THEOREM DevAnnouncedOnce == DevSpec => []DevAnnouncedAtMostOnce
  <1>1. DInv => DevAnnouncedAtMostOnce
    <2> SUFFICES ASSUME DInv, NEW r \in Runs
                 PROVE  announced[r] <= IF dev.reopened /\ dev.run = r THEN 2 ELSE 1
      BY DEF DevAnnouncedAtMostOnce
    <2>1. announced[r] \in Nat /\ Cardinality(Owed(r)) \in Nat
      BY OwedFinite, DevTypes DEF DInv, DevCounted
    <2>2. Signals(r) <= IF Again(r) THEN 2 ELSE 1
      BY DEF DInv, DevCounted
    <2> QED
      BY <2>1, <2>2 DEF Signals, Again
  <1> QED
    BY <1>1, DevInvariance, PTL

(* The status of a closed audit tells its reports, although run_now claims an audit
   whatever its status and writes without a run check. *)
THEOREM DevStatusCorrect == DevSpec => []StatusMatchesReports
  <1>1. DInv => StatusMatchesReports
    BY DEF DInv
  <1> QED
    BY <1>1, DevInvariance, PTL

(* "A finished report is never reopened ... which makes a late worker run next to a
   development run-now harmless". *)
THEOREM DevNeverReopened == DevSpec => DevFinishedNeverReopened
  <1> DEFINE Keeps == \A s \in Sources : Finished(s) /\ runId' = runId => report'[s] = report[s]
  <1>1. DInv /\ [DevNext]_devVars => [Keeps]_devVars
    <2> SUFFICES ASSUME DInv, [DevNext]_devVars
                 PROVE  Keeps
      OBVIOUS
    <2>1. TypeOK /\ DevTypeOK
      BY DEF DInv
    <2>2. Inert \/ Closing => Keeps
      BY DEF Inert, Closing, FinishedKept
    <2>3. DevStart \/ Expire \/ (\E t \in tasks : SendReportReady(t)) => Keeps
      BY DEF DevStart, Expire, SendReportReady
    <2>4. Rerun => Keeps
      <3>1. runId \in Nat
        BY <2>1, DevTypes
      <3> QED
        BY <3>1 DEF Rerun
    <2> QED
      BY <2>1, <2>2, <2>3, <2>4, DevStepCases
  <1> QED
    BY <1>1, DevInvariance, PTL DEF DevSpec, DevFinishedNeverReopened

-------------------------------------------------------------------------------
(* What run_now writes: error codes, the sweeper, the promise.                 *)

LEMMA DevReportWrites ==
    ASSUME TypeOK, DevTypeOK,
           \/ \E s \in Sources : DevMarkRunning(s)
           \/ \E outcome \in SucceededReportStatuses : DevCompletes(outcome)
           \/ \E c \in SourceErrors \cup {"timeout"} : DevFails(c)
    PROVE  /\ report' = report \/ \E s \in Sources : Writes(s, dev.run)
           /\ UNCHANGED <<auditVars, tasks, waiting, announced, faults>>
  <1>1. dev.source \in Sources
    BY DEF DevTypeOK, Dev
  <1>2. \A c \in SourceErrors \cup {"timeout"} : c \in ErrorCode
    BY ErrorsAssumption DEF ErrorCode
  <1>3. ASSUME NEW s \in Sources, DevMarkRunning(s)
        PROVE  report' = report \/ Writes(s, dev.run)
    <2> DEFINE fields == [report[s] EXCEPT !.status = "running"]
    <2>1. fields \in Report /\ fields.quiet = report[s].quiet /\ (~Finished(s) => Coherent(fields))
      BY ReportTypes, CoherentFields, QuietFields
    <2>2. Save(s, dev.run, fields)
      BY <1>3 DEF DevMarkRunning
    <2> HIDE DEF fields
    <2> QED
      BY <2>1, <2>2, SaveWrites
  <1>4. ASSUME NEW outcome \in SucceededReportStatuses, DevCompletes(outcome)
        PROVE  report' = report \/ Writes(dev.source, dev.run)
    BY <1>1, <1>4, SaveWrites, ReportTypes, CoherentFields, QuietFields DEF DevCompletes
  <1>5. ASSUME NEW c \in SourceErrors \cup {"timeout"}, DevFails(c)
        PROVE  report' = report \/ Writes(dev.source, dev.run)
    BY <1>1, <1>2, <1>5, SaveWrites, ReportTypes, CoherentFields, QuietFields DEF DevFails
  <1>6. report' = report \/ \E s \in Sources : Writes(s, dev.run)
    BY <1>1, <1>3, <1>4, <1>5
  <1>7. UNCHANGED <<auditVars, tasks, waiting, announced, faults>>
    BY DEF DevMarkRunning, DevCompletes, DevFails
  <1> QED
    BY <1>6, <1>7

(* The steps of run_now by what they do to the audit row and the signals. *)
LEMMA DevRow ==
    ASSUME TypeOK, DevTypeOK, DevStep
    PROVE  \/ status' = status /\ modified' = modified /\ aged' = aged /\ tasks' = tasks
           \/ DevStart
           \/ /\ modified' = modified + 1 /\ status' = AuditStatusOf(Succeeded) /\ report' = report
              /\ tasks' = tasks \cup {Announce(runId, Succeeded)} /\ AllFinished
  <1>1. CASE DevFinish
    BY <1>1 DEF DevFinish, DevClosesRun, ClosesRun, WriteAudit
  <1>2. CASE DevBreaks
    BY <1>2 DEF DevBreaks, vars, auditVars
  <1>3. CASE ~DevFinish /\ ~DevBreaks /\ ~DevStart
    BY <1>3, DevReportWrites DEF DevStep, auditVars
  <1> QED
    BY <1>1, <1>2, <1>3

(* The error codes, the sweeps and the numbers of the signals stay right as well. *)
DevSteady == DInv /\ CodeMatchesStatus /\ SweepsKnow /\ SignalsNumbered

LEMMA DevSteadyStep ==
    ASSUME DevSteady, DevStep
    PROVE  CodeMatchesStatus' /\ SweepsKnow' /\ SignalsNumbered'
  <1> DEFINE a == Announce(runId, Succeeded)
  <1>1. TypeOK /\ DevTypeOK /\ modified \in Nat
    BY DEF DevSteady, DInv, TypeOK
  <1>2. a.kind = "announce" /\ a.write = modified
    BY DEF Announce
  <1>3. \/ status' = status /\ modified' = modified /\ aged' = aged /\ tasks' = tasks
        \/ tasks' \subseteq tasks \cup {a} /\ modified' = modified + 1
    BY <1>1, DevRow DEF DevStart, WriteAudit
  <1> HIDE DEF a
  <1>4. SweepsKnow'
    <2>1. \A t \in tasks : t.kind = "sweep" => t.seen \in Nat /\ t.seen <= modified
      BY <1>1, TaskKinds DEF TypeOK, Sweep, DevSteady, SweepsKnow
    <2>2. CASE status' = status /\ modified' = modified /\ aged' = aged /\ tasks' = tasks
      BY <2>2 DEF DevSteady, SweepsKnow, StillStuck
    <2>3. CASE tasks' \subseteq tasks \cup {a} /\ modified' = modified + 1
      BY <1>1, <1>2, <2>1, <2>3 DEF SweepsKnow, StillStuck
    <2> QED
      BY <1>3, <2>2, <2>3
  <1>5. SignalsNumbered'
    <2>1. \A t \in Announcers : t.write \in Nat /\ t.write < modified
      BY <1>1, TaskKinds DEF TypeOK, Announcers, Announcer, DevSteady, SignalsNumbered
    <2>2. \A t \in Announcers' : t \in Announcers \/ t = a
      BY <1>3 DEF Announcers
    <2>3. modified' = modified \/ modified' = modified + 1
      BY <1>3
    <2>4. CASE Announcers' \subseteq Announcers
      BY <1>1, <2>1, <2>3, <2>4 DEF SignalsNumbered
    <2>5. CASE modified' = modified + 1
      BY <1>1, <1>2, <2>1, <2>2, <2>5 DEF SignalsNumbered
    <2> QED
      BY <1>3, <2>4, <2>5 DEF Announcers
  <1>6. CodeMatchesStatus'
    <2>1. /\ CodeMatchesStatus => \A s \in Sources : Coherent(report[s])
          /\ (\A s \in Sources : Coherent(report'[s])) => CodeMatchesStatus'
      BY DEF CodeMatchesStatus, Coherent
    <2>2. report' = report \/ \E s \in Sources : Writes(s, dev.run)
      BY <1>1, DevReportWrites DEF DevStep, DevStart, DevBreaks, DevFinish, vars
    <2>3. \A s \in Sources : Coherent(report'[s])
      BY <2>1, <2>2 DEF DevSteady, Writes
    <2> QED
      BY <2>1, <2>3
  <1> QED
    BY <1>4, <1>5, <1>6

(* The error codes under the steps of the workers. *)
LEMMA NextCodes ==
    ASSUME TypeOK, CodeMatchesStatus, [Next]_vars
    PROVE  CodeMatchesStatus'
  <1>1. /\ \A s \in Sources : Coherent(report[s])
        /\ (\A s \in Sources : Coherent(report'[s])) => CodeMatchesStatus'
    BY DEF CodeMatchesStatus, Coherent
  <1> SUFFICES ASSUME NEW s \in Sources
               PROVE  Coherent(report'[s])
    BY <1>1
  <1>2. CASE Rerun
    BY <1>2 DEF Rerun, NewReport, Coherent
  <1>3. CASE \E t \in tasks, u \in Sources : WorkerStep(t) /\ Busy(t) /\ Writes(u, t.run)
    BY <1>1, <1>3 DEF Writes
  <1>4. CASE \E t \in tasks : SweepFail(t) /\ StillStuck(t)
    BY <1>1, <1>4, SweepWrites
  <1> QED
    BY <1>1, <1>2, <1>3, <1>4, StepWrites

LEMMA DevSteadyKeeps ==
    ASSUME DevSteady, [DevNext]_devVars
    PROVE  DevSteady'
  <1>1. DInv'
    BY DevNextKeeps DEF DevSteady
  <1>2. CASE DevStep
    BY <1>1, <1>2, DevSteadyStep DEF DevSteady
  <1>3. CASE [Next]_vars
    <2>1. TypeOK /\ TypeOK'
      BY <1>1 DEF DevSteady, DInv
    <2> QED
      BY <1>1, <1>3, <2>1, NextCodes, NextSweepsKnow, NextNumbered DEF DevSteady
  <1> QED
    BY <1>2, <1>3 DEF DevNext, devVars, vars

LEMMA DevSteadyInvariance == DevSpec => []DevSteady
  <1>1. ASSUME DevInit PROVE DevSteady
    <2>1. Init /\ DInv
      BY <1>1, DevInitKeeps DEF DevInit
    <2>2. \A t \in tasks : t.kind # "sweep"
      BY <2>1 DEF Init, RunAuditMessage
    <2> QED
      BY <2>1, <2>2, InitRInv, InitPInv DEF DevSteady, SweepsKnow, RInv, PInv
  <1>2. DevSteady /\ [DevNext]_devVars => DevSteady'
    BY DevSteadyKeeps
  <1> QED
    BY <1>1, <1>2, PTL DEF DevSpec

(* Error codes tell the outcome next to run_now as well, which writes over the noted
   retries of the workers and they over its marks. *)
THEOREM DevCodeCorrect == DevSpec => []CodeMatchesStatus
  <1>1. DevSteady => CodeMatchesStatus
    BY DEF DevSteady
  <1> QED
    BY <1>1, DevSteadyInvariance, PTL

(* The sweeper spares an audit that run_now claimed since its scan. *)
THEOREM DevSweepSparesLiveRuns == DevSpec => SweepOnlyFailsStuckRuns
  <1> DEFINE Spares == status' = "failed" /\ status # "failed" =>
                          aged \/ (AllFinished /\ Succeeded = {})
  <1>1. ASSUME DevSteady, [DevNext]_devVars PROVE Spares
    <2>1. TypeOK /\ DevTypeOK
      BY <1>1 DEF DevSteady, DInv
    <2>2. CASE DevStep
      <3>1. CASE DevStart
        BY <3>1 DEF DevStart, WriteAudit
      <3>2. CASE status' = AuditStatusOf(Succeeded) /\ AllFinished
        BY <3>2 DEF AuditStatusOf
      <3> QED
        BY <2>1, <2>2, <3>1, <3>2, DevRow
    <2>3. CASE [Next]_vars
      BY <1>1, <2>1, <2>3, NextSpares DEF DevSteady
    <2> QED
      BY <1>1, <2>2, <2>3 DEF DevNext, devVars, vars
  <1>2. DevSteady /\ [DevNext]_devVars => [Spares]_vars
    BY <1>1
  <1> QED
    BY <1>2, DevSteadyInvariance, PTL DEF DevSpec, SweepOnlyFailsStuckRuns

-------------------------------------------------------------------------------
(* The refinement: every step of AuditRunDev is a step of the promise.         *)

(* What is a step of the promise of the workers alone is one of this promise, as long
   as run_now sets nothing working again. *)
LEMMA PromiseIsDevPromise ==
    ASSUME [Promise!Next]_(Promise!vars), dev'.reopened = dev.reopened
    PROVE  [DevPromise!Next]_(DevPromise!vars)
  <1>1. CASE UNCHANGED Promise!vars
    BY <1>1 DEF Promise!vars, DevPromise!vars
  <1>2. CASE Promise!Begin
    BY <1>2 DEF Promise!Begin, DevPromise!Begin, DevPromise!Next
  <1>3. CASE Promise!Close
    <2>1. DevPromise!Close
      BY <1>3 DEF Promise!Close, DevPromise!Close, Promise!OutcomeSucceeded, DevPromise!OutcomeSucceeded
    <2> QED
      BY <2>1 DEF DevPromise!Next
  <1>4. CASE Promise!Restart
    BY <1>4 DEF Promise!Restart, DevPromise!Restart, DevPromise!Next
  <1>5. ~Promise!Reopen
    BY DEF Promise!Reopen
  <1>6. ASSUME NEW s \in Sources, Promise!Settle(s)
        PROVE  DevPromise!Settle(s)
    BY <1>6 DEF Promise!Settle, DevPromise!Settle
  <1>7. ASSUME NEW o \in PromisedSignals, Promise!Signal(o) \/ Promise!LoseSignal(o)
        PROVE  DevPromise!Signal(o) \/ DevPromise!LoseSignal(o)
    BY <1>7 DEF Promise!Signal, Promise!LoseSignal, DevPromise!Signal, DevPromise!LoseSignal
  <1> QED
    BY <1>1, <1>2, <1>3, <1>4, <1>5, <1>6, <1>7 DEF Promise!Next, DevPromise!Next

(* run_now begins a pending run, changes nothing promised of a running one, and sets a
   closed one working again. *)
LEMMA DevStartPromised ==
    ASSUME DevSteady, DevStart
    PROVE  [DevPromise!Next]_(DevPromise!vars)
  <1>1. /\ ~dev.reopened /\ dev'.reopened = (status \notin InFlightAuditStatuses)
        /\ status' = "running" /\ runId' = runId /\ report' = report /\ announced' = announced
        /\ tasks' = tasks
    BY DevStartStep DEF DevSteady, DInv
  <1>2. PromisedOutcome' = PromisedOutcome /\ PromisedSignals' = PromisedSignals
    BY <1>1, OutcomesKept DEF PromisedSignals
  <1>3. PromisedPhase' = "working"
    BY <1>1 DEF PromisedPhase
  <1>4. dev.reopened = FALSE
    BY <1>1 DEF DevSteady, DInv, DevTypeOK, Dev
  <1>5. CASE status = "pending"
    <2>1. PromisedPhase = "queued" /\ dev'.reopened = FALSE
      BY <1>1, <1>5 DEF PromisedPhase, InFlightAuditStatuses
    <2>2. DevPromise!Begin
      BY <1>1, <1>2, <1>3, <1>4, <2>1 DEF DevPromise!Begin
    <2> QED
      BY <2>2 DEF DevPromise!Next
  <1>6. CASE status = "running"
    <2>1. PromisedPhase = "working" /\ dev'.reopened = FALSE
      BY <1>1, <1>6 DEF PromisedPhase, InFlightAuditStatuses
    <2> QED
      BY <1>1, <1>2, <1>3, <1>4, <2>1 DEF DevPromise!vars
  <1>7. CASE status \notin InFlightAuditStatuses
    <2>1. PromisedPhase = "closed" /\ dev'.reopened = TRUE
      BY <1>1, <1>7 DEF PromisedPhase, InFlightAuditStatuses
    <2>2. DevPromise!Reopen
      BY <1>1, <1>2, <1>3, <1>4, <2>1 DEF DevPromise!Reopen
    <2> QED
      BY <2>2 DEF DevPromise!Next
  <1> QED
    BY <1>5, <1>6, <1>7 DEF InFlightAuditStatuses

LEMMA DevNextPromised ==
    ASSUME DevSteady, [DevNext]_devVars
    PROVE  [DevPromise!Next]_(DevPromise!vars)
  <1>1. PInv /\ TypeOK /\ DevTypeOK
    BY DEF DevSteady, DInv, PInv
  <1>2. CASE DevStart
    BY <1>2, DevStartPromised
  <1>3. CASE \/ \E s \in Sources : DevMarkRunning(s)
             \/ \E outcome \in SucceededReportStatuses : DevCompletes(outcome)
             \/ \E c \in SourceErrors \cup {"timeout"} : DevFails(c)
    <2>1. /\ report' = report \/ \E s \in Sources : Writes(s, dev.run)
          /\ UNCHANGED <<auditVars, tasks, waiting, announced, faults>>
      BY <1>1, <1>3, DevReportWrites
    <2>2. /\ status' = status /\ runId' = runId /\ announced' = announced
          /\ Announcers' = Announcers /\ PromisedPhase' = PromisedPhase
      BY <2>1 DEF auditVars, Announcers, PromisedPhase
    <2>3. [Promise!Next]_(Promise!vars)
      BY <1>1, <2>1, <2>2, SettleStep, StutterStep
    <2>4. DevKept
      BY <1>1, <1>3, DevReportStep
    <2> QED
      BY <2>3, <2>4, PromiseIsDevPromise DEF DevKept
  <1>4. CASE DevBreaks \/ DevFinish
    <2>1. DevKept /\ (UNCHANGED vars \/ (Closing /\ StatusMatchesReports'))
      BY <1>1, <1>4, DevBreaksStep, DevFinishStep DEF DevBreaks
    <2>2. [Promise!Next]_(Promise!vars)
      BY <1>1, <2>1, QuietStep, ClosingStep DEF Promise!Next
    <2> QED
      BY <2>1, <2>2, PromiseIsDevPromise DEF DevKept
  <1>5. CASE [Next]_vars /\ UNCHANGED dev
    BY <1>1, <1>5, PromiseNext, PromiseIsDevPromise
  <1> QED
    BY <1>2, <1>3, <1>4, <1>5 DEF DevNext, DevStep, devVars, vars

(* The refinement under run_now: what is promised of an audit holds next to a call that
   runs its sources a second time, with one closed run set working again at most. *)
THEOREM DevRefinement == DevSpec => DevKeepsPromise
  <1>1. ASSUME DevInit PROVE DevPromise!Init
    <2>1. Promise!Init
      BY <1>1, PromiseInit DEF DevInit
    <2>2. dev.reopened = FALSE
      BY <1>1 DEF DevInit
    <2> QED
      BY <2>1, <2>2 DEF Promise!Init, DevPromise!Init
  <1>2. DevSteady /\ [DevNext]_devVars => [DevPromise!Next]_(DevPromise!vars)
    BY DevNextPromised
  <1> QED
    BY <1>1, <1>2, DevSteadyInvariance, PTL DEF DevSpec, DevKeepsPromise, DevPromise!Spec
===============================================================================

----------------------------- MODULE AuditRunDev ------------------------------
(***************************************************************************)
(* AuditRun next to the development endpoint: run_now of audit_service.py  *)
(* runs every source inline, in one process without a run check, while     *)
(* workers, sweeps and reruns go on.                                       *)
(***************************************************************************)
EXTENDS AuditRun

VARIABLE dev   \* the one run_now call (bound): where it is, its run, its reports, and
               \* (history) whether it found the audit closed

devVars == <<vars, dev>>

DevGoto(label) == dev' = [dev EXCEPT !.pc = label]

-------------------------------------------------------------------------------
(* Slips: the definitions of the same name without the suffix after a plausible bug. *)
DevClosesAgainSlip ==      \* the status is not looked at
    AllFinished
DevNeverClosesSlip ==      \* finish() is left to the workers
    FALSE

-------------------------------------------------------------------------------
(* The audit is claimed whatever its status, then its reports are loaded. *)
DevStart ==
    /\ dev.pc = "idle"
    /\ WriteAudit("running")
    /\ dev' = [dev EXCEPT !.pc = "next", !.run = runId, !.todo = Sources,
                          !.reopened = status \notin InFlightAuditStatuses]
    /\ UNCHANGED <<runId, report, tasks, waiting, announced, faults>>

(* report_service.run of the next report: skipped if it is finished. *)
DevMarkRunning(s) ==
    /\ dev.pc = "next" /\ s \in dev.todo
    /\ Save(s, dev.run, [report[s] EXCEPT !.status = "running"])
    /\ dev' = [dev EXCEPT !.todo = @ \ {s}, !.source = s,
                          !.pc = IF Writable(s) THEN "fetching" ELSE "next"]
    /\ UNCHANGED <<auditVars, tasks, waiting, announced, faults>>

(* The fetch, or the one immediate poll, stores a result ... *)
DevCompletes(outcome) ==
    /\ dev.pc = "fetching"
    /\ Save(dev.source, dev.run, FinalReport(dev.source, outcome))
    /\ DevGoto("next")
    /\ UNCHANGED <<auditVars, tasks, waiting, announced, faults>>

(* ... or a SourceError, or a poll result not ready at its deadline, fails it. *)
DevFails(c) ==
    /\ dev.pc = "fetching"
    /\ c = "timeout" => dev.source \in PollingSources \/ c \in SourceErrors
    /\ Save(dev.source, dev.run, FailedReport(dev.source, c))
    /\ DevGoto("next")
    /\ UNCHANGED <<auditVars, tasks, waiting, announced, faults>>

(* Any other exception ends the call. *)
DevBreaks ==
    /\ dev.pc = "fetching"
    /\ DevGoto("broken")
    /\ UNCHANGED vars

(* finish() closes the run if it can, and the signal is sent by the same process. *)
DevClosesRun == ClosesRun

DevFinish ==
    /\ dev.pc = "next" /\ dev.todo = {}
    /\ DevGoto("over")
    /\ IF DevClosesRun
       THEN /\ WriteAudit(AuditStatusOf(Succeeded))
            /\ tasks' = tasks \cup {Announce(runId, Succeeded)}
       ELSE UNCHANGED <<status, modified, aged, tasks>>
    /\ UNCHANGED <<runId, report, waiting, announced, faults>>

DevStep ==
    \/ DevStart \/ DevBreaks \/ DevFinish
    \/ \E s \in Sources : DevMarkRunning(s)
    \/ \E outcome \in SucceededReportStatuses : DevCompletes(outcome)
    \/ \E c \in SourceErrors \cup {"timeout"} : DevFails(c)

DevInit ==
    /\ Init
    /\ \E s \in Sources : dev = [pc |-> "idle", run |-> 0, source |-> s, todo |-> {},
                                  reopened |-> FALSE]

DevNext == DevStep \/ (Next /\ UNCHANGED dev)

DevSpec == DevInit /\ [][DevNext]_devVars

(* The workers go on, and so does a call that was begun; none needs to begin. *)
DevFairSpec ==
    /\ DevSpec
    /\ WF_devVars(UNCHANGED dev /\ \E t \in tasks : WorkerStep(t))
    /\ WF_devVars(dev.pc # "idle" /\ DevStep)

-------------------------------------------------------------------------------
(* Properties.                                                                 *)

(* "A finished report is never reopened ... which makes a late worker run next to a
   development run-now harmless". *)
DevFinishedNeverReopened ==
    [][\A s \in Sources : Finished(s) /\ runId' = runId => report'[s] = report[s]]_devVars

(* The worker and the endpoint together announce a run once at most, once more only
   when run_now was called on a closed audit and set it running again. *)
DevAnnouncedAtMostOnce ==
    \A r \in Runs : announced[r] <= IF dev.reopened /\ dev.run = r THEN 2 ELSE 1

(* Without the sweeper's help the audit closes, by the tasks of its run or by the
   run_now that took it from them, whatever the sources answer; unless run_now broke:
   its audit is running, and nobody but the sweeper closes it. *)
DevRunEventuallyCloses ==
    status \in InFlightAuditStatuses ~> status \notin InFlightAuditStatuses \/ dev.pc = "broken"
===============================================================================

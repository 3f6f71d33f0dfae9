--------------------------- MODULE AuditRunPromise ----------------------------
(* AuditRun keeps RunPromise: the refinement mapping. *)
EXTENDS AuditRun

PromisedPhase ==
    CASE status = "pending" -> "queued"
      [] status = "running" -> "working"
      [] OTHER -> "closed"

PromisedOutcome ==
    [s \in Sources |-> IF s \in Succeeded THEN "succeeded"
                       ELSE IF Finished(s) THEN "failed" ELSE "open"]

PromisedSignals == {t \in tasks : t.kind = "announce"}

(* No task sets a closed run working again. *)
Promise ==
    INSTANCE RunPromise WITH run <- runId, phase <- PromisedPhase, outcome <- PromisedOutcome,
                             owed <- PromisedSignals, sent <- announced,
                             reopened <- FALSE, MayReopen <- FALSE

(* Every step of the workers, the sweeper, the admin and the broker is a step of
   the promise or changes nothing of it. *)
KeepsPromise == Promise!Spec
===============================================================================

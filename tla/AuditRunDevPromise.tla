-------------------------- MODULE AuditRunDevPromise --------------------------
(* AuditRunDev keeps RunPromise with run_now: the mapping of AuditRunPromise, and
   whether run_now found the audit closed. *)
EXTENDS AuditRunDev, AuditRunPromise

DevPromise ==
    INSTANCE RunPromise WITH run <- runId, phase <- PromisedPhase, outcome <- PromisedOutcome,
                             owed <- PromisedSignals, sent <- announced,
                             reopened <- dev.reopened, MayReopen <- TRUE

(* run_now, which neither checks the run nor the status, breaks nothing of the promise
   next to the workers but that a closed run stays closed: no source settles twice, and
   each close, its own included, owes one true signal. *)
DevKeepsPromise == DevPromise!Spec
===============================================================================

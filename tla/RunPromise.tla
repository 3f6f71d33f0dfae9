------------------------------ MODULE RunPromise ------------------------------
(***************************************************************************)
(* What one audit promises its consumers, whatever happens to its tasks:   *)
(* each source settles at most once per run; a closed run has every source *)
(* settled and stays as it is until the next one; each close owes one      *)
(* signal, which names exactly the sources that succeeded in the run, and  *)
(* which a crash may lose but nothing repeats.  Where run_now may be       *)
(* called, it may set a closed run working again, once; what was settled   *)
(* stays, and the run is closed, and owes its signal, a second time.       *)
(***************************************************************************)
EXTENDS Integers

CONSTANTS
    Sources, MaxRuns,
    MayReopen  \* whether run_now may be called

VARIABLES
    run,       \* number of the current run
    phase,     \* "queued", "working" or "closed"
    outcome,   \* of each source: "open", "succeeded" or "failed"
    owed,      \* signals committed to and not sent: each with its run and what succeeded
    sent,      \* number of signals sent for each run
    reopened   \* whether a closed run was set working again

vars == <<run, phase, outcome, owed, sent, reopened>>

OutcomeSucceeded == {s \in Sources : outcome[s] = "succeeded"}

Init ==
    /\ run = 1 /\ phase = "queued"
    /\ outcome = [s \in Sources |-> "open"]
    /\ owed = {} /\ sent = [r \in 1..MaxRuns |-> 0]
    /\ reopened = FALSE

Begin ==
    /\ phase = "queued" /\ phase' = "working"
    /\ UNCHANGED <<run, outcome, owed, sent, reopened>>

Settle(s) ==
    /\ phase # "closed" /\ outcome[s] = "open"
    /\ \E o \in {"succeeded", "failed"} : outcome' = [outcome EXCEPT ![s] = o]
    /\ UNCHANGED <<run, phase, owed, sent, reopened>>

(* Close the run, failing what is still open; a signal, unlike any other that is owed,
   is owed from now on. *)
Close ==
    /\ phase # "closed" /\ phase' = "closed"
    /\ outcome' = [s \in Sources |-> IF outcome[s] = "open" THEN "failed" ELSE outcome[s]]
    /\ \E o \in owed' \ owed :
          o.run = run /\ o.succeeded = OutcomeSucceeded /\ owed' = owed \cup {o}
    /\ UNCHANGED <<run, sent, reopened>>

Signal(o) ==
    /\ owed' = owed \ {o}
    /\ sent' = [sent EXCEPT ![o.run] = @ + 1]
    /\ UNCHANGED <<run, phase, outcome, reopened>>

LoseSignal(o) ==
    /\ owed' = owed \ {o}
    /\ UNCHANGED <<run, phase, outcome, sent, reopened>>

Restart ==
    /\ phase # "working" /\ run < MaxRuns
    /\ run' = run + 1 /\ phase' = "queued"
    /\ outcome' = [s \in Sources |-> "open"]
    /\ UNCHANGED <<owed, sent, reopened>>

Reopen ==
    /\ MayReopen /\ ~reopened
    /\ phase = "closed" /\ phase' = "working" /\ reopened' = TRUE
    /\ UNCHANGED <<run, outcome, owed, sent>>

Next ==
    \/ Begin \/ Close \/ Restart \/ Reopen
    \/ \E s \in Sources : Settle(s)
    \/ \E o \in owed : Signal(o) \/ LoseSignal(o)

Spec == Init /\ [][Next]_vars
===============================================================================

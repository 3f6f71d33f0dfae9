------------------------------ MODULE PollBudget ------------------------------
(***************************************************************************)
(* The two clocks of a polling source.  Its poll task re-dispatches itself *)
(* every interval until its deadline; finish_audit re-checks every         *)
(* interval and counts its attempts.  Neither knows the other: the module  *)
(* asks, second by second, by how much the count outlasts the deadline,    *)
(* and whether the clamps of settings.py keep both from spinning.          *)
(***************************************************************************)
EXTENDS Integers

CONSTANTS
    Configured,   \* values of the two poll settings, sensible or not
    Latency,      \* bound: seconds a due message waits for a worker
    FetchTime,    \* bound: seconds one poll of the upstream takes
    LastStart,    \* bound: seconds from the submission to the chord body
    Horizon       \* bound: seconds modelled

ASSUME ClockConstants ==
    /\ Configured \subseteq Int
    /\ Latency \in Nat /\ FetchTime \in Nat /\ LastStart \in Nat /\ Horizon \in Nat

VARIABLES
    interval, budget,   \* the settings in force
    now,                \* seconds since the submission
    poll,               \* the poll task: state, when due, when its fetch began, runs so far
    finish,             \* finish_audit: state, when due, attempt, when first due
    report              \* the polling source's report

pollVars == <<interval, budget, now, poll, finish, report>>

-------------------------------------------------------------------------------
(* Slips: the definitions of the same name without the suffix after a plausible bug. *)
AtLeastSlip(configured, minimum) == configured    \* the setting as configured
ChecksAgainSlip(attempt) ==                       \* without the extra interval
    attempt * interval < budget
ChecksOnSlip(attempt) ==                          \* two intervals too many
    (attempt - 2) * interval <= budget + interval

-------------------------------------------------------------------------------
(* settings.py *)
AtLeast(configured, minimum) == IF configured >= minimum THEN configured ELSE minimum
PollInterval(configured) == AtLeast(configured, 1)
PollBudgetOf(configured, configuredInterval) == AtLeast(configured, PollInterval(configuredInterval))

(* finish_audit goes on re-checking. *)
ChecksAgain(attempt) == attempt * interval <= budget + interval

(* _schedule_poll: the deadline of every poll of this submission. *)
Deadline == budget

PollInit(configured, starts) ==
    \E i, b \in configured, start \in starts :
        /\ interval = PollInterval(i) /\ budget = PollBudgetOf(b, i)
        /\ now = 0
        /\ poll = [pc |-> "queued", due |-> interval, at |-> 0, runs |-> 0]
        /\ finish = [pc |-> "queued", at |-> start, attempt |-> 0, start |-> start]
        /\ report = "running"

(* A due message is taken in time; a fetch ends in time. *)
Punctual ==
    /\ poll.pc = "queued" => now < poll.due + Latency
    /\ poll.pc = "fetching" => now < poll.at + FetchTime
    /\ finish.pc = "queued" => now < finish.at + Latency

SecondPasses ==
    /\ now < Horizon /\ Punctual
    /\ now' = now + 1
    /\ UNCHANGED <<interval, budget, poll, finish, report>>

PollStarts ==
    /\ poll.pc = "queued" /\ now >= poll.due
    /\ poll' = [poll EXCEPT !.pc = "fetching", !.at = now, !.runs = @ + 1]
    /\ UNCHANGED <<interval, budget, now, finish, report>>

(* _save: a report that finish_audit failed meanwhile stays failed. *)
Settle(outcome) == report' = IF report = "running" THEN outcome ELSE report

(* The poll ends the chain with a result, or with a failure: a SourceError, which may
   come at any time, or a deadline that has passed; it is put off; or another exception
   ends the chain and leaves the report as it is. *)
PollEnds ==
    /\ poll.pc = "fetching"
    /\ \/ \E outcome \in {"completed", "failed by poll"} :
            Settle(outcome) /\ poll' = [poll EXCEPT !.pc = "over"]
       \/ /\ now < Deadline
          /\ poll' = [poll EXCEPT !.pc = "queued", !.due = now + interval]
          /\ UNCHANGED report
       \/ poll' = [poll EXCEPT !.pc = "broken"] /\ UNCHANGED report
    /\ UNCHANGED <<interval, budget, now, finish>>

LosePoll ==
    /\ poll.pc = "queued"
    /\ poll' = [poll EXCEPT !.pc = "lost"]
    /\ UNCHANGED <<interval, budget, now, finish, report>>

FinishChecks ==
    /\ finish.pc = "queued" /\ now >= finish.at
    /\ IF report # "running"
       THEN finish' = [finish EXCEPT !.pc = "closed"] /\ UNCHANGED report
       ELSE IF ChecksAgain(finish.attempt)
       THEN finish' = [finish EXCEPT !.at = now + interval, !.attempt = @ + 1] /\ UNCHANGED report
       ELSE finish' = [finish EXCEPT !.pc = "closed"] /\ report' = "failed by finish"
    /\ UNCHANGED <<interval, budget, now, poll>>

PollNext == SecondPasses \/ PollStarts \/ PollEnds \/ LosePoll \/ FinishChecks

(* `starts`: when the chord body may be published. *)
PollSpec(starts) == PollInit(Configured, starts) /\ [][PollNext]_pollVars

-------------------------------------------------------------------------------
(* Properties.                                                                 *)

(* "A lost poll task must not keep the audit running forever": finish_audit fails the
   report only of a poll that was lost or broke, or that is unanswered more than a second
   after it was due, and the delay of the chord body on top.  The interval that it waits
   beyond the budget is for this: without it a poll could be failed before it is due. *)
OnlyLatePollsAreFailed ==
    [][report # "failed by finish" /\ report' = "failed by finish" =>
         \/ poll.pc \in {"lost", "broken"}
         \/ poll.pc \in {"queued", "fetching"} /\ now > poll.due + finish.start + 1]_pollVars

(* "finish_audit re-checks for one poll budget plus one interval": the run is closed
   at most two intervals and the waits of its checks after that. *)
ClosedInTime ==
    finish.pc = "queued" =>
        now <= finish.start + Latency
                 + ((budget + interval) \div interval + 1) * (interval + Latency)

(* "0 would re-queue the poll and finish tasks without a pause": a task has run no more
   often than seconds have passed since the submission or its first check. *)
NoSpinning ==
    /\ poll.runs <= now
    /\ finish.attempt > 0 => finish.attempt <= now - finish.start + 1
===============================================================================

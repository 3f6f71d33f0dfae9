---------------------------- MODULE AuditRequests -----------------------------
(***************************************************************************)
(* Concurrent request_audit and rerun_audit calls for one domain on one    *)
(* channel: which audit each caller is given, which rows come to exist and *)
(* which report_ready signals tell of them.                                *)
(*                                                                         *)
(* A step of a caller is one query or one transaction.  The run of an      *)
(* audit is reduced to what callers see of it: it is claimed, and it       *)
(* closes with some sources succeeded or with none (AuditRun has the run). *)
(* The signal that follows the closing commit is part of the closing step. *)
(***************************************************************************)
EXTENDS Integers, Sequences, SequencesExt, AuditTypes

CONSTANTS
    Sources,      \* the registered sources
    Callers,      \* each calls request_audit or the rerun view once
    MaxRows       \* bound: audits of the domain

ASSUME RequestConstants == Sources # {} /\ MaxRows \in Nat

VARIABLES
    rows,     \* the audits of the domain, oldest first
    call,     \* progress and answer of each caller
    heard     \* report_ready was sent for the domain since the call began

vars == <<rows, call, heard>>

(* `unexpired` is expires_at > now; `succeeded` the sources whose reports did;
   `run` tells run_ids apart; `stored` is FALSE once the row is deleted. *)
Row == [status : AuditStatus, unexpired : BOOLEAN, succeeded : SUBSET Sources, run : Nat,
        stored : BOOLEAN]

NewRow(run) ==
    [status |-> "pending", unexpired |-> TRUE, succeeded |-> {}, run |-> run, stored |-> TRUE]

NoRow == 0

Call ==
    [pc : {"idle", "lookup", "reusing", "signalling", "inserting", "race_in_flight", "race_valid",
           "race_newest", "resetting", "refreshing", "answered"},
     row : 0..MaxRows, run : Nat, succeeded : SUBSET Sources,
     code : {0, 200, 201, 202, 409, 500}]

-------------------------------------------------------------------------------
(* Slips: the definitions of the same name without the suffix after a plausible bug. *)
MayBePendingSlip(i) ==        \* the constraint does not cover reruns
    TRUE
RaceNewestSlip(c) ==          \* no last resort: first() is dropped
    /\ call[c].pc = "race_newest"
    /\ call' = [call EXCEPT ![c].pc = "answered", ![c].row = NoRow, ![c].code = 500]
    /\ UNCHANGED <<rows, heard>>
SignalReuseSlip(c) ==         \* a reuse is answered without a signal
    /\ call[c].pc = "signalling"
    /\ call' = [call EXCEPT ![c].pc = "answered", ![c].code = 200]
    /\ UNCHANGED <<rows, heard>>
HttpStatusSlip(auditStatus) ==    \* a third answer for an audit that failed meanwhile
    IF auditStatus \in ReusableAuditStatuses THEN 200
    ELSE IF auditStatus \in InFlightAuditStatuses THEN 201 ELSE 404
ValidSlip ==                  \* failed audits are reused as well
    {i \in DOMAIN rows : /\ rows[i].stored /\ rows[i].unexpired
                         /\ rows[i].status \notin InFlightAuditStatuses}

-------------------------------------------------------------------------------
Ids == {i \in DOMAIN rows : rows[i].stored}

InFlight == {i \in Ids : rows[i].status \in InFlightAuditStatuses}

Valid == {i \in Ids : rows[i].status \in ReusableAuditStatuses /\ rows[i].unexpired}

(* order_by("-created_at").first(), None if there is none *)
Newest(S) == IF S = {} THEN NoRow ELSE CHOOSE i \in S : \A j \in S : j <= i

(* The unique constraint lets row i become pending. *)
MayBePending(i) == InFlight \subseteq {i}

(* 200 for a reusable status, else 201: the view reads the returned instance. *)
HttpStatus(auditStatus) == IF auditStatus \in ReusableAuditStatuses THEN 200 ELSE 201

(* report_ready of an audit of the domain: every call in progress or over hears it. *)
Signal == heard' = [c \in Callers |-> call[c].pc # "idle" \/ heard[c]]

Answer(c, i, code) ==
    call' = [call EXCEPT ![c] = [@ EXCEPT !.pc = "answered", !.row = i, !.code = code]]

AnswerWith(c, i) == Answer(c, i, HttpStatus(rows[i].status))

GoOn(c, label) == call' = [call EXCEPT ![c].pc = label]

-------------------------------------------------------------------------------
(* request_audit                                                               *)

Begin(c) ==
    /\ call[c].pc = "idle"
    /\ GoOn(c, "lookup")
    /\ UNCHANGED <<rows, heard>>

(* find_valid_audit *)
FindValid(c) ==
    /\ call[c].pc = "lookup"
    /\ IF Valid # {}
       THEN LET found == Newest(Valid)
            IN  call' = [call EXCEPT ![c] = [@ EXCEPT !.pc = "reusing", !.row = found,
                                                      !.run = rows[found].run]]
       ELSE GoOn(c, "inserting")
    /\ UNCHANGED <<rows, heard>>

(* The reports of the audit to reuse are queried after it was found. *)
ReadSucceeded(c) ==
    /\ call[c].pc = "reusing"
    /\ call' = [call EXCEPT ![c] = [@ EXCEPT !.pc = "signalling",
                                             !.succeeded = rows[call[c].row].succeeded]]
    /\ UNCHANGED <<rows, heard>>

(* The signal is sent; the view answers by the status found at the lookup. *)
SignalReuse(c) ==
    /\ call[c].pc = "signalling"
    /\ Answer(c, call[c].row, 200)
    /\ Signal
    /\ UNCHANGED rows

(* One transaction creates the audit, its reports and, on commit, the run. *)
Insert(c) ==
    /\ call[c].pc = "inserting"
    /\ IF MayBePending(NoRow)
       THEN /\ Len(rows) < MaxRows
            /\ rows' = Append(rows, NewRow(1))
            /\ Answer(c, Len(rows) + 1, 201)
       ELSE GoOn(c, "race_in_flight") /\ UNCHANGED rows
    /\ UNCHANGED heard

(* _find_race_winner: three queries. *)
RaceInFlight(c) ==
    /\ call[c].pc = "race_in_flight"
    /\ IF InFlight # {} THEN AnswerWith(c, Newest(InFlight)) ELSE GoOn(c, "race_valid")
    /\ UNCHANGED <<rows, heard>>

RaceValid(c) ==
    /\ call[c].pc = "race_valid"
    /\ IF Valid # {} THEN AnswerWith(c, Newest(Valid)) ELSE GoOn(c, "race_newest")
    /\ UNCHANGED <<rows, heard>>

RaceNewest(c) ==
    /\ call[c].pc = "race_newest"
    /\ IF Ids # {} THEN AnswerWith(c, Newest(Ids)) ELSE Answer(c, NoRow, 500)
    /\ UNCHANGED <<rows, heard>>

-------------------------------------------------------------------------------
(* The rerun view: the audit is loaded, rerun_audit resets it in one transaction,  *)
(* and its row is read again for the answer.                                      *)

BeginRerun(c, i) ==
    /\ call[c].pc = "idle"
    /\ call' = [call EXCEPT ![c] = [@ EXCEPT !.pc = "resetting", !.row = i]]
    /\ UNCHANGED <<rows, heard>>

(* 409 while no row that is not running is found, or the constraint refuses. *)
Reset(c) ==
    /\ call[c].pc = "resetting"
    /\ LET i == call[c].row
       IN  IF rows[i].stored /\ rows[i].status # "running" /\ MayBePending(i)
           THEN rows' = [rows EXCEPT ![i] = NewRow(rows[i].run + 1)] /\ GoOn(c, "refreshing")
           ELSE Answer(c, i, 409) /\ UNCHANGED rows
    /\ UNCHANGED heard

(* 202, or DoesNotExist when the audit was deleted in between. *)
Refresh(c) ==
    /\ call[c].pc = "refreshing"
    /\ LET i == call[c].row IN Answer(c, i, IF rows[i].stored THEN 202 ELSE 500)
    /\ UNCHANGED <<rows, heard>>

-------------------------------------------------------------------------------
(* The run of an audit, time and the Django admin, as callers see them.        *)

Claim(i) ==
    /\ rows[i].status = "pending"
    /\ rows' = [rows EXCEPT ![i].status = "running"]
    /\ UNCHANGED <<call, heard>>

(* finish(): the outcome follows the succeeded sources. *)
Close(i, S) ==
    /\ rows[i].status = "running"
    /\ rows' = [rows EXCEPT ![i].succeeded = S,
                            ![i].status = IF S = Sources THEN "completed"
                                          ELSE IF S # {} THEN "partially_completed" ELSE "failed"]
    /\ Signal
    /\ UNCHANGED call

(* fail_stuck_audits *)
Sweep(i, S) ==
    /\ rows[i].status \in InFlightAuditStatuses
    /\ rows[i].status = "pending" => S = {}
    /\ rows' = [rows EXCEPT ![i].succeeded = S, ![i].status = "failed"]
    /\ Signal
    /\ UNCHANGED call

PassExpiry(i) ==
    /\ rows[i].unexpired /\ rows[i].status \notin InFlightAuditStatuses
    /\ rows' = [rows EXCEPT ![i].unexpired = FALSE]
    /\ UNCHANGED <<call, heard>>

(* expire_audits *)
Expire(i) ==
    /\ rows[i].status \in ReusableAuditStatuses /\ ~rows[i].unexpired
    /\ rows' = [rows EXCEPT ![i].status = "expired"]
    /\ UNCHANGED <<call, heard>>

(* The reports are deleted with their audit. *)
Delete(i) ==
    /\ rows' = [rows EXCEPT ![i].stored = FALSE, ![i].succeeded = {}]
    /\ UNCHANGED <<call, heard>>

-------------------------------------------------------------------------------
Init ==
    /\ rows = <<>>
    /\ call = [c \in Callers |->
                 [pc |-> "idle", row |-> NoRow, run |-> 0, succeeded |-> {}, code |-> 0]]
    /\ heard = [c \in Callers |-> FALSE]

CallerStep(c) ==
    \/ FindValid(c) \/ ReadSucceeded(c) \/ SignalReuse(c) \/ Insert(c)
    \/ RaceInFlight(c) \/ RaceValid(c) \/ RaceNewest(c) \/ Reset(c) \/ Refresh(c)

RunStep(i) == Claim(i) \/ \E S \in SUBSET Sources : Close(i, S)

Environment(i) ==
    \/ PassExpiry(i) \/ Expire(i) \/ Delete(i)
    \/ \E S \in SUBSET Sources : Sweep(i, S)

Next ==
    \/ \E c \in Callers : Begin(c) \/ CallerStep(c)
    \/ \E i \in Ids : RunStep(i) \/ Environment(i) \/ \E c \in Callers : BeginRerun(c, i)

Spec == Init /\ [][Next]_vars

(* A call that began goes on, and a run closes (RunEventuallyCloses of AuditRun). *)
FairSpec ==
    /\ Spec
    /\ \A c \in Callers : WF_vars(CallerStep(c))
    /\ WF_vars(\E i \in Ids : RunStep(i))

-------------------------------------------------------------------------------
(* Properties.                                                                 *)

(* Rows and calls have their types. *)
TypeOK ==
    /\ rows \in Seq(Row) /\ Len(rows) <= MaxRows
    /\ call \in [Callers -> Call]
    /\ heard \in [Callers -> BOOLEAN]

(* One pending or running audit of a domain and channel, through inserts that race
   each other and reruns of older audits. *)
OneInFlight == \A i, j \in InFlight : i = j

AllStored == \A i \in DOMAIN rows : rows[i].stored

(* A caller that lost the race is given an audit although the winner has failed,
   expired or been rerun in the meantime; only a deletion can leave it without. *)
AlwaysAnAudit ==
    \A c \in Callers : call[c].pc = "answered" /\ call[c].row = NoRow => ~AllStored

(* docs/concept.md, a reuse "sends report_ready immediately with the sources that
   succeeded": at least one, and those of the audit returned, unless the audit was
   rerun or deleted since it was found. *)
ReuseNamesTheRun ==
    \A c \in Callers : call[c].pc = "signalling" =>
        LET r == rows[call[c].row]
        IN  r.stored /\ r.run = call[c].run => call[c].succeeded = r.succeeded /\ r.succeeded # {}

(* Whatever a caller is answered, report_ready is sent for its domain after its call
   began: by the reuse, by the run it started or joined, by the rerun, or by the run
   for which its rerun was refused. *)
EveryRequestIsAnnounced ==
    \A c \in Callers : call[c].pc # "idle" ~> heard[c] \/ ~AllStored

(* "Concurrent first requests for one domain must not create two audits": none is
   created next to a valid one. *)
NoAuditBesideAValidOne == [][Len(rows') > Len(rows) => Valid = {}]_vars
===============================================================================

------------------------------ MODULE Maintenance -------------------------------
(***************************************************************************)
(* The jobs that go through the whole table of audits, next to requests,   *)
(* workers and deletions: sweep_stuck_audits, audit by audit, and          *)
(* migration 0003, one transaction that fails duplicates and adds the      *)
(* one-in-flight constraint.  The release that needs the constraint may be *)
(* at work before the migration is.                                        *)
(*                                                                         *)
(* The migration's updates are seen by others after its commit; until then *)
(* the rows it wrote are locked (PostgreSQL, READ COMMITTED).              *)
(***************************************************************************)
EXTENDS Naturals, SequencesExt, AuditTypes

CONSTANTS
    Domains,    \* pairs of domain and channel_idx
    MaxRuns     \* bound: runs, requested or rerun, of all the audits together

ASSUME MaintenanceConstants == MaxRuns \in Nat

VARIABLES
    audits,        \* the table, in the order of created_at
    sweep,         \* the audits a sweep has still to look at; empty between sweeps
    migration,     \* where the migration is, and the audits it goes by
    constrained    \* the constraint exists

vars == <<audits, sweep, migration, constrained>>

(* "over" stands for the four statuses out of flight: no job tells them apart.
   `aged` is modified_at < cutoff, `open` some report is unfinished, `run` is
   the run_id, `stored` is FALSE once the row is deleted. *)
Audit ==
    [domain : Domains, status : {"pending", "running", "over"}, aged : BOOLEAN,
     open : BOOLEAN, run : 1..MaxRuns, stored : BOOLEAN]

NewRunId == 1 + Max({0} \cup {audits[i].run : i \in DOMAIN audits})

Pending(d) ==
    [domain |-> d, status |-> "pending", aged |-> FALSE, open |-> TRUE, run |-> NewRunId,
     stored |-> TRUE]

(* The audit is out of flight; some report of it may still be open. *)
Stopped(audit, open) == [audit EXCEPT !.status = "over", !.aged = FALSE, !.open = open]

(* What is left of an audit is its run_id: the other fields do not matter any more. *)
Deleted(audit) ==
    [audit EXCEPT !.status = "pending", !.aged = FALSE, !.open = TRUE, !.stored = FALSE]

(* `found` is history: the runs in flight at the scan, 0 for an audit that was not. *)
Migration ==
    [pc : {"before", "scanned", "reports_failed", "audits_failed", "done", "rolled_back"},
     duplicates : SUBSET (1..MaxRuns), locked : SUBSET (1..MaxRuns),
     found : [1..MaxRuns -> 0..MaxRuns]]

IsInFlight(i) ==
    i \in DOMAIN audits /\ audits[i].stored /\ audits[i].status \in InFlightAuditStatuses

NoMigration(pc) ==
    [pc |-> pc, duplicates |-> {}, locked |-> {}, found |-> [i \in 1..MaxRuns |-> 0]]

InFlight == {i \in DOMAIN audits : IsInFlight(i)}
InFlightOf(d) == {i \in InFlight : audits[i].domain = d}
OneInFlightEach(S) == \A i, j \in S : audits[i].domain = audits[j].domain => i = j

-------------------------------------------------------------------------------
(* Slips: the definitions of the same name without the suffix after a plausible bug. *)
DuplicatesSlip ==             \* order_by("created_at"): the oldest is kept
    {i \in InFlight : \E j \in InFlightOf(audits[i].domain) : j < i}
DuplicatesRunningSlip ==      \* pending audits are not looked for
    {i \in InFlight : \E j \in InFlightOf(audits[i].domain) :
        i < j /\ audits[i].status = "running"}
FailStuckSlip(i, raises) ==   \* the signal is sent inside the transaction
    audits' = IF raises THEN audits ELSE [audits EXCEPT ![i] = Stopped(@, FALSE)]

-------------------------------------------------------------------------------
(* Requests, workers, the Django admin and time.                               *)

AuditUnlocked(i) == ~(migration.pc = "audits_failed" /\ i \in migration.duplicates)
ReportsUnlocked(i) == i \notin migration.locked

MayFly(d, i) == constrained => InFlightOf(d) \subseteq {i}

Request(d) ==
    /\ NewRunId <= MaxRuns /\ MayFly(d, 0)
    /\ audits' = Append(audits, Pending(d))
    /\ UNCHANGED <<sweep, migration, constrained>>

RerunAudit(i) ==
    /\ audits[i].stored /\ audits[i].status # "running" /\ NewRunId <= MaxRuns
    /\ MayFly(audits[i].domain, i) /\ AuditUnlocked(i) /\ ReportsUnlocked(i)
    /\ audits' = [audits EXCEPT ![i] = Pending(@.domain)]
    /\ UNCHANGED <<sweep, migration, constrained>>

ClaimAudit(i) ==
    /\ IsInFlight(i) /\ audits[i].status = "pending" /\ AuditUnlocked(i)
    /\ audits' = [audits EXCEPT ![i].status = "running", ![i].aged = FALSE]
    /\ UNCHANGED <<sweep, migration, constrained>>

FinishReports(i) ==
    /\ audits[i].stored /\ audits[i].status = "running" /\ audits[i].open /\ ReportsUnlocked(i)
    /\ audits' = [audits EXCEPT ![i].open = FALSE]
    /\ UNCHANGED <<sweep, migration, constrained>>

CloseAudit(i) ==
    /\ audits[i].stored /\ audits[i].status = "running" /\ ~audits[i].open /\ AuditUnlocked(i)
    /\ audits' = [audits EXCEPT ![i] = Stopped(@, FALSE)]
    /\ UNCHANGED <<sweep, migration, constrained>>

DeleteAudit(i) ==
    /\ audits[i].stored /\ AuditUnlocked(i) /\ ReportsUnlocked(i)
    /\ audits' = [audits EXCEPT ![i] = Deleted(@)]
    /\ UNCHANGED <<sweep, migration, constrained>>

(* What was written since a sweep began does not become older than its cutoff. *)
AgeAudit(i) ==
    /\ IsInFlight(i) /\ ~audits[i].aged /\ i \notin sweep
    /\ audits' = [audits EXCEPT ![i].aged = TRUE]
    /\ UNCHANGED <<sweep, migration, constrained>>

-------------------------------------------------------------------------------
(* fail_stuck_audits                                                           *)

IsStuck(i) == IsInFlight(i) /\ audits[i].aged

ScanStuck ==
    /\ sweep = {} /\ sweep' = {i \in DOMAIN audits : IsStuck(i)}
    /\ sweep' # {}
    /\ UNCHANGED <<audits, migration, constrained>>

(* The transaction fails the audit and its open reports; report_ready follows its commit. *)
FailStuck(i, raises) == audits' = [audits EXCEPT ![i] = Stopped(@, FALSE)]

(* The next audit of the list.  A receiver that raises ends the sweep, and so does
   an audit that was deleted since the scan. *)
SweepNext(i, raises) ==
    /\ i \in sweep /\ AuditUnlocked(i)
    /\ IF IsStuck(i)
       THEN /\ ReportsUnlocked(i) /\ FailStuck(i, raises)
            /\ sweep' = IF raises THEN {} ELSE sweep \ {i}
       ELSE UNCHANGED audits /\ sweep' = IF audits[i].stored THEN sweep \ {i} ELSE {}
    /\ UNCHANGED <<migration, constrained>>

-------------------------------------------------------------------------------
(* fail_duplicate_in_flight_audits, and AddConstraint in the same transaction. *)

(* All but the newest in flight of each domain. *)
Duplicates == {i \in InFlight : \E j \in InFlightOf(audits[i].domain) : i < j}

MigrationScans ==
    /\ migration.pc = "before"
    /\ migration' = [pc |-> "scanned", duplicates |-> Duplicates, locked |-> {},
                     found |-> [i \in 1..MaxRuns |-> IF IsInFlight(i) THEN audits[i].run ELSE 0]]
    /\ UNCHANGED <<audits, sweep, constrained>>

(* The open reports of the duplicates are failed, seen from the commit on. *)
MigrationFailsReports ==
    /\ migration.pc = "scanned"
    /\ LET open == {i \in migration.duplicates : audits[i].stored /\ audits[i].open}
       IN  migration' = [migration EXCEPT !.pc = "reports_failed", !.locked = open]
    /\ UNCHANGED <<audits, sweep, constrained>>

(* The duplicates are failed, whatever their status is by now. *)
MigrationFailsAudits ==
    /\ migration.pc = "reports_failed"
    /\ migration' = [migration EXCEPT !.pc = "audits_failed"]
    /\ UNCHANGED <<audits, sweep, constrained>>

(* The constraint finds no pair in flight and all is committed, or all is undone. *)
MigrationEnds ==
    /\ migration.pc = "audits_failed"
    /\ IF OneInFlightEach(InFlight \ migration.duplicates)
       THEN /\ audits' = [i \in DOMAIN audits |->
                            IF i \notin migration.duplicates THEN audits[i]
                            ELSE Stopped(audits[i], audits[i].open /\ i \notin migration.locked)]
            /\ constrained' = TRUE /\ migration' = NoMigration("done")
       ELSE /\ migration' = NoMigration("rolled_back")
            /\ UNCHANGED <<audits, constrained>>
    /\ UNCHANGED sweep

MigrationStep ==
    MigrationScans \/ MigrationFailsReports \/ MigrationFailsAudits \/ MigrationEnds

-------------------------------------------------------------------------------
Init ==
    /\ audits = <<>> /\ sweep = {} /\ constrained = FALSE
    /\ migration = NoMigration("before")

Traffic(i) ==
    RerunAudit(i) \/ ClaimAudit(i) \/ FinishReports(i) \/ CloseAudit(i) \/ DeleteAudit(i)

SweepStep == ScanStuck \/ \E i \in sweep, raises \in BOOLEAN : SweepNext(i, raises)

Next ==
    \/ \E d \in Domains : Request(d)
    \/ \E i \in DOMAIN audits : Traffic(i) \/ AgeAudit(i)
    \/ SweepStep \/ MigrationStep

(* The beat runs the sweeper, time passes, and a migration that began goes on. *)
Fairness ==
    /\ WF_vars(SweepStep)
    /\ \A i \in 1..MaxRuns : WF_vars(i \in DOMAIN audits /\ AgeAudit(i))
    /\ WF_vars(migration.pc # "before" /\ MigrationStep)

Spec == Init /\ [][Next]_vars /\ Fairness

-------------------------------------------------------------------------------
(* Properties.                                                                 *)

(* docs/concept.md: a lost run_audit "would otherwise block its domain and channel
   forever".  No audit does, although every sweep may be cut short by an audit that
   was deleted or a receiver that raises: what cut it short is not found again. *)
EveryAuditLeaves == \A i \in 1..MaxRuns : IsInFlight(i) ~> ~IsInFlight(i)

StillInTheRun(i) == audits[i].run = migration.found[i]

(* "Keep the newest pending/running audit per (domain, channel); fail the older ones
   and their open reports": of the runs it found, the migration stops none without
   a newer one of the domain, and leaves no report of it open.  (A run that a rerun
   started since the scan it stops as it comes.) *)
MigrationKeepsTheNewest ==
    [][migration'.pc = "done" /\ migration.pc # "done" =>
           \A i \in migration.duplicates : audits[i].stored /\ StillInTheRun(i) =>
               /\ ~audits'[i].open
               /\ \E j \in DOMAIN audits : /\ i < j /\ audits[i].domain = audits[j].domain
                                           /\ migration.found[j] # 0]_vars

(* Adding the constraint fails only if an audit was requested or rerun while the
   migration ran; else two in flight were left over by the clean-up. *)
MigrationFailsOnlyIfRaced ==
    [][migration'.pc = "rolled_back" /\ migration.pc # "rolled_back" =>
           \E i \in InFlight : ~StillInTheRun(i)]_vars
===============================================================================

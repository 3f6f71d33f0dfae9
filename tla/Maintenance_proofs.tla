-------------------------- MODULE Maintenance_proofs --------------------------
(* Theorems about migration 0003 next to requests, reruns, workers, sweeps and
   deletions, for any number of domains and audits. *)
EXTENDS Maintenance, TLAPS, WellFoundedInduction

-------------------------------------------------------------------------------
(* The invariant.                                                              *)

TypesOK ==
    /\ audits \in Seq(Audit)
    /\ migration \in Migration
    /\ constrained \in BOOLEAN

(* Every request took a run_id of its own. *)
RunsCountAudits ==
    Len(audits) # 0 => \E i \in DOMAIN audits : Len(audits) <= audits[i].run

(* The scan found audits in flight, in the run they were in or an earlier one. *)
FoundAudits ==
    \A i \in 1..MaxRuns : migration.found[i] # 0 =>
        i \in DOMAIN audits /\ migration.found[i] <= audits[i].run

NewerFound(i, j) ==
    /\ i < j /\ j \in DOMAIN audits /\ audits[i].domain = audits[j].domain
    /\ migration.found[j] # 0

(* The duplicates are the audits found that are not the newest found of their domain. *)
DuplicatesAreOlder ==
    /\ \A i \in migration.duplicates :
           i \in 1..MaxRuns /\ migration.found[i] # 0 /\ \E j \in 1..MaxRuns : NewerFound(i, j)
    /\ \A i, j \in 1..MaxRuns :
           migration.found[i] # 0 /\ NewerFound(i, j) => i \in migration.duplicates

(* What is open of a duplicate since its reports were failed is a rerun's. *)
OpenIsLocked ==
    migration.pc \in {"reports_failed", "audits_failed"} =>
        \A i \in migration.duplicates :
            audits[i].stored /\ StillInTheRun(i) /\ audits[i].open => i \in migration.locked

ConstraintHolds == constrained => OneInFlightEach(InFlight)

MInv ==
    /\ TypesOK /\ RunsCountAudits /\ FoundAudits /\ DuplicatesAreOlder /\ OpenIsLocked
    /\ ConstraintHolds


-------------------------------------------------------------------------------
(* uuid4(): a run_id that no run of any audit has.                             *)

NatLess == {pair \in Nat \X Nat : pair[1] < pair[2]}

LEMMA NatLessWellFounded == IsWellFoundedOn(NatLess, Nat)
  BY NatLessThanWellFounded DEF OpToRel, NatLess

LEMMA MaxExists ==
    ASSUME NEW n \in Nat, NEW S, S \subseteq 0..n, S # {}
    PROVE  Max(S) \in S /\ \A j \in S : j <= Max(S)
  <1> DEFINE T == {n - i : i \in S}
  <1>1. \A i \in S : i \in Int /\ i <= n /\ n - i \in Nat
    OBVIOUS
  <1>2. T \subseteq Nat /\ T # {}
    BY <1>1
  <1>3. PICK m \in T : \A y \in T : <<y, m>> \notin NatLess
    <2> HIDE DEF T
    <2> QED
      BY <1>2, NatLessWellFounded, WFMin
  <1>4. \A x, y \in Nat : x < y => <<x, y>> \in NatLess
    BY DEF NatLess
  <1>5. \A y \in T : ~(y < m)
    BY <1>2, <1>3, <1>4
  <1>6. PICK i \in S : m = n - i
    OBVIOUS
  <1>7. \A j \in S : ~(n - j < n - i)
    BY <1>5, <1>6
  <1>8. \A j \in S : i >= j
    BY <1>1, <1>7
  <1>9. Max(S) \in S /\ \A j \in S : Max(S) >= j
    BY <1>8 DEF Max
  <1> QED
    BY <1>1, <1>9

LEMMA RowTypes ==
    ASSUME TypesOK
    PROVE  /\ DOMAIN audits = 1..Len(audits) /\ Len(audits) \in Nat
           /\ \A i \in DOMAIN audits :
                  /\ audits[i] \in Audit /\ audits[i].run \in 1..MaxRuns
                  /\ audits[i].domain \in Domains
           /\ \A i \in InFlight : i \in DOMAIN audits
  <1>1. DOMAIN audits = 1..Len(audits) /\ Len(audits) \in Nat
    BY DEF TypesOK
  <1>2. \A i \in DOMAIN audits : audits[i] \in Audit
    BY DEF TypesOK
  <1>3. \A r \in Audit : r.run \in 1..MaxRuns /\ r.domain \in Domains
    BY DEF Audit
  <1> QED
    BY <1>1, <1>2, <1>3 DEF InFlight

LEMMA RunIdIsNew ==
    ASSUME TypesOK
    PROVE  /\ NewRunId \in Nat \ {0}
           /\ \A i \in DOMAIN audits : audits[i].run < NewRunId
  <1> DEFINE runs == {audits[i].run : i \in DOMAIN audits}
             S == {0} \cup runs
  <1>1. \A i \in DOMAIN audits : audits[i].run \in 0..MaxRuns
    BY RowTypes, MaintenanceConstants
  <1>2. S \subseteq 0..MaxRuns /\ S # {}
    BY <1>1, MaintenanceConstants
  <1>3. Max(S) \in S /\ \A j \in S : j <= Max(S)
    <2> HIDE DEF S
    <2> QED
      BY <1>2, MaxExists, MaintenanceConstants
  <1>4. Max(S) \in Nat /\ \A i \in DOMAIN audits : audits[i].run <= Max(S)
    BY <1>2, <1>3
  <1>5. NewRunId = 1 + Max(S)
    BY DEF NewRunId
  <1> HIDE DEF S
  <1> QED
    BY <1>1, <1>4, <1>5

(* There are no more audits than run_ids. *)
LEMMA AuditsAreFew ==
    ASSUME TypesOK, RunsCountAudits
    PROVE  Len(audits) <= MaxRuns /\ DOMAIN audits \subseteq 1..MaxRuns
  BY RowTypes, MaintenanceConstants DEF RunsCountAudits

-------------------------------------------------------------------------------
(* What a step does to the table.                                              *)

(* q is what became of row r: in the same run no report opens again and a row
   does not come back, nor does it take off. *)
Moved(r, q) ==
    /\ q.domain = r.domain /\ r.run <= q.run
    /\ q.stored => r.stored
    /\ q.run = r.run =>
        /\ q.stored /\ q.open => r.open
        /\ q.stored /\ q.status \in InFlightAuditStatuses => r.status \in InFlightAuditStatuses

TableMoves ==
    /\ audits' \in Seq(Audit) /\ Len(audits) <= Len(audits')
    /\ \A i \in DOMAIN audits : i \in DOMAIN audits' /\ Moved(audits[i], audits'[i])

LEMMA SameMoved ==
    ASSUME TypesOK, NEW i \in DOMAIN audits
    PROVE  Moved(audits[i], audits[i])
  BY RowTypes DEF Moved

LEMMA UnchangedTable ==
    ASSUME TypesOK, audits' = audits
    PROVE  TableMoves
  <1>1. Len(audits) \in Nat
    BY RowTypes
  <1> QED
    BY <1>1, SameMoved DEF TableMoves, TypesOK

LEMMA MovedRow ==
    ASSUME TypesOK, NEW i \in DOMAIN audits, NEW r \in Audit, audits' = [audits EXCEPT ![i] = r],
           Moved(audits[i], r)
    PROVE  TableMoves
  <1>1. audits \in Seq(Audit) /\ DOMAIN audits = 1..Len(audits) /\ Len(audits) \in Nat
    BY RowTypes DEF TypesOK
  <1>2. DOMAIN audits' = 1..Len(audits) /\ \A j \in 1..Len(audits) : audits'[j] \in Audit
    BY <1>1
  <1>3. audits' = [j \in 1..Len(audits) |-> audits'[j]]
    BY <1>1
  <1>4. audits' \in Seq(Audit) /\ Len(audits') = Len(audits)
    BY <1>1, <1>2, <1>3
  <1>5. \A j \in DOMAIN audits : Moved(audits[j], audits'[j])
    BY SameMoved
  <1> QED
    BY <1>1, <1>2, <1>4, <1>5 DEF TableMoves

LEMMA PendingRow ==
    ASSUME TypesOK, NewRunId <= MaxRuns, NEW d \in Domains
    PROVE  Pending(d) \in Audit
  <1>1. NewRunId \in 1..MaxRuns
    BY RunIdIsNew, MaintenanceConstants
  <1> QED
    BY <1>1 DEF Pending, Audit

LEMMA StoppedRow ==
    ASSUME NEW r \in Audit, NEW open \in BOOLEAN, open => r.open
    PROVE  Stopped(r, open) \in Audit /\ Moved(r, Stopped(r, open))
  <1>1. r.run \in Nat
    BY MaintenanceConstants DEF Audit
  <1>2. Stopped(r, open) \in Audit
    BY DEF Stopped, Audit
  <1>3. Moved(r, Stopped(r, open))
    BY <1>1 DEF Stopped, Audit, Moved, InFlightAuditStatuses
  <1> QED
    BY <1>2, <1>3

LEMMA RequestRows ==
    ASSUME TypesOK, NEW d \in Domains, Request(d)
    PROVE  TableMoves
  <1>1. Pending(d) \in Audit
    BY PendingRow DEF Request
  <1>2. audits \in Seq(Audit) /\ DOMAIN audits = 1..Len(audits) /\ Len(audits) \in Nat
    BY RowTypes DEF TypesOK
  <1>3. audits' \in Seq(Audit) /\ Len(audits') = Len(audits) + 1
    BY <1>1, <1>2 DEF Request
  <1>4. \A i \in DOMAIN audits : i \in DOMAIN audits' /\ audits'[i] = audits[i]
    BY <1>2 DEF Request
  <1> QED
    BY <1>2, <1>3, <1>4, SameMoved DEF TableMoves

LEMMA TrafficRows ==
    ASSUME TypesOK, NEW i \in DOMAIN audits, Traffic(i) \/ AgeAudit(i)
    PROVE  TableMoves
  <1>1. audits[i] \in Audit /\ audits[i].run \in Nat /\ audits[i].domain \in Domains
    BY RowTypes, MaintenanceConstants
  <1>2. CASE RerunAudit(i)
    <2>1. Pending(audits[i].domain) \in Audit
      BY <1>1, <1>2, PendingRow DEF RerunAudit
    <2>2. audits[i].run < NewRunId /\ NewRunId \in Nat
      BY RunIdIsNew
    <2>3. Moved(audits[i], Pending(audits[i].domain))
      BY <1>1, <1>2, <2>2 DEF RerunAudit, Moved, Pending
    <2> QED
      BY <1>2, <2>1, <2>3, MovedRow DEF RerunAudit
  <1>3. CASE ClaimAudit(i)
    <2> DEFINE r == [audits[i] EXCEPT !.status = "running", !.aged = FALSE]
    <2>1. r \in Audit /\ Moved(audits[i], r)
      BY <1>1, <1>3 DEF ClaimAudit, Audit, Moved, InFlightAuditStatuses
    <2>2. audits' = [audits EXCEPT ![i] = r]
      BY <1>3 DEF ClaimAudit, TypesOK
    <2> QED
      BY <2>1, <2>2, MovedRow
  <1>4. CASE FinishReports(i)
    <2> DEFINE r == [audits[i] EXCEPT !.open = FALSE]
    <2>1. r \in Audit /\ Moved(audits[i], r)
      <3>1. r \in Audit
        BY <1>1 DEF Audit
      <3>2. Moved(audits[i], r)
        BY <1>1 DEF Audit, Moved
      <3> QED
        BY <3>1, <3>2
    <2>2. audits' = [audits EXCEPT ![i] = r]
      BY <1>4 DEF FinishReports
    <2> QED
      BY <2>1, <2>2, MovedRow
  <1>5. CASE CloseAudit(i)
    BY <1>1, <1>5, StoppedRow, MovedRow DEF CloseAudit
  <1>6. CASE DeleteAudit(i)
    <2>1. Deleted(audits[i]) \in Audit
      BY <1>1 DEF Deleted, Audit
    <2>2. Moved(audits[i], Deleted(audits[i]))
      BY <1>1 DEF Deleted, Audit, Moved
    <2> QED
      BY <1>6, <2>1, <2>2, MovedRow DEF DeleteAudit
  <1>7. CASE AgeAudit(i)
    <2> DEFINE r == [audits[i] EXCEPT !.aged = TRUE]
    <2>1. r \in Audit /\ Moved(audits[i], r)
      <3>1. r \in Audit
        BY <1>1 DEF Audit
      <3>2. Moved(audits[i], r)
        BY <1>1 DEF Audit, Moved
      <3> QED
        BY <3>1, <3>2
    <2>2. audits' = [audits EXCEPT ![i] = r]
      BY <1>7 DEF AgeAudit
    <2> QED
      BY <2>1, <2>2, MovedRow
  <1> QED
    BY <1>2, <1>3, <1>4, <1>5, <1>6, <1>7 DEF Traffic

LEMMA SweepRows ==
    ASSUME TypesOK, SweepStep
    PROVE  TableMoves
  <1>1. CASE ScanStuck
    BY <1>1, UnchangedTable DEF ScanStuck
  <1>2. ASSUME NEW i \in sweep, NEW raises \in BOOLEAN, SweepNext(i, raises)
        PROVE  TableMoves
    <2>1. CASE ~IsStuck(i)
      BY <1>2, <2>1, UnchangedTable DEF SweepNext
    <2>2. CASE IsStuck(i)
      BY <1>2, <2>2, RowTypes, StoppedRow, MovedRow DEF SweepNext, FailStuck, IsStuck, IsInFlight
    <2> QED
      BY <2>1, <2>2
  <1> QED
    BY <1>1, <1>2 DEF SweepStep

LEMMA MigrationRows ==
    ASSUME TypesOK, MigrationStep
    PROVE  TableMoves
  <1>1. CASE audits' = audits
    BY <1>1, UnchangedTable
  <1>2. CASE audits' # audits
    <2> DEFINE open(i) == audits[i].open /\ i \notin migration.locked
               row(i) == IF i \notin migration.duplicates THEN audits[i]
                         ELSE Stopped(audits[i], open(i))
    <2>1. audits' = [i \in DOMAIN audits |-> row(i)]
      BY <1>2 DEF MigrationStep, MigrationScans, MigrationFailsReports, MigrationFailsAudits,
           MigrationEnds
    <2>2. \A i \in DOMAIN audits : row(i) \in Audit /\ Moved(audits[i], row(i))
      <3> TAKE i \in DOMAIN audits
      <3>1. audits[i] \in Audit /\ open(i) \in BOOLEAN /\ (open(i) => audits[i].open)
        BY RowTypes DEF Audit
      <3> HIDE DEF open
      <3> QED
        BY <3>1, SameMoved, StoppedRow
    <2> HIDE DEF row
    <2>3. DOMAIN audits = 1..Len(audits) /\ Len(audits) \in Nat
      BY RowTypes
    <2>4. audits' \in Seq(Audit) /\ Len(audits') = Len(audits)
      BY <2>1, <2>2, <2>3
    <2> QED
      BY <2>1, <2>2, <2>3, <2>4 DEF TableMoves
  <1> QED
    BY <1>1, <1>2

LEMMA StepRows ==
    ASSUME TypesOK, [Next]_vars
    PROVE  TableMoves
  BY RequestRows, TrafficRows, SweepRows, MigrationRows, UnchangedTable DEF Next, vars


LEMMA MigrationTypes ==
    ASSUME TypesOK, RunsCountAudits, [Next]_vars
    PROVE  migration' \in Migration /\ constrained' \in BOOLEAN
  <1>1. migration \in Migration /\ constrained \in BOOLEAN
    BY DEF TypesOK
  <1>2. InFlight \subseteq 1..MaxRuns
    BY RowTypes, AuditsAreFew
  <1>3. \A i \in InFlight : audits[i].run \in 0..MaxRuns
    BY RowTypes, MaintenanceConstants
  <1>4. CASE ~MigrationStep
    BY <1>1, <1>4 DEF Next, vars, Request, Traffic, AgeAudit, RerunAudit, ClaimAudit,
         FinishReports, CloseAudit, DeleteAudit, SweepStep, ScanStuck, SweepNext
  <1>5. CASE MigrationScans
    <2> DEFINE found == [i \in 1..MaxRuns |-> IF IsInFlight(i) THEN audits[i].run ELSE 0]
    <2>1. found \in [1..MaxRuns -> 0..MaxRuns]
      BY <1>3, MaintenanceConstants DEF InFlight, IsInFlight
    <2>2. Duplicates \in SUBSET (1..MaxRuns)
      BY <1>2 DEF Duplicates
    <2>3. migration' = [pc |-> "scanned", duplicates |-> Duplicates, locked |-> {}, found |-> found]
      BY <1>5 DEF MigrationScans
    <2> HIDE DEF found
    <2> QED
      BY <1>1, <1>5, <2>1, <2>2, <2>3 DEF MigrationScans, Migration
  <1>6. CASE MigrationFailsReports
    <2> DEFINE open == {i \in migration.duplicates : audits[i].stored /\ audits[i].open}
    <2>1. open \in SUBSET (1..MaxRuns)
      BY <1>1 DEF Migration
    <2>2. migration' = [migration EXCEPT !.pc = "reports_failed", !.locked = open]
      BY <1>6 DEF MigrationFailsReports
    <2> HIDE DEF open
    <2> QED
      BY <1>1, <1>6, <2>1, <2>2 DEF MigrationFailsReports, Migration
  <1>7. CASE MigrationFailsAudits
    BY <1>1, <1>7 DEF MigrationFailsAudits, Migration
  <1>8. CASE MigrationEnds
    <2>1. \A pc \in {"done", "rolled_back"} : NoMigration(pc) \in Migration
      BY MaintenanceConstants DEF NoMigration, Migration
    <2> QED
      BY <1>1, <1>8, <2>1 DEF MigrationEnds
  <1> QED
    BY <1>4, <1>5, <1>6, <1>7, <1>8 DEF MigrationStep

LEMMA TypesKept ==
    ASSUME TypesOK, RunsCountAudits, [Next]_vars
    PROVE  TypesOK'
  BY StepRows, MigrationTypes DEF TypesOK, TableMoves

(* Only a request adds an audit. *)
LEMMA Grows ==
    ASSUME TypesOK, [Next]_vars
    PROVE  Len(audits') = Len(audits) \/ \E d \in Domains : Request(d)
  <1>1. Len(audits) \in Nat /\ DOMAIN audits = 1..Len(audits)
    BY RowTypes
  <1>2. CASE DOMAIN audits' = DOMAIN audits
    <2>1. audits' \in Seq(Audit)
      BY StepRows DEF TableMoves
    <2>2. DOMAIN audits' = 1..Len(audits') /\ Len(audits') \in Nat
      BY <2>1
    <2>3. Len(audits) <= Len(audits')
      BY StepRows DEF TableMoves
    <2> QED
      BY <1>1, <1>2, <2>2, <2>3
  <1>3. DOMAIN audits' = DOMAIN audits \/ \E d \in Domains : Request(d)
    BY DEF Next, vars, Traffic, AgeAudit, RerunAudit, ClaimAudit, FinishReports, CloseAudit,
       DeleteAudit, SweepStep, ScanStuck, SweepNext, FailStuck, MigrationStep, MigrationScans,
       MigrationFailsReports, MigrationFailsAudits, MigrationEnds
  <1> QED
    BY <1>2, <1>3

LEMMA RunsCountKept ==
    ASSUME TypesOK, RunsCountAudits, [Next]_vars
    PROVE  RunsCountAudits'
  <1>1. TypesOK' /\ TableMoves /\ Len(audits) \in Nat /\ DOMAIN audits = 1..Len(audits)
    BY TypesKept, StepRows, RowTypes
  <1>2. \A i \in DOMAIN audits : audits[i].run \in Nat
    BY RowTypes, MaintenanceConstants
  <1>3. \A i \in DOMAIN audits : audits'[i].run \in Nat
    <2>1. \A i \in DOMAIN audits : audits'[i] \in Audit
      BY <1>1 DEF TableMoves
    <2> QED
      BY <2>1, MaintenanceConstants DEF Audit
  <1>4. CASE Len(audits') = Len(audits)
    BY <1>1, <1>2, <1>3, <1>4 DEF RunsCountAudits, TableMoves, Moved
  <1>5. ASSUME NEW d \in Domains, Request(d)
        PROVE  RunsCountAudits'
    <2>1. Len(audits') = Len(audits) + 1 /\ audits'[Len(audits) + 1] = Pending(d)
      BY <1>5 DEF Request, TypesOK
    <2>2. audits'[Len(audits) + 1].run = NewRunId /\ Len(audits) + 1 \in DOMAIN audits'
      BY <1>1, <2>1 DEF Pending, TypesOK
    <2>3. Len(audits) + 1 <= NewRunId
      <3>1. CASE Len(audits) = 0
        BY <3>1, RunIdIsNew
      <3>2. CASE Len(audits) # 0
        <4>1. PICK i \in DOMAIN audits : Len(audits) <= audits[i].run
          BY <3>2 DEF RunsCountAudits
        <4>2. audits[i].run < NewRunId /\ NewRunId \in Nat
          BY RunIdIsNew
        <4> QED
          BY <1>1, <1>2, <4>1, <4>2
      <3> QED
        BY <3>1, <3>2
    <2> QED
      BY <2>1, <2>2, <2>3 DEF RunsCountAudits
  <1> QED
    BY <1>4, <1>5, Grows

-------------------------------------------------------------------------------
(* What the migration found stays what it was.                                 *)

FoundInv == FoundAudits /\ DuplicatesAreOlder /\ OpenIsLocked

LEMMA FoundKeptByOthers ==
    ASSUME MInv, [Next]_vars, migration' = migration
    PROVE  FoundInv'
  <1>1. TypesOK /\ TypesOK' /\ TableMoves /\ FoundAudits /\ DuplicatesAreOlder /\ OpenIsLocked
    BY TypesKept, StepRows DEF MInv
  <1>2. migration.found \in [1..MaxRuns -> 0..MaxRuns]
    BY <1>1 DEF TypesOK, Migration
  <1>3. \A i \in DOMAIN audits :
            /\ audits[i].run \in Nat /\ audits'[i].run \in Nat /\ i \in DOMAIN audits'
            /\ Moved(audits[i], audits'[i])
    <2>1. \A i \in DOMAIN audits : audits'[i] \in Audit
      BY <1>1 DEF TableMoves
    <2>2. \A i \in DOMAIN audits : audits'[i].run \in Nat
      BY <2>1, MaintenanceConstants DEF Audit
    <2> QED
      BY <1>1, <2>2, RowTypes, MaintenanceConstants DEF TableMoves
  <1>4. \A i \in 1..MaxRuns : migration.found[i] \in Nat
    BY <1>2, MaintenanceConstants
  <1>5. FoundAudits'
    BY <1>1, <1>3, <1>4 DEF FoundAudits, Moved
  <1>6. \A i, j \in 1..MaxRuns : migration.found[i] # 0 => (NewerFound(i, j) <=> NewerFound(i, j)')
    <2> TAKE i, j \in 1..MaxRuns
    <2>1. CASE migration.found[i] # 0 /\ migration.found[j] # 0
      <3>1. i \in DOMAIN audits /\ j \in DOMAIN audits
        BY <1>1, <2>1 DEF FoundAudits
      <3> QED
        BY <1>3, <3>1 DEF NewerFound, Moved
    <2>2. CASE migration.found[j] = 0
      BY <2>2 DEF NewerFound
    <2> QED
      BY <2>1, <2>2
  <1>7. DuplicatesAreOlder'
    BY <1>1, <1>6 DEF DuplicatesAreOlder
  <1>8. OpenIsLocked'
    <2> SUFFICES ASSUME migration.pc \in {"reports_failed", "audits_failed"},
                        NEW i \in migration.duplicates,
                        audits'[i].stored, StillInTheRun(i)', audits'[i].open
                 PROVE  i \in migration.locked
      BY DEF OpenIsLocked
    <2>1. i \in 1..MaxRuns /\ migration.found[i] # 0
      BY <1>1 DEF DuplicatesAreOlder
    <2>2. i \in DOMAIN audits /\ migration.found[i] <= audits[i].run
      BY <1>1, <2>1 DEF FoundAudits
    <2>3. audits'[i].run = audits[i].run /\ StillInTheRun(i)
      BY <1>3, <1>4, <2>1, <2>2 DEF Moved, StillInTheRun
    <2>4. audits[i].stored /\ audits[i].open
      BY <1>3, <2>2, <2>3 DEF Moved
    <2> QED
      BY <1>1, <2>3, <2>4 DEF OpenIsLocked
  <1> QED
    BY <1>5, <1>7, <1>8 DEF FoundInv

LEMMA FoundAtScan ==
    ASSUME MInv, MigrationScans
    PROVE  FoundInv'
  <1>1. TypesOK /\ audits' = audits /\ DOMAIN audits \subseteq 1..MaxRuns
    BY AuditsAreFew DEF MInv, MigrationScans
  <1>2. \A i \in DOMAIN audits : audits[i].run \in Nat /\ audits[i].run # 0
    BY <1>1, RowTypes
  <1>3. migration'.pc = "scanned" /\ migration'.duplicates = Duplicates
    BY DEF MigrationScans
  <1>4. \A i \in 1..MaxRuns : migration'.found[i] = IF IsInFlight(i) THEN audits[i].run ELSE 0
    BY DEF MigrationScans
  <1>5. \A i \in 1..MaxRuns : migration'.found[i] # 0 <=> i \in InFlight
    BY <1>1, <1>2, <1>4 DEF InFlight, IsInFlight
  <1>6. InFlight \subseteq DOMAIN audits
    BY DEF InFlight
  <1>7. FoundAudits'
    BY <1>1, <1>2, <1>4, <1>5, <1>6 DEF FoundAudits, InFlight
  <1>8. \A i, j \in 1..MaxRuns :
            NewerFound(i, j)' <=> i < j /\ audits[i].domain = audits[j].domain /\ j \in InFlight
    BY <1>1, <1>5, <1>6 DEF NewerFound
  <1>9. \A i \in InFlight : i \in Duplicates <=> \E j \in 1..MaxRuns : NewerFound(i, j)'
    BY <1>1, <1>6, <1>8 DEF Duplicates, InFlightOf
  <1>10. Duplicates \subseteq InFlight
    BY DEF Duplicates
  <1>11. DuplicatesAreOlder'
    <2>1. \A i \in Duplicates : i \in 1..MaxRuns /\ migration'.found[i] # 0
      BY <1>1, <1>5, <1>6, <1>10
    <2>2. \A i \in Duplicates : \E j \in 1..MaxRuns : NewerFound(i, j)'
      BY <1>9, <1>10
    <2>3. \A i, j \in 1..MaxRuns : migration'.found[i] # 0 /\ NewerFound(i, j)' => i \in Duplicates
      BY <1>5, <1>9
    <2> QED
      BY <1>3, <2>1, <2>2, <2>3 DEF DuplicatesAreOlder
  <1>12. OpenIsLocked'
    BY <1>3 DEF OpenIsLocked
  <1> QED
    BY <1>7, <1>11, <1>12 DEF FoundInv

LEMMA FoundKeptByMigration ==
    ASSUME MInv, MigrationStep
    PROVE  FoundInv'
  <1>1. TypesOK /\ FoundAudits /\ DuplicatesAreOlder /\ OpenIsLocked
    BY DEF MInv
  <1>2. CASE MigrationScans
    BY <1>2, FoundAtScan
  <1>3. CASE MigrationFailsReports
    <2>1. /\ migration'.duplicates = migration.duplicates /\ migration'.found = migration.found
          /\ audits' = audits
          /\ migration'.locked =
                 {i \in migration.duplicates : audits[i].stored /\ audits[i].open}
      BY <1>1, <1>3 DEF MigrationFailsReports, TypesOK, Migration
    <2>2. FoundAudits' /\ DuplicatesAreOlder'
      BY <1>1, <2>1 DEF FoundAudits, DuplicatesAreOlder, NewerFound
    <2>3. OpenIsLocked'
      BY <2>1 DEF OpenIsLocked
    <2> QED
      BY <2>2, <2>3 DEF FoundInv
  <1>4. CASE MigrationFailsAudits
    <2>1. /\ migration'.duplicates = migration.duplicates /\ migration'.found = migration.found
          /\ migration'.locked = migration.locked /\ audits' = audits
          /\ migration.pc = "reports_failed"
      BY <1>1, <1>4 DEF MigrationFailsAudits, TypesOK, Migration
    <2>2. FoundAudits' /\ DuplicatesAreOlder'
      BY <1>1, <2>1 DEF FoundAudits, DuplicatesAreOlder, NewerFound
    <2>3. OpenIsLocked'
      BY <1>1, <2>1 DEF OpenIsLocked, StillInTheRun
    <2> QED
      BY <2>2, <2>3 DEF FoundInv
  <1>5. CASE MigrationEnds
    <2>1. /\ migration'.duplicates = {} /\ \A i \in 1..MaxRuns : migration'.found[i] = 0
          /\ migration'.pc \in {"done", "rolled_back"}
      <3>1. PICK pc \in {"done", "rolled_back"} : migration' = NoMigration(pc)
        BY <1>5 DEF MigrationEnds
      <3> QED
        BY <3>1 DEF NoMigration
    <2> QED
      BY <2>1 DEF FoundInv, FoundAudits, DuplicatesAreOlder, OpenIsLocked
  <1> QED
    BY <1>2, <1>3, <1>4, <1>5 DEF MigrationStep

LEMMA FoundKept ==
    ASSUME MInv, [Next]_vars
    PROVE  FoundInv'
  <1>1. migration' = migration \/ MigrationStep
    BY DEF Next, vars, Request, Traffic, AgeAudit, RerunAudit, ClaimAudit, FinishReports,
       CloseAudit, DeleteAudit, SweepStep, ScanStuck, SweepNext
  <1> QED
    BY <1>1, FoundKeptByOthers, FoundKeptByMigration


-------------------------------------------------------------------------------
(* The constraint.                                                             *)

(* A step that neither requests nor reruns lets no audit take off. *)
LEMMA NoneTakesOff ==
    ASSUME TypesOK, [Next]_vars, ~\E d \in Domains : Request(d),
           ~\E i \in DOMAIN audits : RerunAudit(i)
    PROVE  InFlight' \subseteq InFlight
  <1>1. \A i \in DOMAIN audits : audits[i] \in Audit
    BY RowTypes
  <1>2. CASE audits' = audits
    BY <1>2 DEF InFlight, IsInFlight
  <1>3. ASSUME NEW i \in DOMAIN audits, NEW r,
               audits' = [audits EXCEPT ![i] = r],
               r.stored /\ r.status \in InFlightAuditStatuses => IsInFlight(i)
        PROVE  InFlight' \subseteq InFlight
    BY <1>3 DEF InFlight, IsInFlight
  <1>4. \A i \in DOMAIN audits, open \in BOOLEAN :
            ~(Stopped(audits[i], open).status \in InFlightAuditStatuses)
    BY <1>1 DEF Stopped, Audit, InFlightAuditStatuses
  <1>5. ASSUME NEW i \in DOMAIN audits, Traffic(i) \/ AgeAudit(i)
        PROVE  InFlight' \subseteq InFlight
    <2>1. audits[i] \in Audit
      BY <1>1
    <2>2. CASE ClaimAudit(i)
      <3> DEFINE r == [audits[i] EXCEPT !.status = "running", !.aged = FALSE]
      <3>1. audits' = [audits EXCEPT ![i] = r]
        BY <2>2 DEF ClaimAudit, TypesOK
      <3> QED
        BY <1>3, <2>2, <3>1 DEF ClaimAudit
    <2>3. CASE FinishReports(i)
      <3> DEFINE r == [audits[i] EXCEPT !.open = FALSE]
      <3>1. audits' = [audits EXCEPT ![i] = r]
        BY <2>3 DEF FinishReports
      <3>2. r.stored = audits[i].stored /\ r.status = audits[i].status
        BY <2>1 DEF Audit
      <3> QED
        BY <1>3, <3>1, <3>2 DEF IsInFlight
    <2>4. CASE CloseAudit(i)
      BY <1>3, <1>4, <2>4 DEF CloseAudit
    <2>5. CASE DeleteAudit(i)
      <3>1. Deleted(audits[i]).stored = FALSE
        BY <2>1 DEF Deleted, Audit
      <3> QED
        BY <1>3, <2>5, <3>1 DEF DeleteAudit
    <2>6. CASE AgeAudit(i)
      <3> DEFINE r == [audits[i] EXCEPT !.aged = TRUE]
      <3>1. audits' = [audits EXCEPT ![i] = r]
        BY <2>6 DEF AgeAudit
      <3> QED
        BY <1>3, <2>6, <3>1 DEF AgeAudit
    <2> QED
      BY <1>5, <2>2, <2>3, <2>4, <2>5, <2>6 DEF Traffic
  <1>6. ASSUME SweepStep
        PROVE  InFlight' \subseteq InFlight
    <2>1. audits' = audits \/ \E i \in DOMAIN audits : audits' = [audits EXCEPT ![i] = Stopped(@, FALSE)]
      BY <1>6 DEF SweepStep, ScanStuck, SweepNext, IsStuck, IsInFlight, FailStuck
    <2> QED
      BY <1>2, <1>3, <1>4, <2>1
  <1>7. ASSUME MigrationStep
        PROVE  InFlight' \subseteq InFlight
    <2> DEFINE open(i) == audits[i].open /\ i \notin migration.locked
    <2>1. \A i \in DOMAIN audits : open(i) \in BOOLEAN
      BY <1>1 DEF Audit
    <2>2. \/ audits' = audits
          \/ audits' = [i \in DOMAIN audits |->
                           IF i \notin migration.duplicates THEN audits[i]
                           ELSE Stopped(audits[i], open(i))]
      BY <1>7 DEF MigrationStep, MigrationScans, MigrationFailsReports, MigrationFailsAudits,
           MigrationEnds
    <2> HIDE DEF open
    <2> QED
      BY <1>2, <1>4, <2>1, <2>2 DEF InFlight, IsInFlight
  <1> QED
    BY <1>2, <1>5, <1>6, <1>7 DEF Next, vars

LEMMA ConstraintKept ==
    ASSUME MInv, [Next]_vars
    PROVE  ConstraintHolds'
  <1>1. TypesOK /\ ConstraintHolds /\ TableMoves
    BY StepRows DEF MInv
  <1>2. DOMAIN audits = 1..Len(audits) /\ Len(audits) \in Nat /\ InFlight \subseteq DOMAIN audits
    BY <1>1, RowTypes
  <1>3. \A i \in DOMAIN audits : audits'[i].domain = audits[i].domain
    BY <1>1 DEF TableMoves, Moved
  <1>4. ASSUME NEW d \in Domains, Request(d), constrained
        PROVE  OneInFlightEach(InFlight)'
    <2>1. \A i \in InFlight : audits[i].domain # d
      BY <1>2, <1>4 DEF Request, MayFly, InFlightOf
    <2>2. /\ Len(audits') = Len(audits) + 1
          /\ \A i \in DOMAIN audits : audits'[i] = audits[i]
          /\ audits'[Len(audits) + 1].domain = d
      BY <1>1, <1>4 DEF Request, TypesOK, Pending
    <2>3. DOMAIN audits' = 1..(Len(audits) + 1)
      BY <1>1, <2>2 DEF TableMoves
    <2>4. \A i \in InFlight' : i \in InFlight \/ i = Len(audits) + 1
      BY <1>2, <2>2, <2>3 DEF InFlight, IsInFlight
    <2> QED
      BY <1>1, <1>2, <1>4, <2>1, <2>2, <2>4 DEF ConstraintHolds, OneInFlightEach
  <1>5. ASSUME NEW i \in DOMAIN audits, RerunAudit(i), constrained
        PROVE  OneInFlightEach(InFlight)'
    <2>1. \A j \in InFlight : audits[j].domain = audits[i].domain => j = i
      BY <1>5 DEF RerunAudit, MayFly, InFlightOf
    <2>2. \A j \in InFlight' : j \in InFlight \/ j = i
      BY <1>5 DEF RerunAudit, InFlight, IsInFlight
    <2> QED
      BY <1>1, <1>2, <1>3, <1>5, <2>1, <2>2 DEF ConstraintHolds, OneInFlightEach
  <1>6. CASE constrained /\ (~\E d \in Domains : Request(d)) /\ ~\E i \in DOMAIN audits : RerunAudit(i)
    <2>1. InFlight' \subseteq InFlight
      BY <1>1, <1>6, NoneTakesOff
    <2> QED
      BY <1>1, <1>2, <1>3, <1>6, <2>1 DEF ConstraintHolds, OneInFlightEach
  <1>7. CASE ~constrained /\ constrained'
    <2>1. MigrationEnds /\ migration.pc = "audits_failed"
      BY <1>7 DEF Next, vars, Request, Traffic, AgeAudit, RerunAudit, ClaimAudit, FinishReports,
         CloseAudit, DeleteAudit, SweepStep, ScanStuck, SweepNext, MigrationStep, MigrationScans,
         MigrationFailsReports, MigrationFailsAudits, MigrationEnds
    <2>2. /\ OneInFlightEach(InFlight \ migration.duplicates)
          /\ audits' = [i \in DOMAIN audits |->
                            IF i \notin migration.duplicates THEN audits[i]
                            ELSE Stopped(audits[i], audits[i].open /\ i \notin migration.locked)]
      BY <1>7, <2>1 DEF MigrationEnds
    <2>3. \A i \in DOMAIN audits : \A open : Stopped(audits[i], open).status \notin InFlightAuditStatuses
      <3>1. \A i \in DOMAIN audits : audits[i] \in Audit
        BY <1>1, RowTypes
      <3> QED
        BY <3>1 DEF Stopped, Audit, InFlightAuditStatuses
    <2>4. InFlight' \subseteq InFlight \ migration.duplicates
      BY <2>2, <2>3 DEF InFlight, IsInFlight
    <2> QED
      BY <1>2, <1>3, <2>2, <2>4 DEF ConstraintHolds, OneInFlightEach
  <1> QED
    BY <1>1, <1>4, <1>5, <1>6, <1>7 DEF ConstraintHolds, TypesOK

-------------------------------------------------------------------------------
(* The theorems.                                                               *)

LEMMA MaintenanceInit == Init => MInv
  <1> SUFFICES ASSUME Init
               PROVE  MInv
    OBVIOUS
  <1>1. audits \in Seq(Audit) /\ DOMAIN audits = {} /\ Len(audits) = 0
    BY DEF Init
  <1>2. NoMigration("before") \in Migration
    BY MaintenanceConstants DEF NoMigration, Migration
  <1>3. /\ migration.duplicates = {} /\ migration.pc = "before"
        /\ \A i \in 1..MaxRuns : migration.found[i] = 0
    BY DEF Init, NoMigration
  <1>4. TypesOK
    BY <1>1, <1>2 DEF Init, TypesOK
  <1>5. RunsCountAudits /\ ConstraintHolds
    BY <1>1 DEF Init, RunsCountAudits, ConstraintHolds
  <1>6. FoundInv
    BY <1>3 DEF FoundInv, FoundAudits, DuplicatesAreOlder, OpenIsLocked
  <1> QED
    BY <1>4, <1>5, <1>6 DEF MInv, FoundInv

(* Only its last step ends the migration. *)
LEMMA OnlyTheEndEnds ==
    ASSUME TypesOK, [Next]_vars, migration'.pc \in {"done", "rolled_back"},
           migration.pc # migration'.pc
    PROVE  MigrationEnds /\ migration.pc = "audits_failed"
  <1>1. migration' = migration \/ MigrationStep
    BY DEF Next, vars, Request, Traffic, AgeAudit, RerunAudit, ClaimAudit, FinishReports,
       CloseAudit, DeleteAudit, SweepStep, ScanStuck, SweepNext
  <1>2. MigrationScans => migration'.pc = "scanned"
    BY DEF MigrationScans
  <1>3. MigrationFailsReports => migration'.pc = "reports_failed"
    BY DEF MigrationFailsReports, TypesOK, Migration
  <1>4. MigrationFailsAudits => migration'.pc = "audits_failed"
    BY DEF MigrationFailsAudits, TypesOK, Migration
  <1>5. MigrationEnds
    BY <1>1, <1>2, <1>3, <1>4 DEF MigrationStep
  <1> QED
    BY <1>5 DEF MigrationEnds

(* The invariant is inductive: types, run_ids, what the scan of the migration found
   and has become of it, and the constraint. *)
THEOREM MaintenanceInvariance == Spec => []MInv
  <1>1. MInv /\ [Next]_vars => MInv'
    <2> SUFFICES ASSUME MInv, [Next]_vars
                 PROVE  MInv'
      OBVIOUS
    <2>1. TypesOK' /\ RunsCountAudits'
      BY TypesKept, RunsCountKept DEF MInv
    <2> QED
      BY <2>1, FoundKept, ConstraintKept DEF MInv, FoundInv
  <1> QED
    BY <1>1, MaintenanceInit, PTL DEF Spec

(* Once migration 0003 is through, at most one audit of a domain and channel is in
   flight, whatever requests, reruns and the sweeper do. *)
THEOREM ConstraintCorrect == Spec => []ConstraintHolds
  <1>1. MInv => ConstraintHolds
    BY DEF MInv
  <1> QED
    BY <1>1, MaintenanceInvariance, PTL

(* fail_duplicate_in_flight_audits stops no run it found without a newer audit of the
   domain, and leaves none of its reports open, although workers, reruns and deletions
   go on while it runs. *)
THEOREM MigrationCorrect == Spec => MigrationKeepsTheNewest
  <1>1. MInv /\ [Next]_vars =>
            [migration'.pc = "done" /\ migration.pc # "done" =>
                \A i \in migration.duplicates : audits[i].stored /\ StillInTheRun(i) =>
                    /\ ~audits'[i].open
                    /\ \E j \in DOMAIN audits : /\ i < j /\ audits[i].domain = audits[j].domain
                                                /\ migration.found[j] # 0]_vars
    <2> SUFFICES ASSUME MInv, [Next]_vars, migration'.pc = "done", migration.pc # "done",
                        NEW i \in migration.duplicates, audits[i].stored, StillInTheRun(i)
                 PROVE  /\ ~audits'[i].open
                        /\ \E j \in DOMAIN audits : NewerFound(i, j)
      BY DEF NewerFound
    <2>1. TypesOK /\ FoundAudits /\ DuplicatesAreOlder /\ OpenIsLocked
      BY DEF MInv
    <2>2. MigrationEnds /\ migration.pc = "audits_failed"
      BY <2>1, OnlyTheEndEnds
    <2>3. i \in 1..MaxRuns /\ migration.found[i] # 0 /\ \E j \in 1..MaxRuns : NewerFound(i, j)
      BY <2>1 DEF DuplicatesAreOlder
    <2>4. i \in DOMAIN audits /\ audits[i] \in Audit
      BY <2>1, <2>3, RowTypes DEF FoundAudits
    <2>5. audits' = [k \in DOMAIN audits |->
                         IF k \notin migration.duplicates THEN audits[k]
                         ELSE Stopped(audits[k], audits[k].open /\ k \notin migration.locked)]
      <3>1. NoMigration("rolled_back").pc # "done"
        BY DEF NoMigration
      <3> QED
        BY <2>2, <3>1 DEF MigrationEnds
    <2>6. ~(audits[i].open /\ i \notin migration.locked)
      BY <2>1, <2>2 DEF OpenIsLocked
    <2>7. Stopped(audits[i], FALSE).open = FALSE
      BY <2>4 DEF Stopped, Audit
    <2>8. audits'[i] = Stopped(audits[i], FALSE)
      BY <2>4, <2>5, <2>6
    <2> QED
      BY <2>3, <2>7, <2>8 DEF NewerFound
  <1> QED
    BY <1>1, MaintenanceInvariance, PTL DEF Spec, MigrationKeepsTheNewest

(* AddConstraint fails after the clean-up only if an audit was requested or rerun since
   the scan: two in flight that were found leave one of them a duplicate. *)
THEOREM MigrationRaces == Spec => MigrationFailsOnlyIfRaced
  <1>1. MInv /\ [Next]_vars =>
            [migration'.pc = "rolled_back" /\ migration.pc # "rolled_back" =>
                 \E i \in InFlight : ~StillInTheRun(i)]_vars
    <2> SUFFICES ASSUME MInv, [Next]_vars, migration'.pc = "rolled_back",
                        migration.pc # "rolled_back", \A i \in InFlight : StillInTheRun(i)
                 PROVE  FALSE
      OBVIOUS
    <2>1. TypesOK /\ DuplicatesAreOlder /\ InFlight \subseteq 1..MaxRuns
      BY AuditsAreFew, RowTypes DEF MInv
    <2>2. ~OneInFlightEach(InFlight \ migration.duplicates)
      <3>1. MigrationEnds
        BY <2>1, OnlyTheEndEnds
      <3>2. NoMigration("done").pc # "rolled_back"
        BY DEF NoMigration
      <3> QED
        BY <3>1, <3>2 DEF MigrationEnds
    <2>3. PICK i, j \in InFlight \ migration.duplicates :
              audits[i].domain = audits[j].domain /\ i # j
      BY <2>2 DEF OneInFlightEach
    <2>4. \A k \in InFlight : k \in DOMAIN audits /\ audits[k].run # 0
      <3>1. \A k \in DOMAIN audits : audits[k].run \in 1..MaxRuns
        BY <2>1, RowTypes
      <3>2. InFlight \subseteq DOMAIN audits
        BY <2>1, RowTypes
      <3> QED
        BY <3>1, <3>2
    <2>5. \A k \in InFlight : migration.found[k] # 0
      BY <2>4 DEF StillInTheRun
    <2>6. NewerFound(i, j) \/ NewerFound(j, i)
      <3>1. i \in DOMAIN audits /\ j \in DOMAIN audits /\ migration.found[i] # 0 /\ migration.found[j] # 0
        BY <2>4, <2>5
      <3>2. i \in 1..MaxRuns /\ j \in 1..MaxRuns /\ i # j
        BY <2>1, <2>3
      <3>3. i < j \/ j < i
        BY <3>2, MaintenanceConstants
      <3> QED
        BY <2>3, <3>1, <3>3 DEF NewerFound
    <2> QED
      BY <2>1, <2>3, <2>5, <2>6 DEF DuplicatesAreOlder
  <1> QED
    BY <1>1, MaintenanceInvariance, PTL DEF Spec, MigrationFailsOnlyIfRaced
===============================================================================

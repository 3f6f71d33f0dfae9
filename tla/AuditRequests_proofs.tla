------------------------- MODULE AuditRequests_proofs -------------------------
(* Theorems about concurrent requests and reruns of one domain, for any number of
   callers, audits and sources. *)
EXTENDS AuditRequests, TLAPS, WellFoundedInduction

-------------------------------------------------------------------------------
(* order_by("-created_at").first()                                             *)

NatLess == {pair \in Nat \X Nat : pair[1] < pair[2]}

LEMMA NatLessWellFounded == IsWellFoundedOn(NatLess, Nat)
  BY NatLessThanWellFounded DEF OpToRel, NatLess

(* A set of rows that is not empty has a newest one: the least distance from the end. *)
LEMMA NewestExists ==
    ASSUME NEW n \in Nat, NEW S, S \subseteq 1..n, S # {}
    PROVE  \E i \in S : \A j \in S : j <= i
  <1> DEFINE T == {n - i : i \in S}
  <1>1. \A i \in S : i \in Int /\ i <= n /\ n - i \in Nat
    OBVIOUS
  <1>2. T \subseteq Nat /\ T # {}
    BY <1>1
  <1>3. PICK m \in T : \A y \in T : <<y, m>> \notin NatLess
    <2> HIDE DEF T
    <2> QED
      BY <1>2, NatLessWellFounded, WFMin
  <1>4. \A x, y \in Nat : x < y => <<x, y>> \in NatLess
    BY DEF NatLess
  <1>5. \A y \in T : ~(y < m)
    BY <1>2, <1>3, <1>4
  <1>6. PICK i \in S : m = n - i
    OBVIOUS
  <1>7. \A j \in S : ~(n - j < n - i)
    BY <1>5, <1>6
  <1> QED
    BY <1>1, <1>7

LEMMA NewestOfSet ==
    ASSUME NEW S, NEW n \in Nat, S \subseteq 1..n, S # {}
    PROVE  Newest(S) \in S
  BY NewestExists DEF Newest

-------------------------------------------------------------------------------
(* The invariant.                                                              *)

(* A caller at work on an audit knows a row of the table. *)
NamesARow(c) ==
    /\ call[c].row <= Len(rows)
    /\ call[c].pc \in {"reusing", "signalling", "resetting", "refreshing"} => call[c].row # NoRow

(* Whoever lost the race has seen a row. *)
SawARow(c) ==
    call[c].pc \in {"race_in_flight", "race_valid", "race_newest"} => rows # <<>>

HasAnAudit(c) == call[c].pc = "answered" /\ call[c].row = NoRow => ~AllStored

Succeeding == ReusableAuditStatuses \cup {"expired"}

(* The run a caller found is over with success, unless a newer one took its row;
   what the caller then read of the run is what the row says. *)
FoundRunIsOver(c) ==
    call[c].pc \in {"reusing", "signalling"} =>
        LET r == rows[call[c].row]
        IN  /\ call[c].run <= r.run
            /\ r.stored /\ r.run = call[c].run =>
                   /\ r.status \in Succeeding
                   /\ call[c].pc = "signalling" => call[c].succeeded = r.succeeded

CallOK(c) == NamesARow(c) /\ SawARow(c) /\ HasAnAudit(c) /\ FoundRunIsOver(c)

(* An audit that succeeded has a succeeded source. *)
SuccessHasSources ==
    \A i \in Ids : rows[i].status \in Succeeding => rows[i].succeeded # {}

RInv == TypeOK /\ OneInFlight /\ SuccessHasSources /\ \A c \in Callers : CallOK(c)

-------------------------------------------------------------------------------
(* Types.                                                                      *)

LEMMA RowTypes ==
    ASSUME TypeOK
    PROVE  /\ DOMAIN rows = 1..Len(rows) /\ Len(rows) \in Nat
           /\ Len(rows) <= MaxRows
           /\ \A i \in DOMAIN rows : rows[i] \in Row
           /\ Ids \subseteq 1..Len(rows) /\ InFlight \subseteq Ids /\ Valid \subseteq Ids
           /\ \A c \in Callers : call[c] \in Call
  BY DEF TypeOK, Ids, InFlight, Valid

(* Whatever is queried, the newest row is a row. *)
LEMMA NewestRow ==
    ASSUME TypeOK, NEW S, S \subseteq Ids, S # {}
    PROVE  Newest(S) \in S /\ Newest(S) \in DOMAIN rows /\ Newest(S) \in 1..MaxRows
  BY RowTypes, NewestOfSet, RequestConstants

LEMMA NewRowTypes ==
    \A n \in Nat : NewRow(n) \in Row
  <1> TAKE n \in Nat
  <1>1. "pending" \in AuditStatus
    BY DEF AuditStatus
  <1> QED
    BY <1>1 DEF NewRow, Row

(* A step that replaces one row, or adds one, keeps the type of the table. *)
LEMMA ReplacedRow ==
    ASSUME TypeOK, NEW i \in DOMAIN rows, NEW r \in Row, rows' = [rows EXCEPT ![i] = r]
    PROVE  rows' \in Seq(Row) /\ Len(rows') = Len(rows) /\ DOMAIN rows' = DOMAIN rows
  <1>1. rows \in Seq(Row) /\ DOMAIN rows = 1..Len(rows)
    BY DEF TypeOK
  <1>2. DOMAIN rows' = 1..Len(rows) /\ \A j \in 1..Len(rows) : rows'[j] \in Row
    BY <1>1
  <1>3. rows' = [j \in 1..Len(rows) |-> rows'[j]]
    BY <1>1
  <1>4. rows' \in Seq(Row)
    BY <1>1, <1>2, <1>3
  <1> QED
    BY <1>1, <1>2, <1>4

(* A step of one caller that gives it a well-typed record. *)
LEMMA CallTypes ==
    ASSUME TypeOK, NEW c \in Callers, NEW record \in Call,
           call' = [call EXCEPT ![c] = record]
    PROVE  call' \in [Callers -> Call]
  BY DEF TypeOK

(* The records a step goes on with. *)
LEMMA CallUpdates ==
    ASSUME NEW k \in Call, NEW i \in 0..MaxRows, NEW run \in Nat, NEW S \in SUBSET Sources
    PROVE  /\ [k EXCEPT !.pc = "resetting", !.row = i] \in Call
           /\ [k EXCEPT !.pc = "reusing", !.row = i, !.run = run] \in Call
           /\ [k EXCEPT !.pc = "signalling", !.succeeded = S] \in Call
  <1> DEFINE Pcs == {"idle", "lookup", "reusing", "signalling", "inserting", "race_in_flight",
                     "race_valid", "race_newest", "resetting", "refreshing", "answered"}
             Codes == {0, 200, 201, 202, 409, 500}
             Numbers == 0..MaxRows
             Records == [pc : Pcs, row : Numbers, run : Nat, succeeded : SUBSET Sources, code : Codes]
  <1>1. "resetting" \in Pcs /\ "reusing" \in Pcs /\ "signalling" \in Pcs /\ i \in Numbers
    OBVIOUS
  <1>2. Call = Records /\ k \in Records
    BY DEF Call
  <1> HIDE DEF Pcs, Codes, Numbers
  <1>3. [k EXCEPT !.pc = "resetting", !.row = i] \in Records
    BY <1>1, <1>2
  <1>4. [k EXCEPT !.pc = "reusing", !.row = i, !.run = run] \in Records
    BY <1>1, <1>2
  <1>5. [k EXCEPT !.pc = "signalling", !.succeeded = S] \in Records
    BY <1>1, <1>2
  <1> QED
    BY <1>2, <1>3, <1>4, <1>5

LEMMA AnswerTypes ==
    ASSUME TypeOK, NEW c \in Callers, NEW i \in 0..MaxRows,
           NEW code \in {200, 201, 202, 409, 500}, Answer(c, i, code)
    PROVE  call' \in [Callers -> Call]
  <1> DEFINE Pcs == {"idle", "lookup", "reusing", "signalling", "inserting", "race_in_flight",
                     "race_valid", "race_newest", "resetting", "refreshing", "answered"}
             Codes == {0, 200, 201, 202, 409, 500}
             Numbers == 0..MaxRows
             record == [call[c] EXCEPT !.pc = "answered", !.row = i, !.code = code]
  <1>1. "answered" \in Pcs /\ code \in Codes /\ i \in Numbers
    OBVIOUS
  <1>2. call[c] \in [pc : Pcs, row : Numbers, run : Nat, succeeded : SUBSET Sources, code : Codes]
    BY DEF TypeOK, Call
  <1>3. record \in [pc : Pcs, row : Numbers, run : Nat, succeeded : SUBSET Sources, code : Codes]
    <2> HIDE DEF Pcs, Codes, Numbers
    <2> QED
      BY <1>1, <1>2
  <1>4. record \in Call
    BY <1>3 DEF Call
  <1>5. call' = [call EXCEPT ![c] = record]
    BY DEF Answer
  <1> QED
    BY <1>4, <1>5, CallTypes

LEMMA GoOnTypes ==
    ASSUME TypeOK, NEW c \in Callers,
           NEW label \in {"lookup", "inserting", "race_in_flight", "race_valid", "race_newest",
                          "refreshing"},
           GoOn(c, label)
    PROVE  call' \in [Callers -> Call]
  <1> DEFINE record == [call[c] EXCEPT !.pc = label]
  <1>1. call[c] \in Call
    BY DEF TypeOK
  <1>2. record \in Call
    BY <1>1 DEF Call
  <1>3. call' = [call EXCEPT ![c] = record]
    BY DEF GoOn
  <1> QED
    BY <1>2, <1>3, CallTypes

LEMMA SignalTypes ==
    ASSUME Signal
    PROVE  heard' \in [Callers -> BOOLEAN]
  BY DEF Signal


-------------------------------------------------------------------------------
(* What a step does to the table.                                              *)

(* q is what became of row r in the same run: it does not take off again, and a
   success keeps its sources. *)
Kept(r, q) ==
    /\ q.run = r.run
    /\ q.stored =>
        /\ r.stored
        /\ q.status \in InFlightAuditStatuses => r.status \in InFlightAuditStatuses
        /\ r.status \in Succeeding => q.status \in Succeeding /\ q.succeeded = r.succeeded
        /\ q.status \in Succeeding /\ r.status \notin Succeeding => q.succeeded # {}

Settling ==
    Len(rows') = Len(rows) /\ \A i \in DOMAIN rows : Kept(rows[i], rows'[i])

Adding == MayBePending(NoRow) /\ rows' = Append(rows, NewRow(1))

Resetting(i) ==
    /\ i \in DOMAIN rows /\ rows[i].stored /\ MayBePending(i)
    /\ rows' = [rows EXCEPT ![i] = NewRow(rows[i].run + 1)]

TableMoves ==
    /\ rows' \in Seq(Row) /\ Len(rows') <= MaxRows
    /\ Settling \/ Adding \/ \E i \in DOMAIN rows : Resetting(i)

LEMMA UnchangedRows ==
    ASSUME TypeOK, rows' = rows
    PROVE  TableMoves
  <1>1. \A r : Kept(r, r)
    BY DEF Kept
  <1> QED
    BY <1>1 DEF TableMoves, Settling, TypeOK

LEMMA KeptRow ==
    ASSUME TypeOK, NEW i \in DOMAIN rows, NEW r \in Row, rows' = [rows EXCEPT ![i] = r],
           Kept(rows[i], r)
    PROVE  TableMoves
  <1>1. rows' \in Seq(Row) /\ Len(rows') = Len(rows)
    BY ReplacedRow
  <1>2. \A q : Kept(q, q)
    BY DEF Kept
  <1>3. \A j \in DOMAIN rows : Kept(rows[j], rows'[j])
    BY <1>2
  <1> QED
    BY <1>1, <1>3 DEF TableMoves, Settling, TypeOK

LEMMA RunStepRows ==
    ASSUME TypeOK, NEW i \in Ids, RunStep(i) \/ Environment(i)
    PROVE  TableMoves
  <1>1. i \in DOMAIN rows /\ rows[i] \in Row
    BY RowTypes DEF Ids
  <1>2. CASE Claim(i)
    <2> DEFINE r == [rows[i] EXCEPT !.status = "running"]
    <2>1. r \in Row /\ Kept(rows[i], r)
      BY <1>1, <1>2 DEF Claim, Row, AuditStatus, Kept, InFlightAuditStatuses, Succeeding,
           ReusableAuditStatuses
    <2> QED
      BY <1>1, <1>2, <2>1, KeptRow DEF Claim
  <1>3. ASSUME NEW S \in SUBSET Sources, Close(i, S)
        PROVE  TableMoves
    <2> DEFINE status == IF S = Sources THEN "completed"
                         ELSE IF S # {} THEN "partially_completed" ELSE "failed"
               r == [rows[i] EXCEPT !.succeeded = S, !.status = status]
    <2>1. r \in Row /\ Kept(rows[i], r)
      BY <1>1, <1>3, RequestConstants DEF Close, Row, AuditStatus, Kept, InFlightAuditStatuses,
           Succeeding, ReusableAuditStatuses
    <2>2. rows' = [rows EXCEPT ![i] = r]
      BY <1>1, <1>3 DEF Close
    <2> QED
      BY <1>1, <2>1, <2>2, KeptRow
  <1>4. ASSUME NEW S \in SUBSET Sources, Sweep(i, S)
        PROVE  TableMoves
    <2> DEFINE r == [rows[i] EXCEPT !.succeeded = S, !.status = "failed"]
    <2>1. r \in Row /\ Kept(rows[i], r)
      BY <1>1, <1>4 DEF Sweep, Row, AuditStatus, Kept, InFlightAuditStatuses, Succeeding,
           ReusableAuditStatuses
    <2>2. rows' = [rows EXCEPT ![i] = r]
      BY <1>1, <1>4 DEF Sweep
    <2> QED
      BY <1>1, <2>1, <2>2, KeptRow
  <1>5. CASE PassExpiry(i)
    <2> DEFINE r == [rows[i] EXCEPT !.unexpired = FALSE]
    <2>1. r \in Row /\ Kept(rows[i], r)
      BY <1>1 DEF Row, Kept
    <2> QED
      BY <1>1, <1>5, <2>1, KeptRow DEF PassExpiry
  <1>6. CASE Expire(i)
    <2> DEFINE r == [rows[i] EXCEPT !.status = "expired"]
    <2>1. r \in Row /\ Kept(rows[i], r)
      BY <1>1, <1>6 DEF Expire, Row, AuditStatus, Kept, InFlightAuditStatuses, Succeeding,
           ReusableAuditStatuses
    <2> QED
      BY <1>1, <1>6, <2>1, KeptRow DEF Expire
  <1>7. CASE Delete(i)
    <2> DEFINE r == [rows[i] EXCEPT !.stored = FALSE, !.succeeded = {}]
    <2>1. r \in Row /\ Kept(rows[i], r)
      BY <1>1 DEF Row, Kept
    <2>2. rows' = [rows EXCEPT ![i] = r]
      BY <1>1, <1>7 DEF Delete
    <2> QED
      BY <1>1, <2>1, <2>2, KeptRow
  <1> QED
    BY <1>2, <1>3, <1>4, <1>5, <1>6, <1>7 DEF RunStep, Environment

LEMMA CallerStepRows ==
    ASSUME TypeOK, NEW c \in Callers, NamesARow(c), Begin(c) \/ CallerStep(c)
    PROVE  TableMoves
  <1>1. CASE rows' = rows
    BY <1>1, UnchangedRows
  <1>2. CASE Insert(c) /\ rows' # rows
    <2>1. Len(rows) < MaxRows /\ Adding
      BY <1>2 DEF Insert, Adding
    <2>2. NewRow(1) \in Row
      BY NewRowTypes
    <2> QED
      BY <2>1, <2>2, RequestConstants DEF TypeOK, TableMoves, Adding
  <1>3. CASE Reset(c) /\ rows' # rows
    <2> DEFINE i == call[c].row
    <2>1. rows[i].stored /\ MayBePending(i) /\ rows' = [rows EXCEPT ![i] = NewRow(rows[i].run + 1)]
      BY <1>3 DEF Reset
    <2>2. i \in DOMAIN rows
      BY <1>3, RowTypes DEF NamesARow, Reset, NoRow, Call
    <2>3. NewRow(rows[i].run + 1) \in Row
      <3>1. rows[i] \in Row
        BY <2>2, RowTypes
      <3>2. rows[i].run + 1 \in Nat
        BY <3>1 DEF Row
      <3> QED
        BY <3>2, NewRowTypes
    <2>4. rows' \in Seq(Row) /\ Len(rows') = Len(rows)
      BY <2>1, <2>2, <2>3, ReplacedRow
    <2> QED
      BY <2>1, <2>2, <2>4 DEF TypeOK, TableMoves, Resetting
  <1>4. rows' = rows \/ Insert(c) \/ Reset(c)
    BY DEF Begin, CallerStep, FindValid, ReadSucceeded, SignalReuse, RaceInFlight, RaceValid,
         RaceNewest, Refresh
  <1> QED
    BY <1>1, <1>2, <1>3, <1>4

LEMMA StepRows ==
    ASSUME RInv, [Next]_vars
    PROVE  TableMoves
  <1>1. TypeOK /\ \A c \in Callers : NamesARow(c)
    BY DEF RInv, CallOK
  <1>2. CASE UNCHANGED vars
    BY <1>1, <1>2, UnchangedRows DEF vars
  <1>3. ASSUME NEW c \in Callers, Begin(c) \/ CallerStep(c)
        PROVE  TableMoves
    BY <1>1, <1>3, CallerStepRows
  <1>4. ASSUME NEW i \in Ids, RunStep(i) \/ Environment(i)
        PROVE  TableMoves
    BY <1>1, <1>4, RunStepRows
  <1>5. ASSUME NEW i \in Ids, NEW c \in Callers, BeginRerun(c, i)
        PROVE  TableMoves
    BY <1>1, <1>5, UnchangedRows DEF BeginRerun
  <1> QED
    BY <1>2, <1>3, <1>4, <1>5 DEF Next


-------------------------------------------------------------------------------
(* What a step does to the calls.                                              *)

LEMMA UnchangedCalls ==
    ASSUME TypeOK, call' = call
    PROVE  call' \in [Callers -> Call]
  BY DEF TypeOK

LEMMA StepCalls ==
    ASSUME RInv, [Next]_vars
    PROVE  call' \in [Callers -> Call] /\ heard' \in [Callers -> BOOLEAN]
  <1>1. TypeOK /\ \A c \in Callers : NamesARow(c) /\ call[c] \in Call
    BY DEF RInv, CallOK, TypeOK
  <1>2. heard' \in [Callers -> BOOLEAN]
    <2>1. heard' = heard \/ Signal
      BY DEF Next, CallerStep, RunStep, Environment, vars, Begin, FindValid, ReadSucceeded,
           SignalReuse, Insert, RaceInFlight, RaceValid, RaceNewest, BeginRerun, Reset, Refresh,
           Claim, Close, Sweep, PassExpiry, Expire, Delete
    <2> QED
      BY <1>1, <2>1, SignalTypes DEF TypeOK
  <1>3. CASE UNCHANGED vars \/ \E i \in Ids : RunStep(i) \/ Environment(i)
    BY <1>1, <1>2, <1>3, UnchangedCalls
       DEF vars, RunStep, Environment, Claim, Close, Sweep, PassExpiry, Expire, Delete
  <1>4. ASSUME NEW c \in Callers, NEW i \in Ids, BeginRerun(c, i)
        PROVE  call' \in [Callers -> Call]
    <2>1. i \in 0..MaxRows /\ call[c] \in Call
      BY <1>1, RowTypes, RequestConstants
    <2>2. [call[c] EXCEPT !.pc = "resetting", !.row = i] \in Call
      BY <2>1, CallUpdates
    <2> QED
      BY <1>1, <1>4, <2>2, CallTypes DEF BeginRerun
  <1>5. ASSUME NEW c \in Callers, Begin(c) \/ CallerStep(c)
        PROVE  call' \in [Callers -> Call]
    <2>1. \A S : S \subseteq Ids /\ S # {} => Newest(S) \in 0..MaxRows /\ Newest(S) \in DOMAIN rows
      BY <1>1, NewestRow
    <2>2. call[c].row \in 0..MaxRows /\ call[c] \in Call
      BY <1>1 DEF Call
    <2>3. InFlight \subseteq Ids /\ Valid \subseteq Ids /\ Ids \subseteq Ids
      BY <1>1, RowTypes
    <2>4. CASE Begin(c)
      BY <1>1, <2>4, GoOnTypes DEF Begin
    <2>5. CASE FindValid(c)
      <3>1. CASE Valid = {}
        BY <1>1, <2>5, <3>1, GoOnTypes DEF FindValid
      <3>2. CASE Valid # {}
        <4> DEFINE found == Newest(Valid)
        <4>1. found \in 0..MaxRows /\ rows[found] \in Row
          BY <1>1, <2>1, <2>3, <3>2, RowTypes
        <4>2. rows[found].run \in Nat
          BY <4>1 DEF Row
        <4>3. [call[c] EXCEPT !.pc = "reusing", !.row = found, !.run = rows[found].run] \in Call
          <5> HIDE DEF found
          <5> QED
            BY <2>2, <4>1, <4>2, CallUpdates
        <4> QED
          BY <1>1, <2>5, <3>2, <4>3, CallTypes DEF FindValid
      <3> QED
        BY <3>1, <3>2
    <2>6. CASE ReadSucceeded(c)
      <3>1. call[c].row \in DOMAIN rows
        BY <1>1, <2>2, <2>6, RowTypes DEF NamesARow, ReadSucceeded, NoRow
      <3>2. rows[call[c].row].succeeded \in SUBSET Sources
        BY <1>1, <3>1, RowTypes DEF Row
      <3>3. [call[c] EXCEPT !.pc = "signalling", !.succeeded = rows[call[c].row].succeeded] \in Call
        BY <2>2, <3>2, CallUpdates
      <3> QED
        BY <1>1, <2>6, <3>3, CallTypes DEF ReadSucceeded
    <2>7. CASE SignalReuse(c)
      BY <1>1, <2>2, <2>7, AnswerTypes DEF SignalReuse
    <2>8. CASE Insert(c)
      <3>1. CASE MayBePending(NoRow)
        <4>1. Len(rows) + 1 \in 0..MaxRows /\ Answer(c, Len(rows) + 1, 201)
          BY <1>1, <2>8, <3>1, RequestConstants DEF Insert, TypeOK
        <4> QED
          BY <1>1, <4>1, AnswerTypes
      <3>2. CASE ~MayBePending(NoRow)
        BY <1>1, <2>8, <3>2, GoOnTypes DEF Insert
      <3> QED
        BY <3>1, <3>2
    <2>9. \A i \in 0..MaxRows : AnswerWith(c, i) => call' \in [Callers -> Call]
      BY <1>1, AnswerTypes DEF AnswerWith, HttpStatus
    <2>10. CASE RaceInFlight(c)
      BY <1>1, <2>1, <2>3, <2>9, <2>10, GoOnTypes DEF RaceInFlight
    <2>11. CASE RaceValid(c)
      BY <1>1, <2>1, <2>3, <2>9, <2>11, GoOnTypes DEF RaceValid
    <2>12. CASE RaceNewest(c)
      <3>1. NoRow \in 0..MaxRows
        BY RequestConstants DEF NoRow
      <3> QED
        BY <1>1, <2>1, <2>3, <2>9, <2>12, <3>1, AnswerTypes DEF RaceNewest
    <2>13. CASE Reset(c)
      BY <1>1, <2>2, <2>13, GoOnTypes, AnswerTypes DEF Reset
    <2>14. CASE Refresh(c)
      BY <1>1, <2>2, <2>14, AnswerTypes DEF Refresh
    <2> QED
      BY <1>5, <2>4, <2>5, <2>6, <2>7, <2>8, <2>10, <2>11, <2>12, <2>13, <2>14 DEF CallerStep
  <1> QED
    BY <1>2, <1>3, <1>4, <1>5 DEF Next

(* The table and the calls after a step. *)
LEMMA TypesKept ==
    ASSUME RInv, [Next]_vars
    PROVE  TypeOK'
  BY StepRows, StepCalls DEF TypeOK, TableMoves

-------------------------------------------------------------------------------
(* The rows of the table after a step.                                         *)

LEMMA OneInFlightKept ==
    ASSUME RInv, [Next]_vars
    PROVE  OneInFlight'
  <1>1. TypeOK /\ OneInFlight /\ TypeOK' /\ TableMoves
    BY StepRows, TypesKept DEF RInv
  <1>2. DOMAIN rows = 1..Len(rows) /\ Len(rows) \in Nat /\ DOMAIN rows' = 1..Len(rows')
    BY <1>1 DEF TypeOK
  <1>3. CASE Settling
    <2>1. \A i \in InFlight' : i \in InFlight
      BY <1>2, <1>3 DEF Settling, Kept, InFlight, Ids
    <2> QED
      BY <1>1, <2>1 DEF OneInFlight
  <1>4. CASE Adding
    <2>1. InFlight = {}
      BY <1>2, <1>4 DEF Adding, MayBePending, NoRow, InFlight, Ids
    <2>2. /\ Len(rows') = Len(rows) + 1
          /\ \A i \in DOMAIN rows : rows'[i] = rows[i]
      BY <1>1, <1>4 DEF Adding, TypeOK
    <2>3. \A i \in InFlight' : i = Len(rows) + 1
      BY <1>2, <2>1, <2>2 DEF InFlight, Ids
    <2> QED
      BY <2>3 DEF OneInFlight
  <1>5. ASSUME NEW i \in DOMAIN rows, Resetting(i)
        PROVE  OneInFlight'
    <2>1. \A j \in InFlight' : j \in InFlight \/ j = i
      BY <1>1, <1>5 DEF Resetting, InFlight, Ids
    <2>2. \A j \in InFlight' : j = i
      BY <1>5, <2>1 DEF Resetting, MayBePending
    <2> QED
      BY <2>2 DEF OneInFlight
  <1> QED
    BY <1>1, <1>3, <1>4, <1>5 DEF TableMoves

LEMMA SuccessKept ==
    ASSUME RInv, [Next]_vars
    PROVE  SuccessHasSources'
  <1>1. TypeOK /\ SuccessHasSources /\ TypeOK' /\ TableMoves
    BY StepRows, TypesKept DEF RInv
  <1>2. DOMAIN rows = 1..Len(rows) /\ Len(rows) \in Nat /\ DOMAIN rows' = 1..Len(rows')
    BY <1>1 DEF TypeOK
  <1>3. \A n : NewRow(n).status \notin Succeeding
    BY DEF NewRow, Succeeding, ReusableAuditStatuses
  <1>4. CASE Settling
    BY <1>1, <1>2, <1>4 DEF Settling, Kept, SuccessHasSources, Ids
  <1>5. CASE Adding
    <2>1. /\ Len(rows') = Len(rows) + 1
          /\ \A i \in DOMAIN rows : rows'[i] = rows[i]
          /\ rows'[Len(rows) + 1] = NewRow(1)
      BY <1>1, <1>5 DEF Adding, TypeOK
    <2> QED
      BY <1>1, <1>2, <1>3, <2>1 DEF SuccessHasSources, Ids
  <1>6. ASSUME NEW i \in DOMAIN rows, Resetting(i)
        PROVE  SuccessHasSources'
    BY <1>1, <1>3, <1>6 DEF Resetting, SuccessHasSources, Ids
  <1> QED
    BY <1>1, <1>4, <1>5, <1>6 DEF TableMoves


-------------------------------------------------------------------------------
(* What callers know of the table stays true of it.                            *)

(* q is what became of row r, in the same run or in a newer one. *)
Later(r, q) ==
    /\ r.run <= q.run
    /\ q.stored => r.stored
    /\ q.stored /\ q.run = r.run /\ r.status \in Succeeding =>
           q.status \in Succeeding /\ q.succeeded = r.succeeded

LEMMA RowsLater ==
    ASSUME TypeOK, TypeOK', TableMoves
    PROVE  /\ Len(rows) <= Len(rows')
           /\ \A i \in DOMAIN rows : i \in DOMAIN rows' /\ Later(rows[i], rows'[i])
  <1>1. DOMAIN rows = 1..Len(rows) /\ Len(rows) \in Nat /\ DOMAIN rows' = 1..Len(rows')
    BY DEF TypeOK
  <1>2. \A i \in DOMAIN rows : rows[i].run \in Nat
    BY RowTypes DEF Row
  <1>3. \A i \in DOMAIN rows : Later(rows[i], rows[i])
    BY <1>2 DEF Later
  <1>4. CASE Settling
    BY <1>1, <1>2, <1>4 DEF Settling, Kept, Later
  <1>5. CASE Adding
    <2>1. /\ Len(rows') = Len(rows) + 1
          /\ \A i \in DOMAIN rows : rows'[i] = rows[i]
      BY <1>5 DEF Adding, TypeOK
    <2> QED
      BY <1>1, <1>3, <2>1
  <1>6. ASSUME NEW i \in DOMAIN rows, Resetting(i)
        PROVE  /\ Len(rows) <= Len(rows')
               /\ \A j \in DOMAIN rows : j \in DOMAIN rows' /\ Later(rows[j], rows'[j])
    <2>1. DOMAIN rows' = DOMAIN rows /\ Len(rows') = Len(rows)
      BY <1>1, <1>6 DEF Resetting, TypeOK
    <2>2. rows'[i].run = rows[i].run + 1 /\ rows[i].stored
      BY <1>6 DEF Resetting, NewRow
    <2>3. Later(rows[i], rows'[i])
      BY <1>2, <2>2 DEF Later
    <2>4. \A j \in DOMAIN rows \ {i} : rows'[j] = rows[j]
      BY <1>6 DEF Resetting
    <2> QED
      BY <1>1, <1>3, <2>1, <2>3, <2>4
  <1> QED
    BY <1>4, <1>5, <1>6 DEF TableMoves

(* A row once deleted keeps the history incomplete. *)
LEMMA NotAllStored ==
    ASSUME TypeOK, TypeOK', TableMoves, ~AllStored
    PROVE  ~AllStored'
  BY RowsLater DEF AllStored, Later

(* A caller that makes no step. *)
LEMMA IdleCallOK ==
    ASSUME RInv, TypeOK', TableMoves, NEW c \in Callers, call'[c] = call[c]
    PROVE  CallOK(c)'
  <1>1. TypeOK /\ CallOK(c) /\ call[c] \in Call /\ Len(rows) \in Nat /\ Len(rows') \in Nat
    BY DEF RInv, TypeOK
  <1>2. Len(rows) <= Len(rows')
    BY <1>1, RowsLater
  <1>3. call[c].row \in Nat
    BY <1>1, RequestConstants DEF Call
  <1>4. NamesARow(c)'
    BY <1>1, <1>2, <1>3 DEF CallOK, NamesARow
  <1>5. SawARow(c)'
    <2>1. rows # <<>> <=> Len(rows) # 0
      BY <1>1 DEF TypeOK
    <2>2. rows' # <<>> <=> Len(rows') # 0
      BY DEF TypeOK
    <2> QED
      BY <1>1, <1>2, <2>1, <2>2 DEF CallOK, SawARow
  <1>6. HasAnAudit(c)'
    BY <1>1, NotAllStored DEF CallOK, HasAnAudit
  <1>7. FoundRunIsOver(c)'
    <2>1. SUFFICES ASSUME call[c].pc \in {"reusing", "signalling"}
                   PROVE  FoundRunIsOver(c)'
      BY DEF FoundRunIsOver
    <2> DEFINE i == call[c].row
    <2>2. i \in DOMAIN rows
      BY <1>1, <1>3, <2>1, RowTypes DEF CallOK, NamesARow, NoRow
    <2>3. i \in DOMAIN rows' /\ Later(rows[i], rows'[i])
      BY <1>1, <2>2, RowsLater
    <2>4. rows[i].run \in Nat /\ call[c].run \in Nat
      BY <1>1, <2>2, RowTypes DEF Row, Call
    <2>5. rows'[i].run \in Nat
      <3>1. rows'[i] \in Row
        BY <2>3 DEF TypeOK
      <3> QED
        BY <3>1 DEF Row
    <2>6. /\ call[c].run <= rows[i].run
          /\ rows[i].stored /\ rows[i].run = call[c].run =>
                 /\ rows[i].status \in Succeeding
                 /\ call[c].pc = "signalling" => call[c].succeeded = rows[i].succeeded
      BY <1>1, <2>1 DEF CallOK, FoundRunIsOver
    <2>7. call[c].run <= rows'[i].run
      BY <2>3, <2>4, <2>5, <2>6 DEF Later
    <2>8. rows'[i].run = call[c].run => rows'[i].run = rows[i].run /\ rows[i].run = call[c].run
      BY <2>3, <2>4, <2>5, <2>6 DEF Later
    <2> QED
      BY <2>3, <2>6, <2>7, <2>8 DEF FoundRunIsOver, Later
  <1> QED
    BY <1>4, <1>5, <1>6, <1>7 DEF CallOK


LEMMA AnswerFields ==
    ASSUME TypeOK, NEW c \in Callers, NEW i, NEW code, Answer(c, i, code)
    PROVE  call'[c].pc = "answered" /\ call'[c].row = i
  BY DEF Answer, TypeOK, Call

LEMMA BeginRerunFields ==
    ASSUME TypeOK, NEW c \in Callers, NEW i, BeginRerun(c, i)
    PROVE  call'[c].pc = "resetting" /\ call'[c].row = i
  BY DEF BeginRerun, TypeOK, Call

(* An answer that names a row is one. *)
LEMMA AnswerOK ==
    ASSUME TypeOK, TypeOK', NEW c \in Callers, NEW i \in 1..Len(rows'), NEW code, Answer(c, i, code)
    PROVE  CallOK(c)'
  <1>1. call'[c].pc = "answered" /\ call'[c].row = i
    BY DEF Answer, TypeOK, Call
  <1>2. i <= Len(rows') /\ i # NoRow
    BY DEF NoRow
  <1> QED
    BY <1>1, <1>2 DEF CallOK, NamesARow, SawARow, HasAnAudit, FoundRunIsOver

(* A query of the caller that goes on. *)
LEMMA GoOnOK ==
    ASSUME RInv, rows' = rows, NEW c \in Callers,
           NEW label \in {"lookup", "inserting", "race_in_flight", "race_valid", "race_newest"},
           GoOn(c, label),
           label \in {"race_in_flight", "race_valid", "race_newest"} => rows # <<>>
    PROVE  CallOK(c)'
  <1>1. call'[c].pc = label /\ call'[c].row = call[c].row
    BY DEF GoOn, RInv, TypeOK, Call
  <1>2. NamesARow(c)
    BY DEF RInv, CallOK
  <1> QED
    BY <1>1, <1>2 DEF CallOK, NamesARow, SawARow, HasAnAudit, FoundRunIsOver

LEMMA RequestCallOK ==
    ASSUME RInv, TypeOK', NEW c \in Callers,
           Begin(c) \/ FindValid(c) \/ ReadSucceeded(c) \/ SignalReuse(c) \/ Insert(c)
    PROVE  CallOK(c)'
  <1>1. TypeOK /\ CallOK(c) /\ call[c] \in Call /\ Len(rows) \in Nat
    BY DEF RInv, TypeOK
  <1>2. call[c].pc \in {"reusing", "signalling"} => call[c].row \in DOMAIN rows
    BY <1>1, RowTypes, RequestConstants DEF CallOK, NamesARow, NoRow, Call
  <1>3. CASE Begin(c)
    BY <1>3, GoOnOK DEF Begin
  <1>4. CASE FindValid(c)
    <2>1. CASE Valid = {}
      BY <1>4, <2>1, GoOnOK DEF FindValid
    <2>2. CASE Valid # {}
      <3> DEFINE found == Newest(Valid)
      <3>1. found \in Valid /\ found \in DOMAIN rows /\ found \in 1..Len(rows)
        BY <1>1, <2>2, NewestRow, RowTypes
      <3>2. rows[found] \in Row
        BY <1>1, <3>1, RowTypes
      <3>3. rows[found].run \in Nat
        BY <3>2 DEF Row
      <3>4. call' = [call EXCEPT ![c] = [@ EXCEPT !.pc = "reusing", !.row = found,
                                                  !.run = rows[found].run]]
        BY <1>4, <2>2 DEF FindValid
      <3> HIDE DEF found
      <3>5. call'[c].pc = "reusing" /\ call'[c].row = found /\ call'[c].run = rows[found].run
        BY <1>1, <3>4 DEF TypeOK, Call
      <3>6. rows[found].status \in Succeeding
        BY <3>1 DEF Valid, Succeeding
      <3>7. rows' = rows /\ found <= Len(rows) /\ found # NoRow
        BY <1>1, <1>4, <3>1 DEF FindValid, NoRow
      <3> QED
        BY <3>3, <3>5, <3>6, <3>7 DEF CallOK, NamesARow, SawARow, HasAnAudit, FoundRunIsOver
    <2> QED
      BY <2>1, <2>2
  <1>5. CASE ReadSucceeded(c)
    <2>1. /\ call'[c].pc = "signalling" /\ call'[c].row = call[c].row /\ call'[c].run = call[c].run
          /\ call'[c].succeeded = rows[call[c].row].succeeded
      BY <1>1, <1>5 DEF ReadSucceeded, TypeOK, Call
    <2>2. rows' = rows /\ call[c].pc = "reusing"
      BY <1>5 DEF ReadSucceeded
    <2> QED
      BY <1>1, <2>1, <2>2 DEF CallOK, NamesARow, SawARow, HasAnAudit, FoundRunIsOver
  <1>6. CASE SignalReuse(c)
    BY <1>1, <1>2, <1>6, AnswerOK, RowTypes DEF SignalReuse
  <1>7. CASE Insert(c)
    <2>1. CASE MayBePending(NoRow)
      <3>1. Len(rows') = Len(rows) + 1 /\ Answer(c, Len(rows) + 1, 201)
        BY <1>1, <1>7, <2>1 DEF Insert, TypeOK
      <3>2. Len(rows) + 1 \in 1..Len(rows')
        BY <1>1, <3>1
      <3> QED
        BY <1>1, <3>1, <3>2, AnswerOK
    <2>2. CASE ~MayBePending(NoRow)
      <3>1. rows # <<>>
        BY <2>2 DEF MayBePending, InFlight, Ids
      <3> QED
        BY <1>7, <2>2, <3>1, GoOnOK DEF Insert
    <2> QED
      BY <2>1, <2>2
  <1> QED
    BY <1>3, <1>4, <1>5, <1>6, <1>7

LEMMA RaceCallOK ==
    ASSUME RInv, TypeOK', NEW c \in Callers, RaceInFlight(c) \/ RaceValid(c) \/ RaceNewest(c)
    PROVE  CallOK(c)'
  <1>1. TypeOK /\ CallOK(c) /\ call[c] \in Call /\ rows' = rows /\ rows # <<>>
    BY DEF RInv, TypeOK, CallOK, SawARow, RaceInFlight, RaceValid, RaceNewest
  <1>2. ASSUME NEW S, S \subseteq Ids, S # {}, AnswerWith(c, Newest(S))
        PROVE  CallOK(c)'
    BY <1>1, <1>2, NewestRow, RowTypes, AnswerOK DEF AnswerWith
  <1>3. InFlight \subseteq Ids /\ Valid \subseteq Ids
    BY <1>1, RowTypes
  <1>4. CASE RaceInFlight(c)
    BY <1>1, <1>2, <1>3, <1>4, GoOnOK DEF RaceInFlight
  <1>5. CASE RaceValid(c)
    BY <1>1, <1>2, <1>3, <1>5, GoOnOK DEF RaceValid
  <1>6. CASE RaceNewest(c)
    <2>1. CASE Ids # {}
      BY <1>2, <1>6, <2>1 DEF RaceNewest
    <2>2. CASE Ids = {}
      <3>1. call'[c].pc = "answered" /\ call'[c].row = NoRow
        BY <1>1, <1>6, <2>2, AnswerFields DEF RaceNewest
      <3>2. 1 \in DOMAIN rows /\ Len(rows) \in Nat
        BY <1>1 DEF TypeOK
      <3>3. ~AllStored
        BY <2>2, <3>2 DEF AllStored, Ids
      <3> QED
        BY <1>1, <3>1, <3>2, <3>3 DEF CallOK, NamesARow, SawARow, HasAnAudit, FoundRunIsOver,
             AllStored, NoRow
    <2> QED
      BY <2>1, <2>2
  <1> QED
    BY <1>4, <1>5, <1>6

LEMMA RerunCallOK ==
    ASSUME RInv, TypeOK', NEW c \in Callers,
           Reset(c) \/ Refresh(c) \/ \E i \in Ids : BeginRerun(c, i)
    PROVE  CallOK(c)'
  <1>1. TypeOK /\ CallOK(c) /\ call[c] \in Call /\ Len(rows) \in Nat
    BY DEF RInv, TypeOK
  <1>2. call[c].pc \in {"resetting", "refreshing"} =>
            call[c].row \in DOMAIN rows /\ call[c].row # NoRow /\ call[c].row <= Len(rows)
    BY <1>1, RowTypes, RequestConstants DEF CallOK, NamesARow, NoRow, Call
  <1>3. CASE Reset(c)
    <2>1. Len(rows') = Len(rows) /\ DOMAIN rows' = 1..Len(rows)
      BY <1>1, <1>3 DEF Reset, TypeOK
    <2>2. CASE Answer(c, call[c].row, 409)
      BY <1>1, <1>2, <1>3, <2>1, <2>2, RowTypes, AnswerOK DEF Reset
    <2>3. CASE GoOn(c, "refreshing")
      <3>1. call'[c].pc = "refreshing" /\ call'[c].row = call[c].row
        BY <1>1, <2>3 DEF GoOn, TypeOK, Call
      <3>2. call[c].pc = "resetting"
        BY <1>3 DEF Reset
      <3> QED
        BY <1>2, <2>1, <3>1, <3>2 DEF CallOK, NamesARow, SawARow, HasAnAudit, FoundRunIsOver
    <2> QED
      BY <1>3, <2>2, <2>3 DEF Reset
  <1>4. CASE Refresh(c)
    BY <1>1, <1>2, <1>4, RowTypes, AnswerOK DEF Refresh
  <1>5. ASSUME NEW i \in Ids, BeginRerun(c, i)
        PROVE  CallOK(c)'
    <2>1. call'[c].pc = "resetting" /\ call'[c].row = i
      BY <1>1, <1>5, BeginRerunFields
    <2>2. i <= Len(rows) /\ i # NoRow
      BY <1>1, RowTypes DEF NoRow
    <2>3. rows' = rows
      BY <1>5 DEF BeginRerun
    <2> QED
      BY <2>1, <2>2, <2>3 DEF CallOK, NamesARow, SawARow, HasAnAudit, FoundRunIsOver
  <1> QED
    BY <1>3, <1>4, <1>5

(* Every step is a step of at most one caller. *)
LEMMA OneCallerSteps ==
    ASSUME TypeOK, [Next]_vars
    PROVE  \/ call' = call
           \/ \E c \in Callers :
                  /\ \/ Begin(c) \/ CallerStep(c) \/ \E i \in Ids : BeginRerun(c, i)
                  /\ \A d \in Callers \ {c} : call'[d] = call[d]
  <1>1. CASE UNCHANGED vars
    BY <1>1 DEF vars
  <1>2. ASSUME NEW i \in Ids, RunStep(i) \/ Environment(i)
        PROVE  call' = call
    BY <1>2 DEF RunStep, Environment, Claim, Close, Sweep, PassExpiry, Expire, Delete
  <1>3. ASSUME NEW c \in Callers,
               Begin(c) \/ CallerStep(c) \/ \E i \in Ids : BeginRerun(c, i)
        PROVE  \A d \in Callers \ {c} : call'[d] = call[d]
    <2> DEFINE Others == \A d \in Callers \ {c} : call'[d] = call[d]
    <2>1. \A label : GoOn(c, label) => Others
      BY DEF GoOn, TypeOK
    <2>2. \A i, code : Answer(c, i, code) => Others
      BY DEF Answer, TypeOK
    <2>3. (\E i \in Ids : BeginRerun(c, i)) => Others
      BY DEF BeginRerun, TypeOK
    <2>4. ReadSucceeded(c) => Others
      BY DEF ReadSucceeded, TypeOK
    <2>5. FindValid(c) => Others
      BY <2>1 DEF FindValid, TypeOK
    <2> HIDE DEF Others
    <2>6. RaceInFlight(c) \/ RaceValid(c) \/ RaceNewest(c) => Others
      BY <2>1, <2>2 DEF RaceInFlight, RaceValid, RaceNewest, AnswerWith
    <2>7. Begin(c) \/ SignalReuse(c) \/ Insert(c) \/ Reset(c) \/ Refresh(c) => Others
      BY <2>1, <2>2 DEF Begin, SignalReuse, Insert, Reset, Refresh
    <2>8. Others
      BY <1>3, <2>3, <2>4, <2>5, <2>6, <2>7 DEF CallerStep
    <2> QED
      BY <2>8 DEF Others
  <1> QED
    BY <1>1, <1>2, <1>3 DEF Next

LEMMA CallsKept ==
    ASSUME RInv, [Next]_vars, NEW c \in Callers
    PROVE  CallOK(c)'
  <1>1. TypeOK /\ TypeOK' /\ TableMoves
    BY TypesKept, StepRows DEF RInv
  <1>2. CASE call'[c] = call[c]
    BY <1>1, <1>2, IdleCallOK
  <1>3. CASE Begin(c) \/ CallerStep(c) \/ \E i \in Ids : BeginRerun(c, i)
    BY <1>1, <1>3, RequestCallOK, RaceCallOK, RerunCallOK DEF CallerStep
  <1> QED
    BY <1>1, <1>2, <1>3, OneCallerSteps

-------------------------------------------------------------------------------
(* The theorems.                                                               *)

(* The invariant is inductive: types, one audit in flight, and what every caller
   knows of the rows it works on. *)
THEOREM RequestsInvariance == Spec => []RInv
  <1>1. Init => RInv
    <2> SUFFICES ASSUME Init
                 PROVE  RInv
      OBVIOUS
    <2>1. TypeOK
      <3>1. rows \in Seq(Row) /\ Len(rows) = 0
        BY DEF Init
      <3>2. [pc |-> "idle", row |-> NoRow, run |-> 0, succeeded |-> {}, code |-> 0] \in Call
        BY RequestConstants DEF Call, NoRow
      <3> QED
        BY <3>1, <3>2, RequestConstants DEF Init, TypeOK
    <2>2. OneInFlight /\ SuccessHasSources
      BY DEF Init, OneInFlight, SuccessHasSources, InFlight, Ids
    <2>3. \A c \in Callers : CallOK(c)
      BY DEF Init, CallOK, NamesARow, SawARow, HasAnAudit, FoundRunIsOver, NoRow
    <2> QED
      BY <2>1, <2>2, <2>3 DEF RInv
  <1>2. RInv /\ [Next]_vars => RInv'
    BY TypesKept, OneInFlightKept, SuccessKept, CallsKept DEF RInv
  <1> QED
    BY <1>1, <1>2, PTL DEF Spec

(* Rows and calls have their types for any number of callers, audits and sources. *)
THEOREM RequestsTypeCorrect == Spec => []TypeOK
  <1>1. RInv => TypeOK
    BY DEF RInv
  <1> QED
    BY <1>1, RequestsInvariance, PTL

(* The partial unique index and the guard of rerun_audit leave at most one audit of
   the domain pending or running, whoever inserts and reruns at once. *)
THEOREM OneInFlightCorrect == Spec => []OneInFlight
  <1>1. RInv => OneInFlight
    BY DEF RInv
  <1> QED
    BY <1>1, RequestsInvariance, PTL

(* _find_race_winner gives every loser of the race an audit, unless one was deleted. *)
THEOREM RaceHasAWinner == Spec => []AlwaysAnAudit
  <1>1. RInv => AlwaysAnAudit
    BY DEF RInv, CallOK, HasAnAudit, AlwaysAnAudit
  <1> QED
    BY <1>1, RequestsInvariance, PTL

(* The sources that a reuse signals are those of the run it found, and there are some. *)
THEOREM ReuseCorrect == Spec => []ReuseNamesTheRun
  <1>1. RInv => ReuseNamesTheRun
    <2> SUFFICES ASSUME RInv, NEW c \in Callers, call[c].pc = "signalling",
                        rows[call[c].row].stored, rows[call[c].row].run = call[c].run
                 PROVE  /\ call[c].succeeded = rows[call[c].row].succeeded
                        /\ rows[call[c].row].succeeded # {}
      BY DEF ReuseNamesTheRun
    <2>1. TypeOK /\ CallOK(c) /\ call[c] \in Call /\ SuccessHasSources
      BY DEF RInv, TypeOK
    <2>2. call[c].row \in Ids
      BY <2>1, RowTypes, RequestConstants DEF CallOK, NamesARow, NoRow, Call, Ids
    <2> QED
      BY <2>1, <2>2 DEF CallOK, FoundRunIsOver, SuccessHasSources
  <1> QED
    BY <1>1, RequestsInvariance, PTL
===============================================================================

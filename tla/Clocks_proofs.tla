----------------------------- MODULE Clocks_proofs -----------------------------
(***************************************************************************)
(* The two parts that count seconds.                                       *)
(*                                                                         *)
(* The poll clocks: for every pair of configured settings, every latency   *)
(* of the broker and every duration of a poll, neither clock spins, the    *)
(* run is closed in time, and finish_audit fails the report of no poll     *)
(* that is not lost, broken or late.                                       *)
(*                                                                         *)
(* The cache of key probes: for every set of keys and checkers and every   *)
(* lifetime of the cache, the health checks are silent only about a key    *)
(* the provider accepts or accepted no longer ago than the lifetime, and a *)
(* fix silences the next check.                                            *)
(***************************************************************************)
EXTENDS PollBudget, KeyProbe, TLAPS

-------------------------------------------------------------------------------
(* The poll clocks (PollBudget).                                               *)

Settings ==
    interval \in Nat /\ interval > 0 /\ budget \in Nat /\ interval <= budget /\ now \in Nat

PollTask ==
    [pc : {"queued", "fetching", "over", "lost", "broken"}, due : Nat, at : Nat, runs : Nat]

FinishTask == [pc : {"queued", "closed"}, at : Nat, attempt : Nat, start : Nat]

ClockTypes ==
    /\ Settings /\ poll \in PollTask /\ finish \in FinishTask
    /\ report \in {"running", "completed", "failed by poll", "failed by finish"}

(* A task has used up a second for each run, and one more before the next. *)
Paced ==
    /\ poll.pc = "queued" => poll.runs < poll.due
    /\ finish.pc = "queued" => finish.start + finish.attempt <= finish.at

(* The last count that goes on, and when the next check comes at the latest. *)
LastCount == (budget + interval) \div interval
LatestCheck == finish.start + finish.attempt * (interval + Latency)
EarliestCheck == finish.start + finish.attempt * interval

(* A check is in time, and at most a wait late for each check before it. *)
FinishInTime ==
    finish.pc = "queued" =>
        finish.attempt <= LastCount + 1 /\ finish.at <= LatestCheck /\ now <= finish.at + Latency

(* No poll is due later than an interval after the last second before the deadline. *)
DueInTime == poll.pc \in {"queued", "fetching"} => poll.due < budget + interval

(* A check comes no earlier than its count says. *)
FinishNotEarly == finish.pc = "queued" => EarliestCheck <= finish.at

(* A poll chain that ended has settled its report. *)
PollSettles == poll.pc = "over" => report # "running"

ClockInv == ClockTypes /\ Paced /\ NoSpinning /\ FinishInTime

LateInv == ClockTypes /\ DueInTime /\ FinishNotEarly /\ PollSettles

-------------------------------------------------------------------------------
(* What is counted below a bound is at most the quotient. *)
LEMMA Quotient ==
    ASSUME NEW n \in Nat, NEW step \in Nat \ {0}, NEW bound \in Nat, n * step <= bound
    PROVE  n <= bound \div step
  <1> DEFINE q == bound \div step
  <1>1. q \in Nat /\ bound < (q + 1) * step
    OBVIOUS
  <1>2. CASE n > q
    <2>1. n >= q + 1
      BY <1>1, <1>2
    <2>2. n * step >= (q + 1) * step
      BY <1>1, <2>1
    <2> QED
      BY <1>1, <2>2
  <1> QED
    BY <1>1, <1>2

(* The settings in force are at least a second, and the budget at least an interval. *)
LEMMA InitClockTypes ==
    ASSUME NEW starts \in SUBSET Nat, PollInit(Configured, starts)
    PROVE  /\ ClockTypes /\ now = 0 /\ report = "running"
           /\ poll.pc = "queued" /\ poll.runs = 0 /\ poll.due = interval
           /\ finish.start \in starts /\ finish.attempt = 0 /\ finish.at = finish.start
           /\ LatestCheck = finish.start /\ EarliestCheck = finish.start
  <1>1. PICK i \in Configured, b \in Configured, start \in starts :
            /\ interval = PollInterval(i) /\ budget = PollBudgetOf(b, i)
            /\ now = 0
            /\ poll = [pc |-> "queued", due |-> interval, at |-> 0, runs |-> 0]
            /\ finish = [pc |-> "queued", at |-> start, attempt |-> 0, start |-> start]
            /\ report = "running"
    BY DEF PollInit
  <1>2. Settings
    BY <1>1, ClockConstants DEF Settings, PollInterval, PollBudgetOf, AtLeast
  <1>3. /\ poll.pc = "queued" /\ poll.runs = 0 /\ poll.due = interval
        /\ finish.start = start /\ finish.attempt = 0 /\ finish.at = start
    BY <1>1
  <1>4. ClockTypes
    <2>1. start \in Nat /\ interval \in Nat
      BY <1>2 DEF Settings
    <2>2. poll \in PollTask /\ finish \in FinishTask
      BY <1>1, <2>1 DEF PollTask, FinishTask
    <2> QED
      BY <1>1, <1>2, <2>2 DEF ClockTypes
  <1>5. /\ interval + Latency \in Nat /\ interval \in Nat /\ start \in Nat
        /\ \A x \in Nat : 0 * x = 0
    BY <1>2, ClockConstants DEF Settings
  <1>6. LatestCheck = finish.start /\ EarliestCheck = finish.start
    BY <1>3, <1>5 DEF LatestCheck, EarliestCheck
  <1> QED
    BY <1>1, <1>3, <1>4, <1>6

(* The fields one by one. *)
LEMMA Fields ==
    ASSUME ClockTypes
    PROVE  /\ interval \in Nat /\ interval > 0 /\ budget \in Nat /\ interval <= budget
           /\ now \in Nat /\ Latency \in Nat /\ FetchTime \in Nat
           /\ poll.pc \in {"queued", "fetching", "over", "lost", "broken"}
           /\ poll.due \in Nat /\ poll.runs \in Nat
           /\ finish.pc \in {"queued", "closed"}
           /\ finish.at \in Nat /\ finish.attempt \in Nat /\ finish.start \in Nat
           /\ LastCount \in Nat /\ LatestCheck \in Nat /\ EarliestCheck \in Nat
  <1>1. /\ interval \in Nat /\ interval > 0 /\ budget \in Nat /\ interval <= budget
        /\ now \in Nat /\ Latency \in Nat /\ FetchTime \in Nat
    BY ClockConstants DEF ClockTypes, Settings
  <1>2. /\ poll.pc \in {"queued", "fetching", "over", "lost", "broken"}
        /\ poll.due \in Nat /\ poll.runs \in Nat
        /\ finish.pc \in {"queued", "closed"}
        /\ finish.at \in Nat /\ finish.attempt \in Nat /\ finish.start \in Nat
    BY DEF ClockTypes, PollTask, FinishTask
  <1>3. LastCount \in Nat
    BY <1>1 DEF LastCount
  <1>4. LatestCheck \in Nat /\ EarliestCheck \in Nat
    <2>1. \A x \in Nat, y \in Nat : x * y \in Nat
      OBVIOUS
    <2> QED
      BY <1>1, <1>2, <2>1 DEF LatestCheck, EarliestCheck
  <1> QED
    BY <1>1, <1>2, <1>3, <1>4

-------------------------------------------------------------------------------
(* The steps, field by field.                                                  *)

(* A step of time or of the poll task leaves finish_audit alone. *)
LEMMA FinishRests ==
    ASSUME UNCHANGED <<interval, budget, finish>>
    PROVE  UNCHANGED <<LastCount, LatestCheck, EarliestCheck>>
  BY DEF LastCount, LatestCheck, EarliestCheck

(* A poll is taken up. *)
LEMMA PollStartsFields ==
    ASSUME ClockTypes, PollStarts
    PROVE  /\ ClockTypes' /\ UNCHANGED <<interval, budget, now, finish, report>>
           /\ poll.pc = "queued" /\ now >= poll.due
           /\ poll'.pc = "fetching" /\ poll'.due = poll.due /\ poll'.runs = poll.runs + 1
  <1> DEFINE runs == poll.runs + 1
  <1>1. runs \in Nat /\ now \in Nat
    BY Fields
  <1>2. poll' = [poll EXCEPT !.pc = "fetching", !.at = now, !.runs = runs] /\ poll \in PollTask
    BY DEF PollStarts, ClockTypes
  <1> HIDE DEF runs
  <1>3. /\ poll' \in PollTask
        /\ poll'.pc = "fetching" /\ poll'.due = poll.due /\ poll'.runs = runs
    BY <1>1, <1>2 DEF PollTask
  <1>4. UNCHANGED <<interval, budget, now, finish, report>> /\ poll.pc = "queued" /\ now >= poll.due
    BY DEF PollStarts
  <1> QED
    BY <1>3, <1>4 DEF ClockTypes, Settings, runs

(* A lost poll message. *)
LEMMA LosePollFields ==
    ASSUME ClockTypes, LosePoll
    PROVE  /\ ClockTypes' /\ UNCHANGED <<interval, budget, now, finish, report>>
           /\ poll.pc = "queued"
           /\ poll'.pc = "lost" /\ poll'.runs = poll.runs
  <1>1. poll' = [poll EXCEPT !.pc = "lost"] /\ poll \in PollTask
    BY DEF LosePoll, ClockTypes
  <1>2. /\ poll' \in PollTask
        /\ poll'.pc = "lost" /\ poll'.runs = poll.runs
    BY <1>1 DEF PollTask
  <1>3. UNCHANGED <<interval, budget, now, finish, report>> /\ poll.pc = "queued"
    BY DEF LosePoll
  <1> QED
    BY <1>2, <1>3 DEF ClockTypes, Settings

(* The poll settles its report, is put off once more, or breaks. *)
LEMMA PollEndsFields ==
    ASSUME ClockTypes, PollEnds
    PROVE  /\ ClockTypes' /\ UNCHANGED <<interval, budget, now, finish>>
           /\ poll.pc = "fetching" /\ poll'.runs = poll.runs
           /\ \/ /\ poll'.pc = "over" /\ report' # "running"
                 /\ report' = "failed by finish" => report = "failed by finish"
              \/ /\ now < budget /\ report' = report
                 /\ poll'.pc = "queued" /\ poll'.due = now + interval
              \/ poll'.pc = "broken" /\ report' = report
  <1>1. /\ poll \in PollTask /\ poll.pc = "fetching"
        /\ UNCHANGED <<interval, budget, now, finish>>
    BY DEF PollEnds, ClockTypes
  <1>2. CASE \E outcome \in {"completed", "failed by poll"} :
               Settle(outcome) /\ poll' = [poll EXCEPT !.pc = "over"]
    <2>1. poll' \in PollTask /\ poll'.pc = "over" /\ poll'.runs = poll.runs
      BY <1>1, <1>2 DEF PollTask
    <2>2. /\ report' \in {"running", "completed", "failed by poll", "failed by finish"}
          /\ report' # "running"
          /\ report' = "failed by finish" => report = "failed by finish"
      BY <1>2 DEF Settle, ClockTypes
    <2> QED
      BY <1>1, <2>1, <2>2 DEF ClockTypes, Settings
  <1>3. CASE now < Deadline /\ poll' = [poll EXCEPT !.pc = "queued", !.due = now + interval]
             /\ UNCHANGED report
    <2> DEFINE due == now + interval
    <2>1. due \in Nat
      BY Fields
    <2> HIDE DEF due
    <2>2. poll' = [poll EXCEPT !.pc = "queued", !.due = due]
      BY <1>3 DEF due
    <2>3. /\ poll' \in PollTask
          /\ poll'.pc = "queued" /\ poll'.due = due /\ poll'.runs = poll.runs
      BY <1>1, <2>1, <2>2 DEF PollTask
    <2>4. now < budget /\ report' = report
      BY <1>3 DEF Deadline
    <2> QED
      BY <1>1, <2>3, <2>4 DEF ClockTypes, Settings, due
  <1>4. CASE poll' = [poll EXCEPT !.pc = "broken"] /\ UNCHANGED report
    <2>1. poll' \in PollTask /\ poll'.pc = "broken" /\ poll'.runs = poll.runs
      BY <1>1, <1>4 DEF PollTask
    <2> QED
      BY <1>1, <1>4, <2>1 DEF ClockTypes, Settings
  <1> QED
    BY <1>2, <1>3, <1>4 DEF PollEnds

(* A check that goes on, or closes the audit, with or without giving up. *)
LEMMA FinishFields ==
    ASSUME ClockTypes, FinishChecks
    PROVE  /\ ClockTypes' /\ UNCHANGED <<interval, budget, now, poll>>
           /\ finish.pc = "queued" /\ now >= finish.at /\ finish'.start = finish.start
           /\ \/ finish'.pc = "closed" /\ finish'.attempt = finish.attempt
                 /\ \/ report # "running" /\ report' = report
                    \/ /\ report = "running" /\ report' = "failed by finish"
                       /\ ~ChecksAgain(finish.attempt)
              \/ /\ ChecksAgain(finish.attempt) /\ report' = report /\ finish'.pc = "queued"
                 /\ finish'.at = now + interval /\ finish'.attempt = finish.attempt + 1
  <1>1. /\ finish \in FinishTask /\ finish.pc = "queued" /\ now >= finish.at
        /\ UNCHANGED <<interval, budget, now, poll>>
    BY DEF FinishChecks, ClockTypes
  <1> DEFINE again == ChecksAgain(finish.attempt)
  <1> HIDE DEF again
  <1>2. CASE /\ finish' = [finish EXCEPT !.pc = "closed"]
             /\ \/ report # "running" /\ report' = report
                \/ report = "running" /\ report' = "failed by finish" /\ ~again
    <2>1. /\ finish' \in FinishTask /\ finish'.pc = "closed"
          /\ finish'.attempt = finish.attempt /\ finish'.start = finish.start
      BY <1>1, <1>2 DEF FinishTask
    <2>2. ClockTypes'
      BY <1>1, <1>2, <2>1 DEF ClockTypes, Settings
    <2> QED
      BY <1>1, <1>2, <2>1, <2>2 DEF again
  <1>3. CASE /\ finish' = [finish EXCEPT !.at = now + interval, !.attempt = @ + 1]
             /\ again /\ report' = report
    <2> DEFINE at == now + interval
               attempt == finish.attempt + 1
    <2>1. at \in Nat /\ attempt \in Nat
      BY Fields
    <2> HIDE DEF at, attempt
    <2>2. finish' = [finish EXCEPT !.at = at, !.attempt = attempt]
      BY <1>3 DEF at, attempt
    <2>3. /\ finish' \in FinishTask /\ finish'.pc = "queued" /\ finish'.at = at
          /\ finish'.attempt = attempt /\ finish'.start = finish.start
      BY <1>1, <2>1, <2>2 DEF FinishTask
    <2>4. ClockTypes'
      BY <1>1, <1>3, <2>3 DEF ClockTypes, Settings
    <2> QED
      BY <1>1, <1>3, <2>3, <2>4 DEF again, at, attempt
  <1> QED
    BY <1>2, <1>3 DEF FinishChecks, again

(* The bounds of the next check. *)
LEMMA NextCheck ==
    ASSUME ClockTypes, FinishChecks, finish'.pc = "queued"
    PROVE  /\ finish.attempt <= LastCount /\ LastCount' = LastCount
           /\ LatestCheck' = LatestCheck + interval + Latency
           /\ EarliestCheck' = EarliestCheck + interval
  <1> DEFINE n == finish.attempt
             x == interval + Latency
  <1>1. /\ ChecksAgain(n) /\ UNCHANGED <<interval, budget>>
        /\ finish'.start = finish.start /\ finish'.attempt = n + 1
    BY FinishFields
  <1>2. /\ n \in Nat /\ x \in Nat /\ interval \in Nat \ {0} /\ budget \in Nat
        /\ finish.start \in Nat /\ Latency \in Nat
    BY Fields
  <1>3. n <= LastCount
    <2>1. n * interval <= budget + interval /\ budget + interval \in Nat
      BY <1>1, <1>2 DEF ChecksAgain
    <2> QED
      BY <1>2, <2>1, Quotient DEF LastCount
  <1>4. LastCount' = LastCount
    BY <1>1 DEF LastCount
  <1> HIDE DEF n
  <1>5. (n + 1) * x = n * x + x /\ n * x \in Nat
        /\ (n + 1) * interval = n * interval + interval /\ n * interval \in Nat
    BY <1>2
  <1>6. LatestCheck = finish.start + n * x /\ LatestCheck' = finish.start + (n + 1) * x
        /\ EarliestCheck = finish.start + n * interval
        /\ EarliestCheck' = finish.start + (n + 1) * interval
    BY <1>1 DEF LatestCheck, EarliestCheck, n
  <1> QED
    BY <1>2, <1>3, <1>4, <1>5, <1>6 DEF n

(* Every step keeps the types, the settings and the start of the count. *)
LEMMA ClockTypesStep ==
    ASSUME ClockTypes, [PollNext]_pollVars
    PROVE  ClockTypes' /\ UNCHANGED <<interval, budget>> /\ finish'.start = finish.start
  <1>1. CASE SecondPasses
    <2>1. UNCHANGED <<interval, budget, poll, finish, report>> /\ now' = now + 1
      BY <1>1 DEF SecondPasses
    <2>2. Settings'
      BY <2>1, Fields DEF Settings
    <2> QED
      BY <2>1, <2>2 DEF ClockTypes
  <1>2. CASE UNCHANGED pollVars
    BY <1>2 DEF ClockTypes, Settings, pollVars
  <1> QED
    BY <1>1, <1>2, PollStartsFields, PollEndsFields, LosePollFields, FinishFields DEF PollNext

-------------------------------------------------------------------------------
(* Each clock keeps its pace, and the checks come in time. *)
LEMMA ClockStep ==
    ASSUME ClockInv, [PollNext]_pollVars
    PROVE  ClockInv'
  <1>0. ClockTypes /\ Paced /\ NoSpinning /\ FinishInTime /\ ClockTypes'
    BY ClockTypesStep DEF ClockInv
  <1>1. CASE SecondPasses
    <2>1. Paced' /\ NoSpinning'
      BY <1>0, <1>1, Fields DEF Paced, NoSpinning, SecondPasses
    <2>2. FinishInTime'
      BY <1>0, <1>1, Fields, FinishRests DEF FinishInTime, SecondPasses, Punctual
    <2> QED
      BY <1>0, <2>1, <2>2 DEF ClockInv
  <1>2. CASE PollStarts
    <2>1. Paced' /\ NoSpinning'
      BY <1>0, <1>2, Fields, PollStartsFields DEF Paced, NoSpinning
    <2>2. FinishInTime'
      BY <1>0, <1>2, FinishRests, PollStartsFields DEF FinishInTime
    <2> QED
      BY <1>0, <2>1, <2>2 DEF ClockInv
  <1>3. CASE PollEnds
    <2>1. Paced'
      <3>1. /\ poll'.pc # "queued" \/ poll'.due = now + interval
            /\ poll'.runs = poll.runs /\ UNCHANGED finish
        BY <1>0, <1>3, PollEndsFields
      <3>2. poll.runs < now + interval
        BY <1>0, Fields DEF NoSpinning
      <3> QED
        BY <1>0, <3>1, <3>2 DEF Paced
    <2>2. NoSpinning' /\ FinishInTime'
      BY <1>0, <1>3, FinishRests, PollEndsFields DEF NoSpinning, FinishInTime
    <2> QED
      BY <1>0, <2>1, <2>2 DEF ClockInv
  <1>4. CASE LosePoll
    BY <1>0, <1>4, FinishRests, LosePollFields DEF ClockInv, Paced, NoSpinning, FinishInTime
  <1>5. CASE FinishChecks
    <2>0. /\ UNCHANGED <<now, poll>> /\ finish.pc = "queued" /\ now >= finish.at
          /\ finish'.start = finish.start
      BY <1>0, <1>5, FinishFields
    <2>1. Paced' /\ NoSpinning'
      <3>1. CASE finish'.pc # "queued"
        <4>1. finish'.attempt = finish.attempt
          BY <1>0, <1>5, <3>1, FinishFields
        <4> QED
          BY <1>0, <2>0, <3>1, <4>1 DEF Paced, NoSpinning
      <3>2. CASE finish'.pc = "queued"
        <4>1. finish'.attempt = finish.attempt + 1 /\ finish'.at = now + interval
          BY <1>0, <1>5, <3>2, FinishFields
        <4>2. finish.start + finish.attempt <= now
          BY <1>0, <2>0, Fields DEF Paced
        <4>3. finish.start + (finish.attempt + 1) <= now + interval
          BY <1>0, <4>2, Fields
        <4>4. finish.attempt + 1 <= now - finish.start + 1
          BY <1>0, <4>2, Fields
        <4> QED
          BY <1>0, <2>0, <4>1, <4>3, <4>4 DEF Paced, NoSpinning
      <3> QED
        BY <3>1, <3>2
    <2>2. CASE finish'.pc = "queued"
      <3>1. /\ finish'.attempt = finish.attempt + 1 /\ finish'.at = now + interval /\ now' = now
            /\ finish.pc = "queued"
        BY <1>0, <1>5, <2>2, FinishFields
      <3>2. FinishInTime'
        BY <1>0, <1>5, <2>2, <3>1, Fields, NextCheck DEF FinishInTime
      <3> QED
        BY <1>0, <2>1, <3>2 DEF ClockInv
    <2> QED
      BY <1>0, <2>1, <2>2 DEF ClockInv, FinishInTime
  <1>6. CASE UNCHANGED pollVars
    BY <1>0, <1>6, FinishRests DEF pollVars, ClockInv, Paced, NoSpinning, FinishInTime
  <1> QED
    BY <1>1, <1>2, <1>3, <1>4, <1>5, <1>6 DEF PollNext

(* What is known of both clocks, whatever the settings and the delays. *)
THEOREM ClockInvariance ==
    ASSUME NEW CONSTANT starts, starts \in SUBSET Nat
    PROVE  PollSpec(starts) => []ClockInv
  <1>1. PollInit(Configured, starts) => ClockInv
    <2> SUFFICES ASSUME PollInit(Configured, starts) PROVE ClockInv
      OBVIOUS
    <2>1. ClockTypes
      BY InitClockTypes
    <2> QED
      BY <2>1, InitClockTypes, Fields DEF ClockInv, Paced, NoSpinning, FinishInTime
  <1>2. ClockInv /\ [PollNext]_pollVars => ClockInv'
    BY ClockStep
  <1> QED
    BY <1>1, <1>2, PTL DEF PollSpec

(* Each task has run no more often than seconds have passed, for every setting. *)
THEOREM PausesCorrect ==
    ASSUME NEW CONSTANT starts, starts \in SUBSET Nat
    PROVE  PollSpec(starts) => []NoSpinning
  <1>1. ClockInv => NoSpinning
    BY DEF ClockInv
  <1> QED
    BY <1>1, ClockInvariance, PTL

(* finish_audit stops re-checking in time, for every setting and every delay. *)
THEOREM GivesUpInTime ==
    ASSUME NEW CONSTANT starts, starts \in SUBSET Nat
    PROVE  PollSpec(starts) => []ClosedInTime
  <1>1. ClockInv => ClosedInTime
    <2> SUFFICES ASSUME ClockInv, finish.pc = "queued"
                 PROVE  ClosedInTime
      BY DEF ClosedInTime
    <2> DEFINE n == finish.attempt
               x == interval + Latency
               q == LastCount
    <2>1. /\ n \in Nat /\ x \in Nat /\ q \in Nat /\ now \in Nat /\ finish.at \in Nat
          /\ finish.start \in Nat /\ Latency \in Nat
      BY Fields DEF ClockInv
    <2>2. n <= q + 1 /\ finish.at <= finish.start + n * x /\ now <= finish.at + Latency
      BY DEF ClockInv, FinishInTime, LatestCheck
    <2> HIDE DEF n, x, q
    <2>3. n * x <= (q + 1) * x /\ n * x \in Nat /\ (q + 1) * x \in Nat
      BY <2>1, <2>2
    <2>4. now <= finish.start + Latency + (q + 1) * x
      BY <2>1, <2>2, <2>3
    <2> QED
      BY <2>4, Zenon DEF ClosedInTime, q, x, LastCount
  <1> QED
    BY <1>1, ClockInvariance, PTL

-------------------------------------------------------------------------------
(* A check that gives up comes late for any poll that is still to answer. *)
LEMMA GivesUpLate ==
    ASSUME LateInv, FinishChecks, ~ChecksAgain(finish.attempt), report = "running"
    PROVE  \/ poll.pc \in {"lost", "broken"}
           \/ poll.pc \in {"queued", "fetching"} /\ now > poll.due + finish.start + 1
  <1>0. ClockTypes
    BY DEF LateInv
  <1> DEFINE e == finish.attempt * interval
  <1>1. e \in Nat /\ e > budget + interval
    <2>1. \A x \in Nat, y \in Nat : x * y \in Nat
      OBVIOUS
    <2>2. e \in Nat /\ budget + interval \in Nat
      BY <1>0, <2>1, Fields
    <2> QED
      BY <2>2 DEF ChecksAgain
  <1>2. finish.start + e <= now
    <2>1. finish.start + e = EarliestCheck
      BY DEF EarliestCheck
    <2>2. EarliestCheck <= finish.at /\ finish.at <= now
      BY <1>0, FinishFields DEF LateInv, FinishNotEarly
    <2> HIDE DEF e
    <2> QED
      BY <1>0, <1>1, <2>1, <2>2, Fields
  <1> HIDE DEF e
  <1>3. now >= finish.start + budget + interval + 1
    BY <1>0, <1>1, <1>2, Fields
  <1>4. poll.pc \in {"queued", "fetching"} => now > poll.due + finish.start + 1
    BY <1>0, <1>3, Fields DEF LateInv, DueInTime
  <1> QED
    BY <1>0, <1>4, Fields DEF LateInv, PollSettles

(* Both clocks keep to what that lemma needs of them. *)
LEMMA LateStep ==
    ASSUME LateInv, [PollNext]_pollVars
    PROVE  LateInv'
  <1>0. ClockTypes /\ DueInTime /\ FinishNotEarly /\ PollSettles /\ ClockTypes'
    BY ClockTypesStep DEF LateInv
  <1>1. CASE SecondPasses
    BY <1>0, <1>1, FinishRests DEF LateInv, DueInTime, FinishNotEarly, PollSettles, SecondPasses
  <1>2. CASE PollStarts
    BY <1>0, <1>2, FinishRests, PollStartsFields DEF LateInv, DueInTime, FinishNotEarly, PollSettles
  <1>3. CASE PollEnds
    <2>1. DueInTime'
      <3>1. /\ UNCHANGED <<interval, budget>> /\ poll'.pc # "fetching"
            /\ poll'.pc = "queued" => now < budget /\ poll'.due = now + interval
        BY <1>0, <1>3, PollEndsFields
      <3>2. now < budget => now + interval < budget + interval
        BY <1>0, Fields
      <3> QED
        BY <3>1, <3>2 DEF DueInTime
    <2>2. FinishNotEarly' /\ PollSettles'
      BY <1>0, <1>3, FinishRests, PollEndsFields DEF FinishNotEarly, PollSettles
    <2> QED
      BY <1>0, <2>1, <2>2 DEF LateInv
  <1>4. CASE LosePoll
    BY <1>0, <1>4, FinishRests, LosePollFields DEF LateInv, DueInTime, FinishNotEarly, PollSettles
  <1>5. CASE FinishChecks
    <2>1. UNCHANGED <<interval, budget, now, poll>> /\ finish.pc = "queued" /\ now >= finish.at
      BY <1>0, <1>5, FinishFields
    <2>2. FinishNotEarly'
      <3>1. CASE finish'.pc = "queued"
        <4>1. finish'.at = now + interval
          BY <1>0, <1>5, <3>1, FinishFields
        <4>2. EarliestCheck' = EarliestCheck + interval
          BY <1>0, <1>5, <3>1, NextCheck
        <4> QED
          BY <1>0, <2>1, <4>1, <4>2, Fields DEF FinishNotEarly
      <3> QED
        BY <3>1 DEF FinishNotEarly
    <2>3. report' # report => report' = "failed by finish"
      BY <1>0, <1>5, FinishFields
    <2> QED
      BY <1>0, <2>1, <2>2, <2>3 DEF LateInv, DueInTime, PollSettles
  <1>6. CASE UNCHANGED pollVars
    BY <1>0, <1>6, FinishRests DEF pollVars, LateInv, DueInTime, FinishNotEarly, PollSettles
  <1> QED
    BY <1>1, <1>2, <1>3, <1>4, <1>5, <1>6 DEF PollNext

(* finish_audit fails the report of no poll that is not lost, broken or late, for every
   setting, every latency, every duration of a fetch and every start of the count. *)
THEOREM OnlyLateCorrect ==
    ASSUME NEW CONSTANT starts, starts \in SUBSET Nat
    PROVE  PollSpec(starts) => OnlyLatePollsAreFailed
  <1> DEFINE Late ==
        report # "failed by finish" /\ report' = "failed by finish" =>
            \/ poll.pc \in {"lost", "broken"}
            \/ poll.pc \in {"queued", "fetching"} /\ now > poll.due + finish.start + 1
  <1>1. PollInit(Configured, starts) => LateInv
    <2> SUFFICES ASSUME PollInit(Configured, starts) PROVE LateInv
      OBVIOUS
    <2>1. ClockTypes
      BY InitClockTypes
    <2> QED
      BY <2>1, InitClockTypes, Fields DEF LateInv, DueInTime, FinishNotEarly, PollSettles
  <1>2. LateInv /\ [PollNext]_pollVars => LateInv'
    BY LateStep
  <1>3. ASSUME LateInv, [PollNext]_pollVars PROVE Late
    <2>0. ClockTypes
      BY <1>3 DEF LateInv
    <2>1. CASE SecondPasses \/ UNCHANGED pollVars
      BY <2>1 DEF SecondPasses, pollVars
    <2>2. CASE PollStarts \/ LosePoll \/ PollEnds
      BY <2>0, <2>2, PollStartsFields, LosePollFields, PollEndsFields
    <2>3. CASE FinishChecks
      BY <1>3, <2>0, <2>3, FinishFields, GivesUpLate
    <2> QED
      BY <1>3, <2>1, <2>2, <2>3 DEF PollNext
  <1>4. LateInv /\ [PollNext]_pollVars => [Late]_pollVars
    BY <1>3
  <1> QED
    BY <1>1, <1>2, <1>4, PTL DEF PollSpec, OnlyLatePollsAreFailed

-------------------------------------------------------------------------------
(* The key probes (KeyProbe).                                                  *)

ProbeTypes ==
    /\ source \in {"lighthouse", "urlscan"} /\ recording \in BOOLEAN /\ row \in KeyRow
    /\ accepted \subseteq Keys /\ rejectedFor \in [Keys -> Nat]
    /\ cached \in [Keys -> 0..CacheTtl] /\ check \in [Checkers -> Check]

(* A cache entry dies before the key was rejected for longer than the lifetime. *)
CacheIsFresh ==
    \A k \in Keys : cached[k] > 0 => k \in accepted \/ rejectedFor[k] + cached[k] <= CacheTtl

(* What a check has found out, as far as nobody edited the row since. *)
KnowsConfig(c) ==
    check[c].pc = "key" =>
        /\ recording => check[c].config = "recording"
        /\ "row" \notin check[c].changed /\ ~recording /\ ~HasKey => check[c].config = "key_missing"

KnowsKey(c) ==
    check[c].pc \in {"cache", "call", "store"} =>
        /\ ~recording
        /\ "row" \notin check[c].changed => HasKey /\ row.key = check[c].key

KnowsAnswer(c) ==
    check[c].pc = "store" => check[c].key \in accepted \/ rejectedFor[check[c].key] = 0

Knows(c) == KnowsConfig(c) /\ KnowsKey(c) /\ KnowsAnswer(c)

ProbeInv == ProbeTypes /\ CacheIsFresh /\ \A c \in Checkers : Knows(c)

-------------------------------------------------------------------------------
(* There is a key to put into an idle check. *)
LEMMA IdleType == AnyKey \in Keys /\ Idle \in Check /\ Idle.pc = "over"
  <1>1. AnyKey \in Keys
    BY ProbeConstants DEF AnyKey
  <1> QED
    BY <1>1 DEF Idle, Check, SourceStatus

(* Only an accepted key is answered in a way that counts as configured. *)
LEMMA ConfiguredIsAccepted ==
    ASSUME ProbeTypes, NEW k \in Keys, NEW answer \in Answers(k), Verdict(answer) = "configured"
    PROVE  k \in accepted
  BY DEF ProbeTypes, Answers, Verdict, AcceptedStatuses, NoResponse, Status

(* A step of checker c that leaves all but its check alone, and what it must see to. *)
LEMMA CheckerStep ==
    ASSUME ProbeInv, NEW c \in Checkers, NEW new \in Check,
           check' = [check EXCEPT ![c] = new],
           UNCHANGED <<source, recording, row, accepted, rejectedFor, cached>>,
           Knows(c)'
    PROVE  ProbeInv'
  <1>1. ProbeTypes' /\ CacheIsFresh'
    BY DEF ProbeInv, ProbeTypes, CacheIsFresh
  <1>2. ASSUME NEW d \in Checkers, d # c
        PROVE  Knows(d)'
    <2>1. check'[d] = check[d] /\ Knows(d)
      BY <1>2 DEF ProbeInv, ProbeTypes
    <2> QED
      BY <2>1 DEF Knows, KnowsConfig, KnowsKey, KnowsAnswer, HasKey
  <1> QED
    BY <1>1, <1>2 DEF ProbeInv

(* A check leaves the other checks alone, and the row with them. *)
LEMMA OthersStay ==
    ASSUME ProbeInv, NEW c \in Checkers, NEW d \in Checkers, d # c, CheckStep(d)
    PROVE  check'[c] = check[c] /\ UNCHANGED <<recording, row>>
  <1>1. UNCHANGED <<recording, row>>
    BY DEF CheckStep, BeginCheck, SourcesConfigured, CheckRaises, ReadKey, ReadCache, CallProvider,
           Store, BackendFails
  <1>2. ASSUME NEW new, check' = [check EXCEPT ![d] = new]
        PROVE  check'[c] = check[c]
    BY <1>2 DEF ProbeInv, ProbeTypes
  <1>3. ASSUME NEW config, NEW state, NEW trouble, Over(d, config, state, trouble)
        PROVE  check'[c] = check[c]
    BY <1>2, <1>3 DEF Over
  <1>4. ASSUME NEW state, Conclude(d, state)
        PROVE  check'[c] = check[c]
    BY <1>3, <1>4 DEF Conclude
  <1>5. CASE SourcesConfigured(d)
    BY <1>2, <1>3, <1>5 DEF SourcesConfigured
  <1>6. CASE CheckRaises(d) \/ BackendFails(d) \/ Store(d)
    BY <1>3, <1>4, <1>6 DEF CheckRaises, BackendFails, Store
  <1>7. CASE ReadKey(d)
    BY <1>2, <1>4, <1>7 DEF ReadKey
  <1>8. CASE ReadCache(d)
    BY <1>2, <1>4, <1>8 DEF ReadCache
  <1>9. CASE \E answer \in Answers(check[d].key) : CallProvider(d, answer)
    <2>1. PICK answer \in Answers(check[d].key) : CallProvider(d, answer)
      BY <1>9
    <2>2. CASE Verdict(answer) = "configured"
      BY <1>2, <2>1, <2>2 DEF CallProvider
    <2>3. CASE Verdict(answer) # "configured"
      BY <1>3, <2>1, <2>3 DEF CallProvider
    <2> QED
      BY <2>2, <2>3
  <1>10. CASE \E ready \in BOOLEAN : BeginCheck(d, ready)
    BY <1>2, <1>10 DEF BeginCheck
  <1> QED
    BY <1>1, <1>5, <1>6, <1>7, <1>8, <1>9, <1>10 DEF CheckStep

(* The end of a check leaves nothing to know. *)
LEMMA OverStep ==
    ASSUME ProbeInv, NEW c \in Checkers,
           NEW config \in {"nothing", "recording", "key_missing", "raised"},
           NEW state \in SourceStatus \cup {"not_probed"}, NEW trouble \in BOOLEAN,
           Over(c, config, state, trouble),
           UNCHANGED <<source, recording, row, accepted, rejectedFor, cached>>
    PROVE  ProbeInv'
  <1> DEFINE new == [Idle EXCEPT !.ready = check[c].ready, !.config = config,
                                 !.state = state, !.trouble = trouble]
  <1>1. check[c] \in Check
    BY DEF ProbeInv, ProbeTypes
  <1>2. new \in Check /\ new.pc = "over"
    BY <1>1, IdleType DEF Check, Idle
  <1>3. check' = [check EXCEPT ![c] = new]
    BY DEF Over
  <1>4. check'[c] = new
    BY <1>3 DEF ProbeInv, ProbeTypes
  <1>5. Knows(c)'
    BY <1>2, <1>4 DEF Knows, KnowsConfig, KnowsKey, KnowsAnswer
  <1> HIDE DEF new
  <1> QED
    BY <1>2, <1>3, <1>5, CheckerStep

(* The steps of a checker, but for Store, keep the invariant. *)
LEMMA CheckStepInvariance ==
    ASSUME ProbeInv, NEW c \in Checkers, CheckStep(c), ~Store(c)
    PROVE  ProbeInv'
  <1> USE DEF Conclude
  <1>0. check[c] \in Check /\ Knows(c) /\ c \in DOMAIN check
    BY DEF ProbeInv, ProbeTypes
  <1>1. ASSUME NEW ready \in BOOLEAN, BeginCheck(c, ready)
        PROVE  ProbeInv'
    <2> DEFINE new == [Idle EXCEPT !.pc = "config", !.ready = ready]
    <2>1. new \in Check /\ new.pc = "config"
      BY IdleType DEF Check, Idle
    <2>2. check' = [check EXCEPT ![c] = new] /\ check'[c] = new
      BY <1>0, <1>1 DEF BeginCheck
    <2>3. Knows(c)'
      BY <2>1, <2>2 DEF Knows, KnowsConfig, KnowsKey, KnowsAnswer
    <2> HIDE DEF new
    <2> QED
      BY <1>1, <2>1, <2>2, <2>3, CheckerStep DEF BeginCheck
  <1>2. CASE SourcesConfigured(c)
    <2> DEFINE config == IF recording THEN "recording"
                         ELSE IF check[c].ready /\ ~HasKey THEN "key_missing" ELSE "nothing"
               new == [check[c] EXCEPT !.pc = "key", !.config = config]
    <2>1. config \in {"nothing", "recording", "key_missing", "raised"}
      OBVIOUS
    <2>2. CASE check[c].ready
      <3>1. new \in Check /\ new.pc = "key" /\ new.config = config /\ new.changed = check[c].changed
        BY <1>0, <2>1 DEF Check
      <3>2. check' = [check EXCEPT ![c] = new] /\ check'[c] = new
        BY <1>0, <1>2, <2>2 DEF SourcesConfigured
      <3>3. UNCHANGED <<source, recording, row, accepted, rejectedFor, cached>>
        BY <1>2 DEF SourcesConfigured
      <3>4. Knows(c)'
        BY <2>2, <3>1, <3>2, <3>3 DEF Knows, KnowsConfig, KnowsKey, KnowsAnswer, HasKey
      <3> HIDE DEF new
      <3> QED
        BY <3>1, <3>2, <3>3, <3>4, CheckerStep
    <2>3. CASE ~check[c].ready
      <3>1. Over(c, config, "not_probed", FALSE)
            /\ UNCHANGED <<source, recording, row, accepted, rejectedFor, cached>>
        BY <1>2, <2>3 DEF SourcesConfigured
      <3> HIDE DEF config
      <3> QED
        BY <2>1, <3>1, OverStep
    <2> QED
      BY <2>2, <2>3
  <1>3. CASE CheckRaises(c)
    BY <1>3, OverStep DEF CheckRaises
  <1>4. CASE ReadKey(c)
    <2>1. check[c].config \in {"nothing", "recording", "key_missing", "raised"}
      BY <1>0 DEF Check
    <2>2. CASE recording
      BY <1>4, <2>1, <2>2, OverStep DEF ReadKey, SourceStatus
    <2>3. CASE ~recording /\ ~HasKey
      BY <1>4, <2>1, <2>3, OverStep DEF ReadKey, SourceStatus
    <2>4. CASE ~recording /\ HasKey
      <3> DEFINE new == [check[c] EXCEPT !.pc = "cache", !.key = row.key]
      <3>1. new \in Check /\ new.pc = "cache" /\ new.key = row.key
        BY <1>0 DEF Check, ProbeInv, ProbeTypes, KeyRow
      <3>2. check' = [check EXCEPT ![c] = new] /\ check'[c] = new
        BY <1>0, <1>4, <2>4 DEF ReadKey
      <3>3. UNCHANGED <<source, recording, row, accepted, rejectedFor, cached>>
        BY <1>4 DEF ReadKey
      <3>4. Knows(c)'
        BY <2>4, <3>1, <3>2, <3>3 DEF Knows, KnowsConfig, KnowsKey, KnowsAnswer, HasKey
      <3> HIDE DEF new
      <3> QED
        BY <3>1, <3>2, <3>3, <3>4, CheckerStep
    <2> QED
      BY <2>2, <2>3, <2>4
  <1>5. CASE ReadCache(c)
    <2>1. check[c].config \in {"nothing", "recording", "key_missing", "raised"}
      BY <1>0 DEF Check
    <2>2. CASE cached[Fingerprint(check[c].key)] > 0
      BY <1>5, <2>1, <2>2, OverStep DEF ReadCache, SourceStatus
    <2>3. CASE ~(cached[Fingerprint(check[c].key)] > 0)
      <3> DEFINE new == [check[c] EXCEPT !.pc = "call"]
      <3>1. new \in Check /\ new.pc = "call" /\ new.key = check[c].key
            /\ new.changed = check[c].changed
        BY <1>0 DEF Check
      <3>2. check' = [check EXCEPT ![c] = new] /\ check'[c] = new
        BY <1>0, <1>5, <2>3 DEF ReadCache
      <3>3. UNCHANGED <<source, recording, row, accepted, rejectedFor, cached>>
            /\ check[c].pc = "cache"
        BY <1>5 DEF ReadCache
      <3>4. Knows(c)'
        BY <1>0, <3>1, <3>2, <3>3 DEF Knows, KnowsConfig, KnowsKey, KnowsAnswer, HasKey
      <3> HIDE DEF new
      <3> QED
        BY <3>1, <3>2, <3>3, <3>4, CheckerStep
    <2> QED
      BY <2>2, <2>3
  <1>6. ASSUME NEW answer \in Answers(check[c].key), CallProvider(c, answer)
        PROVE  ProbeInv'
    <2>1. check[c].config \in {"nothing", "recording", "key_missing", "raised"}
          /\ check[c].key \in Keys
      BY <1>0 DEF Check
    <2>2. CASE Verdict(answer) # "configured"
      <3>1. Verdict(answer) \in SourceStatus
        BY DEF Verdict, SourceStatus
      <3> DEFINE trouble == answer.status \in {0, 302, 503}
                 state == Verdict(answer)
      <3>2. trouble \in BOOLEAN
        OBVIOUS
      <3>3. Over(c, check[c].config, state, trouble)
            /\ UNCHANGED <<source, recording, row, accepted, rejectedFor, cached>>
        BY <1>6, <2>2 DEF CallProvider
      <3> HIDE DEF trouble, state
      <3> QED
        BY <2>1, <3>1, <3>2, <3>3, OverStep DEF state
    <2>3. CASE Verdict(answer) = "configured"
      <3> DEFINE new == [check[c] EXCEPT !.pc = "store"]
      <3>1. new \in Check /\ new.pc = "store" /\ new.key = check[c].key
            /\ new.changed = check[c].changed
        BY <1>0 DEF Check
      <3>2. check' = [check EXCEPT ![c] = new] /\ check'[c] = new
        BY <1>0, <1>6, <2>3 DEF CallProvider
      <3>3. UNCHANGED <<source, recording, row, accepted, rejectedFor, cached>>
            /\ check[c].pc = "call"
        BY <1>6 DEF CallProvider
      <3>4. check[c].key \in accepted
        BY <2>1, <2>3, ConfiguredIsAccepted DEF ProbeInv
      <3> HIDE DEF new
      <3>5. KnowsConfig(c)' /\ KnowsKey(c)'
        BY <1>0, <3>1, <3>2, <3>3 DEF Knows, KnowsConfig, KnowsKey, HasKey
      <3>6. KnowsAnswer(c)'
        BY <3>1, <3>2, <3>3, <3>4 DEF KnowsAnswer
      <3>7. Knows(c)'
        BY <3>5, <3>6 DEF Knows
      <3> QED
        BY <3>1, <3>2, <3>3, <3>7, CheckerStep
    <2> QED
      BY <2>2, <2>3
  <1>7. CASE BackendFails(c)
    <2>1. check[c].config \in {"nothing", "recording", "key_missing", "raised"}
      BY <1>0 DEF Check
    <2> QED
      BY <1>7, <2>1, OverStep DEF BackendFails, SourceStatus
  <1> QED
    BY <1>1, <1>2, <1>3, <1>4, <1>5, <1>6, <1>7 DEF CheckStep

(* Store puts the key in the cache for as long as it was just accepted. *)
LEMMA StoreInvariance ==
    ASSUME ProbeInv, NEW c \in Checkers, Store(c)
    PROVE  ProbeInv'
  <1> DEFINE k == check[c].key
             new == [Idle EXCEPT !.ready = check[c].ready, !.config = check[c].config,
                                 !.state = "configured", !.trouble = FALSE]
  <1>0. check[c] \in Check /\ Knows(c) /\ k \in Keys /\ check[c].pc = "store"
    BY DEF ProbeInv, ProbeTypes, Check, Store
  <1>1. new \in Check /\ new.pc = "over"
    BY <1>0, IdleType DEF Check, Idle, SourceStatus
  <1>2. /\ check' = [check EXCEPT ![c] = new]
        /\ cached' = [cached EXCEPT ![k] = CacheTtl]
        /\ UNCHANGED <<source, recording, row, accepted, rejectedFor>>
    BY DEF Store, Conclude, Over, Fingerprint
  <1>3. k \in accepted \/ rejectedFor[k] = 0
    BY <1>0 DEF Knows, KnowsAnswer
  <1> HIDE DEF new
  <1>4. ProbeTypes'
    BY <1>0, <1>1, <1>2, ProbeConstants DEF ProbeInv, ProbeTypes
  <1>5. CacheIsFresh'
    BY <1>0, <1>2, <1>3, ProbeConstants DEF ProbeInv, ProbeTypes, CacheIsFresh
  <1>6. ASSUME NEW d \in Checkers
        PROVE  Knows(d)'
    <2>1. CASE d = c
      BY <1>1, <1>2, <2>1 DEF ProbeInv, ProbeTypes, Knows, KnowsConfig, KnowsKey, KnowsAnswer
    <2>2. CASE d # c
      <3>1. check'[d] = check[d] /\ Knows(d)
        BY <1>2, <2>2 DEF ProbeInv, ProbeTypes
      <3> QED
        BY <1>2, <3>1 DEF Knows, KnowsConfig, KnowsKey, KnowsAnswer, HasKey
    <2> QED
      BY <2>1, <2>2
  <1> QED
    BY <1>4, <1>5, <1>6 DEF ProbeInv

(* A change is noticed by every check that is not over, and by nothing else of it. *)
LEMMA Noticed ==
    ASSUME ProbeInv, NEW what \in {"row", "provider"}, Notice(what)
    PROVE  /\ check' \in [Checkers -> Check]
           /\ \A c \in Checkers :
                /\ check'[c].pc = check[c].pc /\ check'[c].key = check[c].key
                /\ check'[c].config = check[c].config
                /\ check[c].pc # "over" => check'[c].changed = check[c].changed \cup {what}
  <1>1. ASSUME NEW c \in Checkers
        PROVE  /\ check'[c] \in Check
               /\ check'[c].pc = check[c].pc /\ check'[c].key = check[c].key
               /\ check'[c].config = check[c].config
               /\ check[c].pc # "over" => check'[c].changed = check[c].changed \cup {what}
    <2>1. check[c] \in Check
      BY DEF ProbeInv, ProbeTypes
    <2>2. check'[c] = IF check[c].pc = "over" THEN check[c]
                      ELSE [check[c] EXCEPT !.changed = @ \cup {what}]
      BY DEF Notice
    <2> QED
      BY <2>1, <2>2 DEF Check
  <1>2. check' = [c \in Checkers |-> check'[c]]
    BY DEF Notice
  <1> QED
    BY <1>1, <1>2

(* An edit spoils what a check knows of the row, and marks the check. *)
LEMMA EditInvariance ==
    ASSUME ProbeInv, NEW newRow \in KeyRow, Edit(newRow)
    PROVE  ProbeInv'
  <1>1. ProbeTypes' /\ CacheIsFresh'
    BY Noticed DEF ProbeInv, ProbeTypes, CacheIsFresh, Edit
  <1>2. ASSUME NEW c \in Checkers
        PROVE  Knows(c)'
    <2>1. /\ check'[c].pc = check[c].pc /\ check'[c].key = check[c].key
          /\ check'[c].config = check[c].config
          /\ check[c].pc # "over" => "row" \in check'[c].changed
      BY Noticed DEF Edit
    <2> QED
      BY <2>1 DEF ProbeInv, Knows, KnowsConfig, KnowsKey, KnowsAnswer, Edit
  <1> QED
    BY <1>1, <1>2 DEF ProbeInv

(* A key revoked now was not rejected for long. *)
LEMMA ProviderInvariance ==
    ASSUME ProbeInv, NEW k \in Keys, ChangeProvider(k)
    PROVE  ProbeInv'
  <1>1. ProbeTypes'
    BY Noticed DEF ProbeInv, ProbeTypes, ChangeProvider
  <1>2. CacheIsFresh'
    BY ProbeConstants DEF ProbeInv, ProbeTypes, CacheIsFresh, ChangeProvider
  <1>3. ASSUME NEW c \in Checkers
        PROVE  Knows(c)'
    <2>1. /\ check'[c].pc = check[c].pc /\ check'[c].key = check[c].key
          /\ check'[c].config = check[c].config
          /\ check[c].pc # "over" => check[c].changed \subseteq check'[c].changed
      BY Noticed DEF ChangeProvider
    <2>2. check[c].key \in Keys
      BY DEF ProbeInv, ProbeTypes, Check
    <2>3. KnowsConfig(c)' /\ KnowsKey(c)'
      BY <2>1 DEF ProbeInv, Knows, KnowsConfig, KnowsKey, HasKey, ChangeProvider
    <2>4. KnowsAnswer(c)'
      BY <2>1, <2>2 DEF ProbeInv, ProbeTypes, Knows, KnowsAnswer, ChangeProvider
    <2> QED
      BY <2>3, <2>4 DEF Knows
  <1> QED
    BY <1>1, <1>2, <1>3 DEF ProbeInv

(* A tick takes from an entry what it adds to the time of the rejection. *)
LEMMA TimeInvariance ==
    ASSUME ProbeInv, TimePasses
    PROVE  ProbeInv'
  <1>1. ProbeTypes'
    BY ProbeConstants DEF ProbeInv, ProbeTypes, TimePasses
  <1>2. CacheIsFresh'
    BY ProbeConstants DEF ProbeInv, ProbeTypes, CacheIsFresh, TimePasses
  <1>3. ASSUME NEW c \in Checkers
        PROVE  Knows(c)'
    BY DEF ProbeInv, Knows, KnowsConfig, KnowsKey, KnowsAnswer, HasKey, TimePasses
  <1> QED
    BY <1>1, <1>2, <1>3 DEF ProbeInv

(* What is known of keys, of the cache and of every check stays true. *)
THEOREM ProbeInvariance == ProbeSpec => []ProbeInv
  <1>1. ProbeInit({"lighthouse", "urlscan"}, BOOLEAN) => ProbeInv
    <2> SUFFICES ASSUME ProbeInit({"lighthouse", "urlscan"}, BOOLEAN)
                 PROVE  ProbeInv
      OBVIOUS
    <2>1. ProbeTypes
      BY IdleType, ProbeConstants DEF ProbeInit, ProbeTypes, KeyRow
    <2>2. CacheIsFresh
      BY ProbeConstants DEF ProbeInit, CacheIsFresh
    <2>3. \A c \in Checkers : Knows(c)
      BY IdleType DEF ProbeInit, Knows, KnowsConfig, KnowsKey, KnowsAnswer
    <2> QED
      BY <2>1, <2>2, <2>3 DEF ProbeInv
  <1>2. ProbeInv /\ [ProbeNext]_probeVars => ProbeInv'
    <2> SUFFICES ASSUME ProbeInv, [ProbeNext]_probeVars
                 PROVE  ProbeInv'
      OBVIOUS
    <2>1. ASSUME NEW c \in Checkers, CheckStep(c)
          PROVE  ProbeInv'
      BY <2>1, CheckStepInvariance, StoreInvariance
    <2>2. ASSUME NEW active \in BOOLEAN, SaveBlank(active)
          PROVE  ProbeInv'
      <3>1. [row EXCEPT !.active = active] \in KeyRow
        BY DEF ProbeInv, ProbeTypes, KeyRow
      <3> QED
        BY <2>2, <3>1, EditInvariance DEF SaveBlank
    <2>3. ASSUME NEW active \in BOOLEAN, NEW k \in Keys, SaveKey(active, k)
          PROVE  ProbeInv'
      <3>1. [stored |-> TRUE, active |-> active, key |-> k] \in KeyRow
        BY DEF KeyRow
      <3> QED
        BY <2>3, <3>1, EditInvariance DEF SaveKey
    <2>4. CASE DeleteKey
      <3>1. [stored |-> FALSE, key |-> AnyKey, active |-> TRUE] \in KeyRow
        BY IdleType DEF KeyRow
      <3> QED
        BY <2>4, <3>1, EditInvariance DEF DeleteKey
    <2>5. CASE TimePasses
      BY <2>5, TimeInvariance
    <2>6. ASSUME NEW k \in Keys, ChangeProvider(k)
          PROVE  ProbeInv'
      BY <2>6, ProviderInvariance
    <2>7. CASE UNCHANGED probeVars
      BY <2>7 DEF ProbeInv, ProbeTypes, CacheIsFresh, Knows, KnowsConfig, KnowsKey, KnowsAnswer, HasKey,
                  probeVars
    <2> QED
      BY <2>1, <2>2, <2>3, <2>4, <2>5, <2>6, <2>7 DEF ProbeNext
  <1> QED
    BY <1>1, <1>2, PTL DEF ProbeSpec

-------------------------------------------------------------------------------
(* A check that ends without a warning has got its answer from the cache or from the
   provider, and either speaks for the key that is there. *)
LEMMA SilentStep ==
    ASSUME ProbeInv, [ProbeNext]_probeVars, NEW c \in Checkers,
           check[c].pc # "over", Answered(c)', ~Warned(c)', "row" \notin check[c].changed
    PROVE  /\ ~recording /\ HasKey
           /\ row.key \in accepted \/ rejectedFor[row.key] <= CacheTtl
  <1> DEFINE Goal == /\ ~recording /\ HasKey
                     /\ row.key \in accepted \/ rejectedFor[row.key] <= CacheTtl
  <1>0. /\ check[c] \in Check /\ Knows(c) /\ c \in DOMAIN check
        /\ check'[c].pc = "over" /\ check'[c].ready
        /\ check'[c].config = "nothing" /\ check'[c].state \notin ProbeFailures
    BY DEF ProbeInv, ProbeTypes, Answered, Warned
  (* Only a step of c itself ends its check. *)
  <1>1. CASE CheckStep(c)
    <2>1. ASSUME NEW config, NEW state, NEW trouble, Over(c, config, state, trouble)
          PROVE  config = "nothing" /\ state \notin ProbeFailures /\ check[c].ready
      <3>1. check'[c] = [Idle EXCEPT !.ready = check[c].ready, !.config = config,
                                     !.state = state, !.trouble = trouble]
        BY <1>0, <2>1 DEF Over
      <3>2. check'[c].config = config /\ check'[c].state = state
            /\ check'[c].ready = check[c].ready
        BY <3>1 DEF Idle
      <3> QED
        BY <1>0, <3>2
    <2>2. ASSUME NEW new \in Check, check' = [check EXCEPT ![c] = new], new.pc # "over"
          PROVE  FALSE
      BY <1>0, <2>2
    <2>3. ASSUME NEW ready \in BOOLEAN, BeginCheck(c, ready)
          PROVE  Goal
      BY <2>3 DEF BeginCheck
    <2>4. CASE SourcesConfigured(c)
      <3>1. CASE check[c].ready
        <4> DEFINE config == IF recording THEN "recording"
                             ELSE IF check[c].ready /\ ~HasKey THEN "key_missing" ELSE "nothing"
        <4>1. check' = [check EXCEPT ![c] = [check[c] EXCEPT !.pc = "key", !.config = config]]
          BY <2>4, <3>1 DEF SourcesConfigured
        <4>2. check'[c].pc = "key"
          BY <1>0, <4>1 DEF Check
        <4> QED
          BY <1>0, <4>2
      <3>2. CASE ~check[c].ready
        BY <2>1, <2>4, <3>2 DEF SourcesConfigured
      <3> QED
        BY <3>1, <3>2
    <2>5. CASE CheckRaises(c)
      <3>1. Over(c, "raised", "not_probed", TRUE)
        BY <2>5 DEF CheckRaises
      <3>2. "raised" = "nothing"
        BY <2>1, <3>1
      <3> QED
        BY <3>2
    <2>6. CASE ReadKey(c)
      <3>1. CASE recording
        BY <1>0, <2>1, <2>6, <3>1 DEF ReadKey, Conclude, Knows, KnowsConfig
      <3>2. CASE ~recording /\ ~HasKey
        BY <1>0, <2>1, <2>6, <3>2 DEF ReadKey, Conclude, Knows, KnowsConfig
      <3>3. CASE ~recording /\ HasKey
        <4>1. check' = [check EXCEPT ![c] = [check[c] EXCEPT !.pc = "cache", !.key = row.key]]
          BY <1>0, <2>6, <3>3 DEF ReadKey
        <4>2. check'[c].pc = "cache"
          BY <1>0, <4>1 DEF Check
        <4> QED
          BY <1>0, <4>2
      <3> QED
        BY <3>1, <3>2, <3>3
    <2>7. CASE ReadCache(c)
      <3>1. CASE cached[check[c].key] > 0
        <4>1. /\ check[c].key \in Keys /\ ~recording /\ HasKey /\ row.key = check[c].key
          BY <1>0, <2>7 DEF ReadCache, Knows, KnowsKey, Check
        <4>2. cached[row.key] \in Nat /\ rejectedFor[row.key] \in Nat /\ CacheTtl \in Nat
          BY <4>1, ProbeConstants DEF ProbeInv, ProbeTypes
        <4>3. row.key \in accepted \/ rejectedFor[row.key] + cached[row.key] <= CacheTtl
          BY <3>1, <4>1 DEF ProbeInv, CacheIsFresh
        <4> QED
          BY <4>1, <4>2, <4>3
      <3>2. CASE ~(cached[check[c].key] > 0)
        <4>1. check'[c].pc = "call"
          BY <1>0, <2>7, <3>2 DEF ReadCache, Fingerprint, Check
        <4> QED
          BY <1>0, <4>1
      <3> QED
        BY <3>1, <3>2
    <2>8. CASE Store(c)
      <3>1. /\ check[c].key \in Keys /\ ~recording /\ HasKey /\ row.key = check[c].key
            /\ check[c].key \in accepted \/ rejectedFor[check[c].key] = 0
        BY <1>0, <2>8 DEF Store, Knows, KnowsKey, KnowsAnswer, Check
      <3> QED
        BY <3>1, ProbeConstants
    <2>9. CASE BackendFails(c)
      BY <2>1, <2>9 DEF BackendFails, ProbeFailures
    <2>10. ASSUME NEW answer \in Answers(check[c].key), CallProvider(c, answer)
           PROVE  Goal
      <3>1. CASE Verdict(answer) = "configured"
        <4>1. check'[c].pc = "store"
          BY <1>0, <2>10, <3>1 DEF CallProvider, Check
        <4> QED
          BY <1>0, <4>1
      <3>2. CASE Verdict(answer) # "configured"
        <4> DEFINE state == Verdict(answer)
                   trouble == answer.status \in {0, 302, 503}
        <4>1. state \in ProbeFailures
          BY <3>2 DEF Verdict, ProbeFailures
        <4>2. Over(c, check[c].config, state, trouble)
          BY <2>10, <3>2 DEF CallProvider
        <4> HIDE DEF state, trouble
        <4> QED
          BY <2>1, <4>1, <4>2
      <3> QED
        BY <3>1, <3>2
    <2> QED
      BY <1>1, <2>3, <2>4, <2>5, <2>6, <2>7, <2>8, <2>9, <2>10 DEF CheckStep
  <1>2. ASSUME NEW d \in Checkers, d # c, CheckStep(d)
        PROVE  FALSE
    <2>1. check'[c] = check[c]
      BY <1>2, OthersStay
    <2> QED
      BY <1>0, <2>1
  <1>3. ASSUME NEW what \in {"row", "provider"}, Notice(what)
        PROVE  FALSE
    BY <1>0, <1>3, Noticed
  <1>4. CASE TimePasses \/ UNCHANGED probeVars
    BY <1>0, <1>4 DEF TimePasses, probeVars
  <1> QED
    BY <1>1, <1>2, <1>3, <1>4
    DEF ProbeNext, SaveBlank, SaveKey, DeleteKey, Edit, ChangeProvider

(* Silence is warranted: the run checks it for two keys and a lifetime of one tick. *)
THEOREM SilenceCorrect == ProbeSpec => SilenceIsWarranted
  <1> DEFINE Warranted(c) ==
               check[c].pc # "over" /\ Answered(c)' /\ ~Warned(c)' /\ "row" \notin check[c].changed
                   => /\ ~recording /\ HasKey
                      /\ row.key \in accepted \/ rejectedFor[row.key] <= CacheTtl
  <1>1. ProbeInv /\ [ProbeNext]_probeVars => [\A c \in Checkers : Warranted(c)]_probeVars
    BY SilentStep
  <1> QED
    BY <1>1, ProbeInvariance, PTL DEF ProbeSpec, SilenceIsWarranted

-------------------------------------------------------------------------------
(* A check that runs has warned of nothing if there was nothing to warn of and nobody
   edited the row since it began: what FixIsSeen needs besides ProbeInv. *)
KnowsClear(c) ==
    check[c].pc # "over" /\ "row" \notin check[c].changed /\ ~recording /\ HasKey
        => check[c].config = "nothing"

LEMMA ClearStep ==
    ASSUME ProbeInv, [ProbeNext]_probeVars, NEW c \in Checkers, KnowsClear(c)
    PROVE  KnowsClear(c)'
  <1>0. check[c] \in Check /\ c \in DOMAIN check
    BY DEF ProbeInv, ProbeTypes
  <1>1. CASE CheckStep(c)
    <2>0. UNCHANGED <<recording, row>>
      BY <1>1 DEF CheckStep, BeginCheck, SourcesConfigured, CheckRaises, ReadKey, ReadCache,
                  CallProvider, Store, BackendFails
    <2>1. ASSUME NEW config, NEW state, NEW trouble, Over(c, config, state, trouble)
          PROVE  KnowsClear(c)'
      BY <1>0, <2>1 DEF Over, Idle, KnowsClear
    <2>2. ASSUME NEW ready \in BOOLEAN, BeginCheck(c, ready)
          PROVE  KnowsClear(c)'
      <3>1. check'[c] = [Idle EXCEPT !.pc = "config", !.ready = ready]
        BY <1>0, <2>2 DEF BeginCheck
      <3>2. check'[c].config = "nothing"
        BY <3>1 DEF Idle
      <3> QED
        BY <3>2 DEF KnowsClear
    <2>3. CASE SourcesConfigured(c)
      <3> DEFINE config == IF recording THEN "recording"
                           ELSE IF check[c].ready /\ ~HasKey THEN "key_missing" ELSE "nothing"
      <3>1. CASE check[c].ready
        <4>1. check' = [check EXCEPT ![c] = [check[c] EXCEPT !.pc = "key", !.config = config]]
          BY <2>3, <3>1 DEF SourcesConfigured
        <4>2. check'[c].config = config
          BY <1>0, <4>1 DEF Check
        <4> QED
          BY <2>0, <4>2 DEF KnowsClear, HasKey
      <3>2. CASE ~check[c].ready
        BY <2>1, <2>3, <3>2 DEF SourcesConfigured
      <3> QED
        BY <3>1, <3>2
    (* The steps between leave the findings of the first check alone. *)
    <2>4. ASSUME NEW new \in Check, check' = [check EXCEPT ![c] = new], check[c].pc # "over",
                 new.config = check[c].config, new.changed = check[c].changed
          PROVE  KnowsClear(c)'
      BY <1>0, <2>0, <2>4 DEF KnowsClear, HasKey
    <2>5. CASE ReadKey(c)
      <3>1. CASE ~recording /\ HasKey
        <4> DEFINE new == [check[c] EXCEPT !.pc = "cache", !.key = row.key]
        <4>1. new \in Check /\ new.config = check[c].config /\ new.changed = check[c].changed
          BY <1>0 DEF Check, ProbeInv, ProbeTypes, KeyRow
        <4>2. check' = [check EXCEPT ![c] = new] /\ check[c].pc # "over"
          BY <1>0, <2>5, <3>1 DEF ReadKey
        <4> HIDE DEF new
        <4> QED
          BY <2>4, <4>1, <4>2
      <3>2. CASE recording \/ ~HasKey
        BY <2>1, <2>5, <3>2 DEF ReadKey, Conclude
      <3> QED
        BY <3>1, <3>2
    <2>6. CASE ReadCache(c)
      <3>1. CASE cached[Fingerprint(check[c].key)] > 0
        BY <2>1, <2>6, <3>1 DEF ReadCache, Conclude
      <3>2. CASE ~(cached[Fingerprint(check[c].key)] > 0)
        <4> DEFINE new == [check[c] EXCEPT !.pc = "call"]
        <4>1. new \in Check /\ new.config = check[c].config /\ new.changed = check[c].changed
          BY <1>0 DEF Check
        <4>2. check' = [check EXCEPT ![c] = new] /\ check[c].pc # "over"
          BY <1>0, <2>6, <3>2 DEF ReadCache
        <4> HIDE DEF new
        <4> QED
          BY <2>4, <4>1, <4>2
      <3> QED
        BY <3>1, <3>2
    <2>7. ASSUME NEW answer \in Answers(check[c].key), CallProvider(c, answer)
          PROVE  KnowsClear(c)'
      <3>1. CASE Verdict(answer) # "configured"
        <4> DEFINE trouble == answer.status \in {0, 302, 503}
        <4>1. Over(c, check[c].config, Verdict(answer), trouble)
          BY <2>7, <3>1 DEF CallProvider
        <4> HIDE DEF trouble
        <4> QED
          BY <2>1, <4>1
      <3>2. CASE Verdict(answer) = "configured"
        <4> DEFINE new == [check[c] EXCEPT !.pc = "store"]
        <4>1. new \in Check /\ new.config = check[c].config /\ new.changed = check[c].changed
          BY <1>0 DEF Check
        <4>2. check' = [check EXCEPT ![c] = new] /\ check[c].pc # "over"
          BY <1>0, <2>7, <3>2 DEF CallProvider
        <4> HIDE DEF new
        <4> QED
          BY <2>4, <4>1, <4>2
      <3> QED
        BY <3>1, <3>2
    <2> QED
      BY <1>1, <2>1, <2>2, <2>3, <2>5, <2>6, <2>7
      DEF CheckStep, CheckRaises, Store, Conclude, BackendFails
  <1>2. ASSUME NEW d \in Checkers, d # c, CheckStep(d)
        PROVE  KnowsClear(c)'
    <2>1. check'[c] = check[c] /\ UNCHANGED <<recording, row>>
      BY <1>2, OthersStay
    <2> QED
      BY <2>1 DEF KnowsClear, HasKey
  <1>3. ASSUME NEW newRow, Edit(newRow)
        PROVE  KnowsClear(c)'
    <2>1. /\ check'[c].pc = check[c].pc
          /\ check[c].pc # "over" => "row" \in check'[c].changed
      BY <1>3, Noticed DEF Edit
    <2> QED
      BY <2>1 DEF KnowsClear
  <1>4. ASSUME NEW k \in Keys, ChangeProvider(k)
        PROVE  KnowsClear(c)'
    <2>1. /\ check'[c].pc = check[c].pc /\ check'[c].config = check[c].config
          /\ check[c].pc # "over" => check[c].changed \subseteq check'[c].changed
          /\ UNCHANGED <<recording, row>>
      BY <1>4, Noticed DEF ChangeProvider
    <2> QED
      BY <2>1 DEF KnowsClear, HasKey
  <1>5. CASE TimePasses \/ UNCHANGED probeVars
    BY <1>5 DEF TimePasses, probeVars, KnowsClear, HasKey
  <1> QED
    BY <1>1, <1>2, <1>3, <1>4, <1>5 DEF ProbeNext, SaveBlank, SaveKey, DeleteKey

(* An answer to an accepted key is either good or trouble. *)
LEMMA AcceptedIsConfigured ==
    ASSUME ProbeInv, NEW k \in accepted, NEW answer \in Answers(k), Verdict(answer) # "configured"
    PROVE  answer.status \in {0, 302, 503}
  BY DEF ProbeInv, ProbeTypes, Answers, Verdict, AcceptedStatuses, NoResponse, Status

(* The end of a check of a live source with an accepted key. *)
LEMMA FixStep ==
    ASSUME ProbeInv, [ProbeNext]_probeVars, NEW c \in Checkers, KnowsClear(c),
           check[c].pc # "over", Answered(c)', ~recording, HasKey, row.key \in accepted,
           check[c].changed = {}, ~check'[c].trouble
    PROVE  ~Warned(c)'
  <1>0. /\ check[c] \in Check /\ Knows(c) /\ c \in DOMAIN check
        /\ check'[c].pc = "over" /\ check'[c].ready /\ check[c].config = "nothing"
    BY DEF ProbeInv, ProbeTypes, Answered, KnowsClear
  <1>1. CASE CheckStep(c)
    <2>1. ASSUME NEW config, NEW state, NEW trouble, Over(c, config, state, trouble)
          PROVE  /\ check'[c].config = config /\ check'[c].state = state
                 /\ check'[c].ready = check[c].ready /\ check'[c].trouble = trouble
      <3>1. check'[c] = [Idle EXCEPT !.ready = check[c].ready, !.config = config,
                                     !.state = state, !.trouble = trouble]
        BY <1>0, <2>1 DEF Over
      <3> QED
        BY <3>1 DEF Idle
    <2>2. CASE \E ready \in BOOLEAN : BeginCheck(c, ready)
      BY <2>2 DEF BeginCheck
    <2>3. CASE SourcesConfigured(c)
      <3>1. CASE check[c].ready
        <4> DEFINE config == IF recording THEN "recording"
                             ELSE IF check[c].ready /\ ~HasKey THEN "key_missing" ELSE "nothing"
        <4>1. check' = [check EXCEPT ![c] = [check[c] EXCEPT !.pc = "key", !.config = config]]
          BY <2>3, <3>1 DEF SourcesConfigured
        <4>2. check'[c].pc = "key"
          BY <1>0, <4>1 DEF Check
        <4> QED
          BY <1>0, <4>2
      <3>2. CASE ~check[c].ready
        BY <1>0, <2>1, <2>3, <3>2 DEF SourcesConfigured
      <3> QED
        BY <3>1, <3>2
    <2>4. CASE CheckRaises(c)
      BY <2>1, <2>4 DEF CheckRaises
    <2>5. CASE ReadKey(c)
      <3>1. check' = [check EXCEPT ![c] = [check[c] EXCEPT !.pc = "cache", !.key = row.key]]
        BY <1>0, <2>5 DEF ReadKey
      <3>2. check'[c].pc = "cache"
        BY <1>0, <3>1 DEF Check
      <3> QED
        BY <1>0, <3>2
    <2>6. ASSUME Conclude(c, "configured")
          PROVE  ~Warned(c)'
      <3>1. check'[c].config = "nothing" /\ check'[c].state = "configured"
        BY <1>0, <2>1, <2>6 DEF Conclude
      <3> QED
        BY <3>1 DEF Warned, ProbeFailures
    <2>7. CASE ReadCache(c)
      <3>1. CASE ~(cached[check[c].key] > 0)
        <4>1. check'[c].pc = "call"
          BY <1>0, <2>7, <3>1 DEF ReadCache, Fingerprint, Check
        <4> QED
          BY <1>0, <4>1
      <3>2. CASE cached[check[c].key] > 0
        BY <2>6, <2>7, <3>2 DEF ReadCache, Fingerprint
      <3> QED
        BY <3>1, <3>2
    <2>8. CASE Store(c)
      BY <2>6, <2>8 DEF Store
    <2>9. CASE BackendFails(c)
      BY <2>1, <2>9 DEF BackendFails
    <2>10. ASSUME NEW answer \in Answers(check[c].key), CallProvider(c, answer)
           PROVE  ~Warned(c)'
      <3>1. CASE Verdict(answer) = "configured"
        <4>1. check'[c].pc = "store"
          BY <1>0, <2>10, <3>1 DEF CallProvider, Check
        <4> QED
          BY <1>0, <4>1
      <3>2. CASE Verdict(answer) # "configured"
        <4> DEFINE trouble == answer.status \in {0, 302, 503}
        <4>1. check[c].pc = "call"
          BY <2>10 DEF CallProvider
        <4>2. check[c].key \in accepted
          BY <1>0, <2>10 DEF CallProvider, Knows, KnowsKey
        <4>3. trouble
          BY <2>10, <3>2, <4>2, AcceptedIsConfigured
        <4>4. Over(c, check[c].config, Verdict(answer), trouble)
          BY <2>10, <3>2 DEF CallProvider
        <4> HIDE DEF trouble
        <4> QED
          BY <2>1, <4>3, <4>4
      <3> QED
        BY <3>1, <3>2
    <2> QED
      BY <1>1, <2>2, <2>3, <2>4, <2>5, <2>7, <2>8, <2>9, <2>10 DEF CheckStep
  <1>2. ASSUME NEW d \in Checkers, d # c, CheckStep(d)
        PROVE  FALSE
    <2>1. check'[c] = check[c]
      BY <1>2, OthersStay
    <2> QED
      BY <1>0, <2>1
  <1>3. ASSUME NEW what \in {"row", "provider"}, Notice(what)
        PROVE  FALSE
    BY <1>0, <1>3, Noticed
  <1>4. CASE TimePasses \/ UNCHANGED probeVars
    BY <1>0, <1>4 DEF TimePasses, probeVars
  <1> QED
    BY <1>1, <1>2, <1>3, <1>4
    DEF ProbeNext, SaveBlank, SaveKey, DeleteKey, Edit, ChangeProvider

(* A fix made before a check begins is seen by it, for every set of keys and checkers. *)
THEOREM FixCorrect == ProbeSpec => FixIsSeen
  <1> DEFINE Clear == \A c \in Checkers : KnowsClear(c)
             Seen(c) ==
               check[c].pc # "over" /\ Answered(c)' /\ ~recording /\ HasKey /\ row.key \in accepted
                   => \/ ~Warned(c)'
                      \/ check[c].changed # {} \/ check'[c].trouble
  <1>1. ProbeInit({"lighthouse", "urlscan"}, BOOLEAN) => Clear
    BY IdleType DEF ProbeInit, KnowsClear
  <1>2. ProbeInv /\ Clear /\ [ProbeNext]_probeVars => Clear'
    BY ClearStep
  <1>3. ProbeInv /\ Clear /\ [ProbeNext]_probeVars => [\A c \in Checkers : Seen(c)]_probeVars
    BY FixStep
  <1> QED
    BY <1>1, <1>2, <1>3, ProbeInvariance, PTL DEF ProbeSpec, FixIsSeen
===============================================================================

-------------------------- MODULE SourceFetch_proofs --------------------------
(***************************************************************************)
(* For every set of hosts and every limit: the type invariant of           *)
(* SourceFetch, the promise of the guard, and that the outcome of a fetch  *)
(* tells what it met.                                                      *)
(***************************************************************************)
EXTENDS SourceFetch, TLAPS

(* What OutcomeTellsCause rests on: a body is within the cap until the read that
   ends the fetch, a strategy is left and nothing was quoted until then, and strategies are
   answered without a run only by a 404 of a recording or an empty object. *)
BodyWithinCap == pc # "over" => received <= Cap

StrategyLeft == pc # "over" => Len(answers) < Strategies

NothingQuoted == pc # "over" => quoted = "nothing"

NoneIsRecorded ==
    /\ call # "lighthouse" => answers = <<>>
    /\ \A i \in DOMAIN answers : answers[i] = "none" => config.recording

(* A private host that the guard must refuse; past the guard the hop has none. *)
Internal(url) == url \in PrivateHosts \ config.allowed /\ config.block

GuardPassed == pc \in {"response", "body"} => ~Internal(current)

Parts == BodyWithinCap /\ StrategyLeft /\ NothingQuoted /\ NoneIsRecorded /\ GuardPassed

IInv == TypeOK /\ Parts /\ OutcomeTellsCause

(* What the guard refuses, and why. *)
LEMMA RefusalReason ==
    ASSUME TypeOK, NEW url \in Hosts \cup {NoUrl}
    PROVE  /\ Refusal(url) \in {"none", "unusable", "internal"}
           /\ Refusal(url) = "internal" <=> Internal(url)
           /\ Refusal(url) = "none" => url \in Hosts
  <1> USE DEF Internal
  <1>1. CASE url = NoUrl
    BY <1>1, HostsAssumption DEF Refusal
  <1>2. CASE url # NoUrl /\ (url \in config.allowed \/ ~config.block)
    BY <1>2 DEF Refusal
  <1>3. CASE url # NoUrl /\ ~(url \in config.allowed \/ ~config.block)
    BY <1>3, HostsAssumption DEF Refusal, TypeOK, Settings
  <1> QED
    BY <1>1, <1>2, <1>3

(* No body has passed the cap while a fetch goes on. *)
LEMMA WithinCap ==
    ASSUME IInv, pc # "over"
    PROVE  received \in Nat /\ ~(received > Cap)
  <1>1. received <= Cap /\ received \in 0..(Cap + Chunk)
    BY DEF IInv, Parts, BodyWithinCap, TypeOK
  <1> QED
    BY <1>1, LimitsAssumption

(* What a fetch ends with. *)
LEMMA EndStep ==
    ASSUME IInv, NEW result \in Outcome, End(result), pc \in {"guard", "response", "body"},
           quoted' \in {"nothing"} \cup Text,
           Internal(current) => result = "ssrf",
           result = "ssrf" => Internal(current) \/ quoted' = "internal host",
           result # "partial",
           result = "truncated" => quoted' = "exceeds the cap",
           quoted' = "other" => result = "upstream",
           result = "recording_missing" => config.recording,
           result = "submitted" => call = "submit",
           result = "not_ready" => call = "result"
    PROVE  IInv'
  <1>1. TypeOK'
    BY DEF IInv, TypeOK, End, request
  <1>2. ~(received > Cap)
    <2>1. pc # "over"
      OBVIOUS
    <2> QED
      BY <2>1, WithinCap
  <1>3. Parts'
    BY DEF IInv, Parts, BodyWithinCap, StrategyLeft, NothingQuoted, NoneIsRecorded, GuardPassed, End, request
  <1>4. OutcomeTellsCause'
    <2>1. /\ outcome' = result
          /\ config' = config /\ call' = call /\ answers' = answers /\ current' = current
          /\ received' = received
      BY DEF End, request
    <2>2. Internal(current)' <=> Internal(current)
      BY <2>1 DEF Internal
    <2> QED
      BY <1>2, <2>1, <2>2 DEF OutcomeTellsCause, Internal
  <1> QED
    BY <1>1, <1>3, <1>4 DEF IInv

(* An exception that quotes something ends the fetch with one of three codes. *)
LEMMA FailStep ==
    ASSUME IInv, Fail, pc \in {"guard", "response", "body"}, ~Internal(current)
    PROVE  IInv'
  <1>1. PICK text \in Text : End(SourceError(text)) /\ quoted' = text
    BY DEF Fail
  <1>2. /\ SourceError(text) \in {"ssrf", "truncated", "upstream"}
        /\ SourceError(text) = "ssrf" => text = "internal host"
        /\ SourceError(text) = "truncated" => text = "exceeds the cap"
        /\ text = "other" => SourceError(text) = "upstream"
        /\ text # "nothing"
    BY <1>1 DEF SourceError, Text
  <1> HIDE DEF SourceError
  <1>3. SourceError(text) \in Outcome
    BY <1>2 DEF Outcome, ErrorCode
  <1> QED
    BY <1>1, <1>2, <1>3, EndStep

LEMMA StrategyStep ==
    ASSUME IInv, pc \in {"response", "body"}, call = "lighthouse",
           NEW answer \in {"none", "empty", "misshapen", "good"}, StrategyDone(answer),
           answer = "none" => config.recording
    PROVE  IInv'
  <1> DEFINE done == Append(answers, answer)
  <1>1. done \in Seq({"none"} \cup Payload)
    BY DEF IInv, TypeOK, Payload
  <1>2. /\ Len(done) = Len(answers) + 1 /\ Len(answers) \in Nat
        /\ DOMAIN answers = 1..Len(answers) /\ DOMAIN done = 1..Len(done)
        /\ \A i \in DOMAIN done : done[i] = IF i <= Len(answers) THEN answers[i] ELSE answer
    BY DEF IInv, TypeOK
  <1>3. Len(done) = Strategies \/ Len(done) < Strategies
    BY <1>2 DEF IInv, Parts, StrategyLeft, Strategies
  <1>4. /\ received <= Cap /\ received \in Nat
        /\ quoted = "nothing" /\ ~Internal(current)
    BY DEF IInv, Parts, BodyWithinCap, NothingQuoted, GuardPassed, TypeOK
  <1>5. \A i \in DOMAIN done : done[i] = "none" => config.recording
    BY <1>2 DEF IInv, Parts, NoneIsRecorded
  <1>6. CASE Len(done) = Strategies
    <2>1. /\ pc' = "over" /\ outcome' = LighthouseOutcome(done) /\ answers' = done
          /\ UNCHANGED <<config, call, start, current, hop, received, quoted, contacted>>
      BY <1>6 DEF StrategyDone, request
    <2>2. LighthouseOutcome(done) \in {"recording_missing", "invalid", "completed"}
      BY DEF LighthouseOutcome
    <2>3. LighthouseOutcome(done) = "recording_missing" =>
            \A i \in DOMAIN done : done[i] \in {"none", "empty"}
      BY DEF LighthouseOutcome
    <2>4. TypeOK'
      BY <2>1, <2>2, <1>1, <1>6 DEF IInv, TypeOK, Outcome, ErrorCode, SucceededReportStatuses
    <2>5. Parts'
      BY <2>1, <1>5 DEF Parts, BodyWithinCap, StrategyLeft, NothingQuoted, NoneIsRecorded, GuardPassed
    <2>6. OutcomeTellsCause'
      BY <2>1, <2>2, <2>3, <1>4, <1>5, LimitsAssumption DEF OutcomeTellsCause, Internal
    <2> QED
      BY <2>4, <2>5, <2>6 DEF IInv
  <1>7. CASE Len(done) # Strategies
    <2>1. /\ answers' = done /\ current' = start /\ hop' = 0 /\ received' = 0 /\ pc' = "guard"
          /\ UNCHANGED <<config, call, start, outcome, quoted, contacted>>
      BY <1>7 DEF StrategyDone, request
    <2>2. TypeOK'
      BY <2>1, <1>1, <1>3, <1>7, LimitsAssumption DEF IInv, TypeOK, Strategies
    <2>3. Parts'
      BY <2>1, <1>3, <1>4, <1>5, <1>7, LimitsAssumption
      DEF Parts, BodyWithinCap, StrategyLeft, NothingQuoted, NoneIsRecorded, GuardPassed
    <2>4. OutcomeTellsCause'
      BY <2>1 DEF OutcomeTellsCause
    <2> QED
      BY <2>2, <2>3, <2>4 DEF IInv
  <1> QED
    BY <1>6, <1>7

LEMMA InitIInv == Init => IInv
  <1> SUFFICES ASSUME Init PROVE IInv
    OBVIOUS
  <1>1. start \in Hosts
    BY HostsAssumption DEF Init, StartUrls
  <1>2. TypeOK
    BY <1>1, LimitsAssumption DEF Init, TypeOK, Outcome, Strategies
  <1>3. Parts
    BY LimitsAssumption
    DEF Init, Parts, BodyWithinCap, StrategyLeft, NothingQuoted, NoneIsRecorded, GuardPassed, Strategies
  <1> QED
    BY <1>2, <1>3 DEF Init, IInv, OutcomeTellsCause

LEMMA StepIInv == IInv /\ [Next]_vars => IInv'
  <1> SUFFICES ASSUME IInv, [Next]_vars PROVE IInv'
    OBVIOUS
  <1> USE DEF SucceededReportStatuses, request
  <1>0. /\ TypeOK /\ received \in Nat
        /\ pc # "over" => quoted = "nothing"
        /\ pc \in {"response", "body"} => ~Internal(current)
    BY DEF IInv, Parts, NothingQuoted, GuardPassed, TypeOK
  <1>1. CASE Refuse
    <2>1. CASE Refusal(current) = "unusable" /\ Fail
      <3>1. ~Internal(current)
        BY <1>0, <2>1, RefusalReason DEF TypeOK
      <3> QED
        BY <1>1, <2>1, <3>1, FailStep DEF Refuse
    <2>2. CASE Refusal(current) = "internal" /\ End("ssrf") /\ UNCHANGED quoted
      <3>1. Internal(current)
        BY <1>0, <2>2, RefusalReason DEF TypeOK
      <3> QED
        BY <1>0, <1>1, <2>2, <3>1, EndStep DEF Refuse, Outcome, ErrorCode
    <2> QED
      BY <1>1, <2>1, <2>2 DEF Refuse, SourceError
  <1>2. CASE Send
    <2>1. current \in Hosts /\ ~Internal(current)
      BY <1>0, <1>2, RefusalReason DEF Send, TypeOK
    <2>2. Parts'
      BY <1>2, <2>1
      DEF Send, IInv, Parts, BodyWithinCap, StrategyLeft, NothingQuoted, NoneIsRecorded, GuardPassed, Internal
    <2> QED
      BY <1>2, <2>1, <2>2 DEF Send, IInv, TypeOK, OutcomeTellsCause
  <1>3. CASE RequestFails \/ BodyBreaks
    BY <1>0, <1>3, FailStep DEF RequestFails, BodyBreaks
  <1>4. CASE AnswerNotFound
    <2>1. pc = "response"
      BY <1>4 DEF AnswerNotFound, Answers
    <2>2. CASE call = "lighthouse" /\ config.recording /\ StrategyDone("none")
      BY <2>1, <2>2, StrategyStep
    <2>3. CASE call = "result" /\ End("not_ready") /\ UNCHANGED quoted
      BY <1>0, <2>1, <2>3, EndStep DEF Outcome
    <2>4. CASE config.recording /\ End("recording_missing") /\ UNCHANGED quoted
      BY <1>0, <2>1, <2>4, EndStep DEF Outcome, ErrorCode
    <2> QED
      BY <1>4, <2>2, <2>3, <2>4 DEF AnswerNotFound
  <1>5. CASE BodyStarts
    <2>1. pc = "response"
      BY <1>5 DEF BodyStarts, Answers
    <2>2. Parts'
      BY <1>0, <1>5, <2>1
      DEF BodyStarts, IInv, Parts, BodyWithinCap, StrategyLeft, NothingQuoted, NoneIsRecorded, GuardPassed,
          Internal
    <2> QED
      BY <1>5, <2>2 DEF BodyStarts, IInv, TypeOK, OutcomeTellsCause
  <1>6. CASE \E url \in Hosts \cup {NoUrl} : Redirect(url)
    <2>1. PICK url \in Hosts \cup {NoUrl} : Redirect(url)
      BY <1>6
    <2>2. pc = "response"
      BY <2>1 DEF Redirect, Answers
    <2>3. CASE End("upstream") /\ UNCHANGED quoted
      BY <1>0, <2>2, <2>3, EndStep DEF Outcome, ErrorCode
    <2>4. CASE Fail
      BY <1>0, <2>2, <2>4, FailStep
    <2>5. CASE /\ ~LastHop /\ current' = url /\ hop' = NextHop /\ pc' = "guard"
               /\ UNCHANGED <<request, answers, received, outcome, quoted, contacted>>
      <3>1. hop + 1 \in 0..MaxRedirects
        BY <1>0, <2>5, LimitsAssumption DEF LastHop, TypeOK
      <3>2. Parts'
        BY <1>0, <2>2, <2>5
        DEF IInv, Parts, BodyWithinCap, StrategyLeft, NothingQuoted, NoneIsRecorded, GuardPassed
      <3> QED
        BY <2>5, <3>1, <3>2 DEF NextHop, IInv, TypeOK, OutcomeTellsCause
    <2> QED
      BY <2>1, <2>3, <2>4, <2>5 DEF Redirect, SourceError
  <1>7. CASE \E n \in 1..Chunk : Read(n)
    <2>1. PICK n \in 1..Chunk : Read(n)
      BY <1>7
    <2>2. pc = "body" /\ received <= Cap /\ quoted = "nothing" /\ ~Internal(current)
      BY <1>0, <2>1 DEF Read, IInv, Parts, BodyWithinCap
    <2>3. received + n \in 0..(Cap + Chunk)
      BY <1>0, <2>2, LimitsAssumption
    <2>4. CASE PassesCap(n)
      <3>1. /\ received' = received + n /\ received' > Cap /\ pc' = "over"
            /\ outcome' \in IF call = "page" THEN {"partial", "invalid"} ELSE {"truncated"}
            /\ UNCHANGED <<request, answers, current, hop, quoted, contacted>>
        BY <2>1, <2>4 DEF Read, PassesCap, CutOff, SourceError
      <3>2. TypeOK'
        BY <1>0, <2>3, <3>1 DEF TypeOK, Outcome, ErrorCode
      <3>3. Parts'
        BY <3>1
        DEF IInv, Parts, BodyWithinCap, StrategyLeft, NothingQuoted, NoneIsRecorded, GuardPassed
      <3>4. OutcomeTellsCause'
        BY <2>2, <3>1 DEF OutcomeTellsCause, Internal
      <3> QED
        BY <3>2, <3>3, <3>4 DEF IInv
    <2>5. CASE ~PassesCap(n)
      <3>1. /\ received' = received + n /\ received' <= Cap /\ pc' = pc
            /\ UNCHANGED <<request, answers, current, hop, outcome, quoted, contacted>>
        BY <1>0, <2>1, <2>5, LimitsAssumption DEF Read, PassesCap
      <3>2. Parts'
        BY <2>2, <3>1
        DEF IInv, Parts, BodyWithinCap, StrategyLeft, NothingQuoted, NoneIsRecorded, GuardPassed, Internal
      <3> QED
        BY <2>2, <2>3, <3>1, <3>2 DEF IInv, TypeOK, OutcomeTellsCause
    <2> QED
      BY <2>4, <2>5
  <1>8. CASE \E payload \in Payload : BodyEnds(payload)
    <2>1. PICK payload \in Payload : BodyEnds(payload)
      BY <1>8
    <2>2. pc = "body"
      BY <2>1 DEF BodyEnds
    <2>3. CASE call = "lighthouse" /\ Parsed(payload) /\ StrategyDone(payload)
      BY <2>2, <2>3, StrategyStep DEF Parsed, Payload
    <2>4. CASE call = "submit" /\ End(Submitted(payload)) /\ UNCHANGED quoted
      <3>1. Submitted(payload) \in {"submitted", "invalid"}
        BY DEF Submitted
      <3> HIDE DEF Submitted
      <3> QED
        BY <1>0, <2>2, <2>4, <3>1, EndStep DEF Outcome, ErrorCode
    <2>5. CASE (End("completed") \/ End("invalid")) /\ UNCHANGED quoted
      BY <1>0, <2>2, <2>5, EndStep DEF Outcome, ErrorCode
    <2> QED
      BY <2>1, <2>3, <2>4, <2>5 DEF BodyEnds, Complete
  <1>9. CASE UNCHANGED vars
    <2>1. /\ config' = config /\ call' = call /\ start' = start /\ answers' = answers
          /\ current' = current /\ hop' = hop /\ pc' = pc /\ received' = received
          /\ outcome' = outcome /\ quoted' = quoted /\ contacted' = contacted
      BY <1>9 DEF vars
    <2>2. TypeOK'
      BY <1>0, <2>1 DEF TypeOK
    <2>3. Parts'
      BY <2>1
      DEF IInv, Parts, BodyWithinCap, StrategyLeft, NothingQuoted, NoneIsRecorded, GuardPassed, Internal
    <2>4. OutcomeTellsCause'
      BY <2>1 DEF IInv, OutcomeTellsCause
    <2> QED
      BY <2>2, <2>3, <2>4 DEF IInv
  <1> QED
    BY <1>1, <1>2, <1>3, <1>4, <1>5, <1>6, <1>7, <1>8, <1>9 DEF Next

(* In every reachable state of a fetch the strengthening holds. *)
THEOREM FetchInvariance == Spec => []IInv
  BY InitIInv, StepIInv, PTL DEF Spec

(* The type invariant: no fetch follows more redirects or keeps more bytes than the
   limits say. *)
THEOREM FetchTypeCorrect == Spec => []TypeOK
  <1>1. IInv => TypeOK
    BY DEF IInv
  <1> QED
    BY <1>1, FetchInvariance, PTL

(* The outcome tells what the fetch met. *)
THEOREM OutcomeCorrect == Spec => []OutcomeTellsCause
  <1>1. IInv => OutcomeTellsCause
    BY DEF IInv
  <1> QED
    BY <1>1, FetchInvariance, PTL

(* A step sends at most one request, and only after the guard passed its URL. *)
LEMMA OneRequest ==
    ASSUME Next
    PROVE  /\ UNCHANGED config
           /\ \/ UNCHANGED contacted
              \/ Refusal(current) = "none" /\ contacted' = contacted \cup {current}
  <1> USE DEF request
  <1>1. \A result : End(result) => UNCHANGED <<config, contacted>>
    BY DEF End
  <1>2. \A answer : StrategyDone(answer) => UNCHANGED <<config, contacted>>
    BY DEF StrategyDone
  <1>3. Fail => UNCHANGED <<config, contacted>>
    BY <1>1 DEF Fail
  <1>4. CASE Refuse \/ RequestFails \/ BodyBreaks
    BY <1>1, <1>3, <1>4 DEF Refuse, RequestFails, BodyBreaks
  <1>5. CASE AnswerNotFound
    BY <1>1, <1>2, <1>5 DEF AnswerNotFound
  <1>6. CASE Send \/ BodyStarts
    BY <1>6 DEF Send, BodyStarts
  <1>7. CASE \E url \in Hosts \cup {NoUrl} : Redirect(url)
    BY <1>1, <1>3, <1>7 DEF Redirect
  <1>8. CASE \E n \in 1..Chunk : Read(n)
    BY <1>8 DEF Read
  <1>9. CASE \E payload \in Payload : BodyEnds(payload)
    BY <1>1, <1>2, <1>9 DEF BodyEnds
  <1> QED
    BY <1>4, <1>5, <1>6, <1>7, <1>8, <1>9 DEF Next

(* No chain of redirects, however long, reaches a private host behind the guard. *)
THEOREM GuardCorrect == Spec => []OnlyGuardedHosts
  <1>1. Init => OnlyGuardedHosts
    BY DEF Init, OnlyGuardedHosts
  <1>2. TypeOK /\ OnlyGuardedHosts /\ [Next]_vars => OnlyGuardedHosts'
    <2> SUFFICES ASSUME TypeOK, OnlyGuardedHosts, Next PROVE OnlyGuardedHosts'
      BY DEF vars, request, OnlyGuardedHosts
    <2>1. Refusal(current) = "none" => ~Internal(current)
      BY RefusalReason DEF TypeOK
    <2> QED
      BY <2>1, OneRequest DEF OnlyGuardedHosts, Internal
  <1> QED
    BY <1>1, <1>2, FetchTypeCorrect, PTL DEF Spec
===============================================================================

----------------------------- MODULE SourceFetch ------------------------------
(***************************************************************************)
(* One fetch of a source: the guarded GETs or the POST it makes, the       *)
(* redirects and the body of each, and what run() and poll() of            *)
(* report_service.py make of the answers.  It is the step that AuditRun    *)
(* takes as FetchCompletes, FetchSubmits, FetchRetries and FetchFails, or  *)
(* PollCompletes, PollAgain and PollFails.                                 *)
(*                                                                         *)
(* A URL is its host, or NoUrl when its scheme is not http(s), it has no   *)
(* host or it cannot be parsed.  A host resolves to the same address       *)
(* throughout a fetch.                                                     *)
(***************************************************************************)
EXTENDS Naturals, Sequences, AuditTypes

CONSTANTS
    Hosts,           \* the hosts URLs and redirects may name
    ApiHost,         \* the public API of a keyed source
    PrivateHosts,    \* those that resolve to an internal address
    UnknownHosts,    \* those that do not resolve
    NoUrl,           \* a URL that is refused for its form
    MaxRedirects,    \* MAX_REDIRECTS
    Cap,             \* SITEINTEL_MAX_PAGE_BYTES
    Chunk            \* _CHUNK: the most bytes one read returns

ASSUME HostsAssumption ==
    /\ ApiHost \in Hosts \ (PrivateHosts \cup UnknownHosts)
    /\ PrivateHosts \subseteq Hosts /\ UnknownHosts \subseteq Hosts
    /\ PrivateHosts \cap UnknownHosts = {} /\ NoUrl \notin Hosts
ASSUME LimitsAssumption == MaxRedirects \in Nat /\ Cap \in Nat /\ Chunk \in Nat \ {0}

VARIABLES
    config,     \* the settings the fetch reads
    call,       \* what is fetched: a page, Lighthouse runs, a scan or its result
    answers,    \* the answers of the Lighthouse strategies done so far
    start,      \* the URL asked for
    current,    \* the URL of this hop
    hop,        \* redirects followed so far
    pc,         \* "guard", "response", "body" or "over"
    received,   \* bytes of the body so far
    outcome,    \* what became of the fetch
    quoted,     \* history: what the error that ended the fetch quotes, if it quotes anything
    contacted   \* history: the hosts sent a request

request == <<config, call, start>>
vars == <<request, answers, current, hop, pc, received, outcome, quoted, contacted>>

-------------------------------------------------------------------------------
Calls == {"page", "lighthouse", "submit", "result"}
Strategies == 2     \* mobile and desktop

Settings == [block : BOOLEAN, allowed : SUBSET Hosts, recording : BOOLEAN]

(* What an answer with a body holds: no JSON object, an empty one, one that
   validate() or process() or the size limit of the snapshot refuses, a good one. *)
Payload == {"unparsable", "empty", "misshapen", "good"}

(* What source_error finds in the text of an exception.  A message that quotes a URL, a
   status line or the bytes of a body may hold either phrase. *)
Text == {"internal host", "exceeds the cap", "other"}

Outcome == SucceededReportStatuses \cup {"submitted", "not_ready"} \cup ErrorCode

(* The submission and nothing else is a POST, in recording mode a GET too. *)
IsPost == call = "submit" /\ ~config.recording

-------------------------------------------------------------------------------
(* Slips: the definitions of the same name without the suffix after a plausible bug. *)
RefusalSlip(url) ==         \* redirects are followed without the guard
    CASE url = NoUrl -> "unusable"
      [] url \in PrivateHosts \ config.allowed /\ config.block /\ hop = 0 -> "internal"
      [] OTHER -> "none"
SourceErrorSlip(text) ==    \* the wording of the guard is missed
    IF text = "exceeds the cap" THEN "truncated" ELSE "upstream"
NextHopSlip == hop                          \* hops are not counted
LastHopSlip == hop > MaxRedirects           \* one redirect too many

-------------------------------------------------------------------------------
(* source_error: the error code is read off the text of the exception. *)
SourceError(text) ==
    CASE text = "internal host" -> "ssrf"
      [] text = "exceeds the cap" -> "truncated"
      [] OTHER -> "upstream"

(* assert_safe_url: why a URL is refused, or none. *)
Refusal(url) ==
    CASE url = NoUrl -> "unusable"
      [] url # NoUrl /\ (url \in config.allowed \/ ~config.block) -> "none"
      [] OTHER -> CASE url \in UnknownHosts -> "unusable"
                    [] url \in PrivateHosts -> "internal"
                    [] OTHER -> "none"

NextHop == hop + 1

(* The loop over the hops has no further round. *)
LastHop == hop = MaxRedirects

PassesCap(n) == received + n > Cap

(* What is made of a body past the cap: the page is analysed as far as it came, and its
   facts may still be too large a snapshot; BodyTooLarge is an error to other sources. *)
CutOff == IF call = "page" THEN {"partial", "invalid"} ELSE {SourceError("exceeds the cap")}

End(result) ==
    /\ pc' = "over" /\ outcome' = result
    /\ UNCHANGED <<request, answers, current, hop, received, contacted>>

(* The fetch ends with an exception that quotes what is not the program's own. *)
Fail == \E text \in Text : End(SourceError(text)) /\ quoted' = text

(* The snapshot of both strategies: `any(raw.values())`, then validate and process. *)
LighthouseOutcome(done) ==
    LET runs == {done[i] : i \in DOMAIN done}
    IN  IF runs \subseteq {"none", "empty"} THEN "recording_missing"
        ELSE IF runs \cap {"empty", "misshapen"} # {} THEN "invalid" ELSE "completed"

(* One strategy is answered: go on with the next one, or end. *)
StrategyDone(answer) ==
    LET done == Append(answers, answer)
    IN  /\ answers' = done
        /\ IF Len(done) = Strategies
           THEN /\ pc' = "over" /\ outcome' = LighthouseOutcome(done)
                /\ UNCHANGED <<current, hop, received>>
           ELSE /\ current' = start /\ hop' = 0 /\ received' = 0 /\ pc' = "guard"
                /\ UNCHANGED outcome
        /\ UNCHANGED <<request, quoted, contacted>>

(* parse_json lets an object through. *)
Parsed(payload) == payload # "unparsable"

(* complete: validate, process and clean the snapshot. *)
Complete(fits) == IF fits THEN "completed" ELSE "invalid"

(* The answer to a submission names the scan. *)
Submitted(payload) == IF payload = "good" THEN "submitted" ELSE "invalid"

-------------------------------------------------------------------------------
Refuse ==
    /\ pc = "guard"
    /\ \/ Refusal(current) = "unusable" /\ Fail
       \/ Refusal(current) = "internal" /\ End(SourceError("internal host")) /\ UNCHANGED quoted

Send ==
    /\ pc = "guard" /\ Refusal(current) = "none"
    /\ contacted' = contacted \cup {current} /\ pc' = "response"
    /\ UNCHANGED <<request, answers, current, hop, received, outcome, quoted>>

(* A connection error, a redirect without a target, or a status that is neither a
   redirect nor 2xx; a 404 too, where AnswerNotFound has no case for it. *)
RequestFails ==
    /\ pc = "response"
    /\ Fail

Answers == pc = "response" /\ current \notin UnknownHosts

(* A redirect: refused on a POST; followed, unless it is one too many, which the error
   says with the URL asked for. *)
Redirect(url) ==
    /\ Answers
    /\ \/ IsPost /\ End(SourceError("other")) /\ UNCHANGED quoted
       \/ ~IsPost /\ LastHop /\ Fail
       \/ /\ ~IsPost /\ ~LastHop
          /\ current' = url /\ hop' = NextHop /\ pc' = "guard"
          /\ UNCHANGED <<request, answers, received, outcome, quoted, contacted>>

(* A 404 that tells something: a result that is not ready, a domain or a strategy
   without a recording. *)
AnswerNotFound ==
    /\ Answers
    /\ \/ call = "result" /\ End("not_ready") /\ UNCHANGED quoted
       \/ call = "submit" /\ config.recording /\ End("recording_missing") /\ UNCHANGED quoted
       \/ call = "lighthouse" /\ config.recording /\ StrategyDone("none")

BodyStarts ==
    /\ Answers
    /\ pc' = "body"
    /\ UNCHANGED <<request, answers, current, hop, received, outcome, quoted, contacted>>

(* One read of the body. *)
Read(n) ==
    /\ pc = "body"
    /\ received' = received + n
    /\ IF PassesCap(n) THEN pc' = "over" /\ outcome' \in CutOff ELSE UNCHANGED <<pc, outcome>>
    /\ UNCHANGED <<request, answers, current, hop, quoted, contacted>>

BodyBreaks ==
    /\ pc = "body"
    /\ Fail

BodyEnds(payload) ==
    /\ pc = "body"
    /\ \/ /\ call = "page" /\ End(Complete(payload # "misshapen")) /\ UNCHANGED quoted
       \/ /\ call # "page" /\ ~Parsed(payload) /\ End("invalid") /\ UNCHANGED quoted
       \/ /\ call = "submit" /\ Parsed(payload) /\ End(Submitted(payload)) /\ UNCHANGED quoted
       \/ /\ call = "result" /\ Parsed(payload) /\ End(Complete(payload = "good"))
          /\ UNCHANGED quoted
       \/ call = "lighthouse" /\ Parsed(payload) /\ StrategyDone(payload)

-------------------------------------------------------------------------------
(* The audited page may be on any host, and so may the recordings. *)
StartUrls == IF call = "page" \/ config.recording THEN Hosts ELSE {ApiHost}

Init ==
    /\ config \in Settings /\ call \in Calls /\ start \in StartUrls
    /\ answers = <<>> /\ current = start /\ hop = 0 /\ pc = "guard" /\ received = 0
    /\ outcome = "not_ready" /\ quoted = "nothing" /\ contacted = {}

Next ==
    \/ Refuse \/ Send \/ RequestFails \/ AnswerNotFound \/ BodyStarts \/ BodyBreaks
    \/ \E url \in Hosts \cup {NoUrl} : Redirect(url)
    \/ \E n \in 1..Chunk : Read(n)
    \/ \E payload \in Payload : BodyEnds(payload)

(* Every call carries SITEINTEL_FETCH_TIMEOUT_S: a silent host ends it. *)
Spec == Init /\ [][Next]_vars /\ WF_vars(Next)

-------------------------------------------------------------------------------
(* Properties.                                                                 *)

(* Every variable has its type; hops and bytes stay within their limits. *)
TypeOK ==
    /\ config \in Settings /\ call \in Calls /\ outcome \in Outcome
    /\ quoted \in {"nothing"} \cup Text
    /\ answers \in Seq({"none"} \cup Payload) /\ Len(answers) <= Strategies
    /\ start \in Hosts /\ current \in Hosts \cup {NoUrl}
    /\ hop \in 0..MaxRedirects /\ received \in 0..(Cap + Chunk)
    /\ pc \in {"guard", "response", "body", "over"}
    /\ contacted \subseteq Hosts

(* docs/operations.md, "each hop is re-validated": no chain of redirects reaches a
   private host that is not allowed while the guard is on. *)
OnlyGuardedHosts ==
    config.block => contacted \cap PrivateHosts \subseteq config.allowed

(* However an upstream redirects and streams, a fetch comes to an end. *)
FetchEnds == <>(pc = "over")

(* The error table of docs/operations.md, as to what a fetch met.  A private host is
   always told as ssrf and a body past the cap as truncated or partial, although both are
   recognised by their wording.  The converse has an exception each, an error that quotes
   that wording; any other failure outside is upstream, the one code that is retried. *)
OutcomeTellsCause ==
    pc = "over" =>
        LET internal == current \in PrivateHosts \ config.allowed /\ config.block
        IN  /\ internal => outcome = "ssrf"
            /\ outcome = "ssrf" => internal \/ quoted = "internal host"
            /\ received > Cap =>
                 outcome \in IF call = "page" THEN {"partial", "invalid"} ELSE {"truncated"}
            /\ outcome = "partial" => call = "page" /\ received > Cap
            /\ outcome = "truncated" => received > Cap \/ quoted = "exceeds the cap"
            /\ quoted = "other" => outcome = "upstream"
            /\ outcome = "recording_missing" =>
                 config.recording \/ \A i \in DOMAIN answers : answers[i] = "empty"
            /\ outcome = "submitted" => call = "submit"
            /\ outcome = "not_ready" => call = "result"
===============================================================================

-------------------------------- MODULE KeyProbe --------------------------------
(***************************************************************************)
(* The health checks of one keyed source: sources_configured (is the       *)
(* source live, has it a key) and keys_accepted (one authenticated call,   *)
(* cached by key), run by several checkers while the key is edited in the  *)
(* Django admin and accepted or revoked by the provider.                   *)
(*                                                                         *)
(* A step of a checker is one query, one cache operation or one call.  The *)
(* time between an answer and its storing is nothing next to the lifetime  *)
(* of a cache entry.                                                       *)
(***************************************************************************)
EXTENDS Integers

CONSTANTS
    Keys,         \* API keys
    Checkers,     \* processes that run the checks
    CacheTtl      \* CACHE_TTL_S, in ticks

ASSUME ProbeConstants == Keys # {} /\ CacheTtl \in Nat \ {0}

VARIABLES
    source,       \* the name of the source
    recording,    \* its base URL is not the public API
    row,          \* its ExternalApiKey
    accepted,     \* the keys the provider accepts
    rejectedFor,  \* how long it has not accepted a key (history)
    cached,       \* how long the cache entry of a key still lives; 0 if there is none
    check         \* the last check of each checker

probeVars == <<source, recording, row, accepted, rejectedFor, cached, check>>

KeyRow == [stored : BOOLEAN, key : Keys, active : BOOLEAN]

SourceStatus == {"configured", "recording", "unconfigured", "unreachable", "auth_failed"}

(* `config` is what sources_configured warns of and `state` what key_probe returned;
   history: `changed`, what was changed since the check began, and `trouble`, that the
   database, the cache or the provider failed it. *)
Check ==
    [pc : {"config", "key", "cache", "call", "store", "over"}, ready : BOOLEAN,
     config : {"nothing", "recording", "key_missing", "raised"},
     state : SourceStatus \cup {"not_probed"}, key : Keys,
     changed : SUBSET {"row", "provider"}, trouble : BOOLEAN]

AnyKey == CHOOSE k \in Keys : TRUE

Idle ==
    [pc |-> "over", ready |-> FALSE, config |-> "nothing", state |-> "not_probed",
     key |-> AnyKey, changed |-> {}, trouble |-> FALSE]

ProbeFailures == {"auth_failed", "unreachable"}

(* An answer: no response, or a status and whether the body says API_KEY_INVALID. *)
NoResponse == [status |-> 0, invalid |-> FALSE]
Status(code) == [status |-> code, invalid |-> FALSE]

-------------------------------------------------------------------------------
(* Slips: the definitions of the same name without the suffix after a plausible bug. *)
FingerprintSlip(k) == AnyKey    \* one entry for the source
AcceptedStatusesSlip == {200, 429}                  \* 400 is a refusal

-------------------------------------------------------------------------------
(* key_probe                                                                   *)

(* The cache entries that a key shares; its HMAC tells keys apart. *)
Fingerprint(k) == k

AcceptedStatuses == IF source = "lighthouse" THEN {200, 400, 429} ELSE {200, 429}

Verdict(answer) ==
    IF answer.status \in {401, 403} \/ answer.invalid THEN "auth_failed"
    ELSE IF answer.status \in AcceptedStatuses THEN "configured"
    ELSE "unreachable"

(* What the provider may answer to the probe of key k. *)
Answers(k) ==
    {NoResponse, Status(302), Status(503)} \cup
    IF k \in accepted
    THEN {Status(429), Status(IF source = "lighthouse" THEN 400 ELSE 200)}
    ELSE {Status(403), IF source = "lighthouse" THEN [status |-> 400, invalid |-> TRUE]
                       ELSE Status(401)}

HasKey == row.stored /\ row.active

(* The check of c is over; what it went by is forgotten. *)
Over(c, config, state, trouble) ==
    check' = [check EXCEPT ![c] = [Idle EXCEPT !.ready = check[c].ready, !.config = config,
                                               !.state = state, !.trouble = trouble]]

Conclude(c, state) == Over(c, check[c].config, state, FALSE)

(* A failing database or cache is reported as an unreachable source. *)
BackendFails(c) ==
    /\ check[c].pc \in {"key", "cache", "store"}
    /\ Over(c, check[c].config, "unreachable", TRUE)
    /\ UNCHANGED <<source, recording, row, accepted, rejectedFor, cached>>

ReadKey(c) ==
    /\ check[c].pc = "key"
    /\ IF recording THEN Conclude(c, "recording")
       ELSE IF HasKey THEN check' = [check EXCEPT ![c].pc = "cache", ![c].key = row.key]
       ELSE Conclude(c, "unconfigured")
    /\ UNCHANGED <<source, recording, row, accepted, rejectedFor, cached>>

ReadCache(c) ==
    /\ check[c].pc = "cache"
    /\ IF cached[Fingerprint(check[c].key)] > 0 THEN Conclude(c, "configured")
       ELSE check' = [check EXCEPT ![c].pc = "call"]
    /\ UNCHANGED <<source, recording, row, accepted, rejectedFor, cached>>

CallProvider(c, answer) ==
    /\ check[c].pc = "call"
    /\ IF Verdict(answer) = "configured" THEN check' = [check EXCEPT ![c].pc = "store"]
       ELSE Over(c, check[c].config, Verdict(answer), answer.status \in {0, 302, 503})
    /\ UNCHANGED <<source, recording, row, accepted, rejectedFor, cached>>

(* A failure is never cached. *)
Store(c) ==
    /\ check[c].pc = "store"
    /\ cached' = [cached EXCEPT ![Fingerprint(check[c].key)] = CacheTtl]
    /\ Conclude(c, "configured")
    /\ UNCHANGED <<source, recording, row, accepted, rejectedFor>>

-------------------------------------------------------------------------------
(* The checks                                                                  *)

(* A check begins; `ready` is _key_table_ready: the caller passed the database and
   the table exists. *)
BeginCheck(c, ready) ==
    /\ check[c].pc = "over"
    /\ check' = [check EXCEPT ![c] = [Idle EXCEPT !.pc = "config", !.ready = ready]]
    /\ UNCHANGED <<source, recording, row, accepted, rejectedFor, cached>>

(* sources_configured; keys_accepted probes only when it is ready. *)
SourcesConfigured(c) ==
    /\ check[c].pc = "config"
    /\ LET config == IF recording THEN "recording"
                     ELSE IF check[c].ready /\ ~HasKey THEN "key_missing" ELSE "nothing"
       IN  IF check[c].ready
           THEN check' = [check EXCEPT ![c] = [@ EXCEPT !.pc = "key", !.config = config]]
           ELSE Over(c, config, "not_probed", FALSE)
    /\ UNCHANGED <<source, recording, row, accepted, rejectedFor, cached>>

(* The introspection of either check and has_key are outside of the probe's try. *)
CheckRaises(c) ==
    /\ check[c].pc \in {"config", "key"} /\ check[c].ready
    /\ Over(c, "raised", "not_probed", TRUE)
    /\ UNCHANGED <<source, recording, row, accepted, rejectedFor, cached>>

-------------------------------------------------------------------------------
(* The Django admin, the provider and time.                                    *)

Notice(what) ==
    check' = [c \in Checkers |->
                IF check[c].pc = "over" THEN check[c]
                ELSE [check[c] EXCEPT !.changed = @ \cup {what}]]

Edit(newRow) ==
    /\ row' = newRow /\ newRow # row
    /\ Notice("row")
    /\ UNCHANGED <<source, recording, accepted, rejectedFor, cached>>

(* ExternalApiKeyForm.save: with a new key, which is required to add ... *)
SaveKey(active, newKey) == Edit([stored |-> TRUE, active |-> active, key |-> newKey])

(* ... or with a blank one, which keeps the key on edit. *)
SaveBlank(active) == row.stored /\ Edit([row EXCEPT !.active = active])

(* The row is deleted, or given to another source. *)
DeleteKey ==
    row.stored /\ Edit([stored |-> FALSE, key |-> AnyKey, active |-> TRUE])

ChangeProvider(k) ==
    /\ accepted' = IF k \in accepted THEN accepted \ {k} ELSE accepted \cup {k}
    /\ rejectedFor' = [rejectedFor EXCEPT ![k] = 0]
    /\ Notice("provider")
    /\ UNCHANGED <<source, recording, row, cached>>

TimePasses ==
    /\ \A c \in Checkers : check[c].pc # "store"
    /\ cached' = [k \in Keys |-> IF cached[k] > 0 THEN cached[k] - 1 ELSE 0]
    /\ rejectedFor' = [k \in Keys |->
                         IF k \in accepted \/ rejectedFor[k] > CacheTtl THEN rejectedFor[k]
                         ELSE rejectedFor[k] + 1]
    /\ UNCHANGED <<source, recording, row, accepted, check>>

-------------------------------------------------------------------------------
ProbeInit(sources, modes) ==
    /\ source \in sources /\ recording \in modes
    /\ row = [stored |-> FALSE, key |-> AnyKey, active |-> TRUE]
    /\ check = [c \in Checkers |-> Idle]
    /\ accepted = {} /\ rejectedFor = [k \in Keys |-> CacheTtl + 1]
    /\ cached = [k \in Keys |-> 0]

CheckStep(c) ==
    \/ \E ready \in BOOLEAN : BeginCheck(c, ready)
    \/ SourcesConfigured(c) \/ CheckRaises(c)
    \/ ReadKey(c) \/ ReadCache(c) \/ Store(c) \/ BackendFails(c)
    \/ \E answer \in Answers(check[c].key) : CallProvider(c, answer)

ProbeNext ==
    \/ \E c \in Checkers : CheckStep(c)
    \/ \E active \in BOOLEAN : SaveBlank(active) \/ \E k \in Keys : SaveKey(active, k)
    \/ DeleteKey \/ TimePasses
    \/ \E k \in Keys : ChangeProvider(k)

ProbeSpec == ProbeInit({"lighthouse", "urlscan"}, BOOLEAN) /\ [][ProbeNext]_probeVars

-------------------------------------------------------------------------------
(* Properties.                                                                 *)

Answered(c) == check[c].pc = "over" /\ check[c].ready

Warned(c) == check[c].config # "nothing" \/ check[c].state \in ProbeFailures

(* A check that reads the keys and warns of nothing is right, unless the row was
   edited meanwhile: the source is live, has an active key, and the provider accepted
   that key no longer ago than the cache keeps an answer.  "A new key is probed again":
   the answer about an earlier key does not speak for it. *)
SilenceIsWarranted ==
    [][\A c \in Checkers :
         check[c].pc # "over" /\ Answered(c)' /\ ~Warned(c)' /\ "row" \notin check[c].changed =>
             /\ ~recording /\ HasKey
             /\ row.key \in accepted \/ rejectedFor[row.key] <= CacheTtl]_probeVars

(* "`Check again` after a fix must call again": once an active accepted key is there,
   a check warns of the source only if something changed or failed while it ran,
   whatever earlier and concurrent checks reported. *)
FixIsSeen ==
    [][\A c \in Checkers :
         check[c].pc # "over" /\ Answered(c)' /\ ~recording /\ HasKey /\ row.key \in accepted
             => \/ ~Warned(c)'
                \/ check[c].changed # {} \/ check'[c].trouble]_probeVars
===============================================================================

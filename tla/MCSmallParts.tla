----------------------------- MODULE MCSmallParts -----------------------------
(* The parts that share no state with the run of an audit or with each other: a
   snapshot is cleaned, or a host normalised, or a poll budget spent, or a key
   probed.  One part is at work in a behaviour, the others rest.

   Small snapshots and hosts.  The depth limit is 2 here: a container inside a
   container of the root is too deep.  Settings below, at and above the clamps.  *)
EXTENDS Cleaning, Domains, PollBudget, KeyProbe, TLC

CONSTANTS k1, k2, c1, c2

VARIABLE part

MCLeaves == {Leaf(1, FALSE), Leaf(9, FALSE), Leaf(1, TRUE)}
Inner == MCLeaves \cup {List(<<Leaf(1, FALSE)>>)}
Entries(values) == {Entry(trash, v) : trash \in BOOLEAN, v \in values}
UpTo(n, S) == UNION {[1..k -> S] : k \in 0..n}
Middle ==
    MCLeaves \cup {List(s) : s \in UpTo(4, Inner)} \cup {Dict(s) : s \in UpTo(2, Entries(Inner))}

MCSnapshots ==
    {Dict(<<>>)} \cup {Dict(<<e>>) : e \in Entries(Middle)}
                 \cup {Dict(<<e, f>>) : e \in Entries(Middle), f \in Entries(MCLeaves)}

(* "com_" stands for "com" and a no-break space: strip() takes it, " " is not in it. *)
MCLabels == {"", "shop", "SHOP", "com", "PL", "pl", "a b"}
MCBlankEnded == {" shop", "com_"}
MCIpHosts ==
    {<<"10", "0", "0", "1">>, <<"::1">>, <<"2001:db8::1">>, <<"::ffff:10", "0", "0", "1">>}
MCAllLabels ==
    MCLabels \cup MCBlankEnded
        \cup {"10", "0", "1", "2001", "::1", "2001:db8::1", "::ffff:10"}
Unchanged == [l \in MCAllLabels |-> l]
MCLower == "SHOP" :> "shop" @@ "PL" :> "pl" @@ Unchanged
MCLStrip == " shop" :> "shop" @@ Unchanged
MCRStrip == "com_" :> "com" @@ Unchanged
MCBeforeColon == "::1" :> "" @@ "2001:db8::1" :> "2001" @@ "::ffff:10" :> "" @@ Unchanged
MCSpaced == {"a b", " shop"}
MCSuffixes == {<<"com", "pl">>}
MCHostnames ==
    ((UpTo(4, MCLabels) \cup UpTo(2, MCLabels \cup MCBlankEnded)) \ {<<>>}) \cup MCIpHosts

MCConfigured == {-1, 0, 1, 2, 3, 5, 6}

-------------------------------------------------------------------------------
CleaningRests == CleaningInit({Dict(<<>>)})
DomainRests == DomainInit({<<Blank>>})
PollRests == PollInit({1}, {0})
ProbeRests == ProbeInit({"urlscan"}, {FALSE})

CleaningWorks ==
    part = "cleaning" /\ CleaningInit(Snapshots) /\ DomainRests /\ PollRests /\ ProbeRests
DomainWorks ==
    part = "domain" /\ DomainInit(Hostnames) /\ CleaningRests /\ PollRests /\ ProbeRests
PollWorks ==
    /\ part = "poll" /\ PollInit(Configured, 0..LastStart)
    /\ CleaningRests /\ DomainRests /\ ProbeRests
ProbeWorks ==
    /\ part = "probe" /\ ProbeInit({"lighthouse", "urlscan"}, BOOLEAN)
    /\ CleaningRests /\ DomainRests /\ PollRests

Next ==
    \/ part = "cleaning" /\ CleaningStep /\ UNCHANGED <<domainVars, pollVars, probeVars, part>>
    \/ part = "domain" /\ Normalise /\ UNCHANGED <<cleaningVars, pollVars, probeVars, part>>
    \/ part = "poll" /\ PollNext /\ UNCHANGED <<cleaningVars, domainVars, probeVars, part>>
    \/ part = "probe" /\ ProbeNext /\ UNCHANGED <<cleaningVars, domainVars, pollVars, part>>

vars == <<cleaningVars, domainVars, pollVars, probeVars, part>>

Spec == (CleaningWorks \/ DomainWorks \/ PollWorks \/ ProbeWorks) /\ [][Next]_vars

(* The domains alone. *)
DomainSpec == DomainWorks /\ [][Next]_vars
===============================================================================

-------------------------------- MODULE Domains --------------------------------
(***************************************************************************)
(* registrable_domain of utils/domains.py, the key of an audit.            *)
(*                                                                         *)
(* A host is the sequence of its labels as split(".") gives them: Blank is *)
(* the empty label, so <<Blank>> is the empty host and a trailing dot is a *)
(* Blank at the end.                                                       *)
(***************************************************************************)
EXTENDS Filtering, Functions

CONSTANTS
    Hostnames,   \* bound: the hosts asked for
    Lower,       \* function: the lower-case form of each label
    LStrip,      \* function: each label without the whitespace at its front
    RStrip,      \* function: each label without the whitespace at its end
    BeforeColon, \* function: each label up to its first colon
    Spaced,      \* the labels with a space in them
    IpHosts,     \* the hosts that are IP literals
    MultiPartSuffixes,    \* MULTI_PART_SUFFIXES
    Blank        \* the empty label

Labels == DOMAIN Lower

(* split(".") gives at least one label; lower() changes nothing twice and makes no
   label empty; a multi-part suffix has two labels. *)
ASSUME DomainConstants ==
    /\ Blank \in Labels /\ Hostnames \subseteq Seq(Labels) \ {<<>>}
    /\ \A l \in Labels : /\ Lower[l] \in Labels /\ Lower[Lower[l]] = Lower[l]
                         /\ Lower[l] = Blank <=> l = Blank
    /\ {LStrip, RStrip, BeforeColon} \subseteq [Labels -> Labels]
    /\ MultiPartSuffixes \subseteq {s \in Seq(Labels) : Len(s) = 2}

VARIABLES
    hostname,    \* parsed.hostname of what the caller asked for
    domain       \* what normalise_domain makes of it

domainVars == <<hostname, domain>>

(* No key of a host: neither the empty sequence nor two empty labels. *)
Unasked == <<>>
Invalid == <<Blank, Blank>>     \* ValueError

Last2(h) == SubSeq(h, Len(h) - 1, Len(h))

-------------------------------------------------------------------------------
(* Slips: the definitions of the same name without the suffix after a plausible bug. *)
KeySizeSlip(labels) ==          \* only the first label is taken off
    IF Len(labels) > 2 THEN Len(labels) - 1 ELSE 2
KeySizeTwoSlip(labels) == 2     \* the suffixes are not looked at

-------------------------------------------------------------------------------
(* lower().rstrip(".") *)
LowerHost(h) == [i \in DOMAIN h |-> Lower[h[i]]]

StripDots(h) ==
    LET named == {i \in DOMAIN h : h[i] # Blank}
    IN  IF named = {} THEN <<Blank>>
        ELSE SubSeq(h, 1, CHOOSE i \in named : \A j \in named : j <= i)

NonBlank(h) == Without(h, Blank)

(* Three labels when the last two are a multi-part suffix. *)
KeySize(labels) == IF Last2(labels) \in MultiPartSuffixes /\ Len(labels) > 2 THEN 3 ELSE 2

RegistrableDomain(hostGiven) ==
    LET host == StripDots(LowerHost(hostGiven))
        labels == NonBlank(host)
        size == KeySize(labels)
    IN  IF host \in IpHosts \/ Len(host) = 1 THEN host
        ELSE IF Len(labels) < 2 \/ \E l \in Range(labels) : l \in Spaced THEN Invalid
        ELSE SubSeq(labels, Len(labels) - size + 1, Len(labels))

(* normalise_domain refuses a URL without a host before it looks at the host. *)
NormaliseDomain(h) == IF h = <<Blank>> THEN Invalid ELSE RegistrableDomain(h)

(* What urlparse makes of the URL built from a key, "https://" and the key without the
   whitespace around it: the host ends at the first colon, as if a port followed. *)
Strip(key) ==
    LET back == [key EXCEPT ![Len(key)] = RStrip[@]]
    IN  [back EXCEPT ![1] = LStrip[@]]

BeforePort(netloc) ==
    LET colons == {i \in DOMAIN netloc : BeforeColon[netloc[i]] # netloc[i]}
        last == CHOOSE i \in colons : \A j \in colons : i <= j
    IN  IF colons = {} THEN netloc
        ELSE SubSeq([netloc EXCEPT ![last] = BeforeColon[@]], 1, last)

ParsedHost(key) == BeforePort(Strip(key))

DomainInit(inputs) == hostname \in inputs /\ domain = Unasked

Normalise ==
    /\ domain = Unasked
    /\ domain' = NormaliseDomain(hostname)
    /\ UNCHANGED hostname

NormaliseSpec == DomainInit(Hostnames) /\ [][Normalise]_domainVars

-------------------------------------------------------------------------------
(* Properties.                                                                 *)

Keyed == domain \notin {Unasked, Invalid} /\ Len(domain) > 1 /\ domain \notin IpHosts

Plain(key) ==
    /\ \A i \in DOMAIN key : BeforeColon[key[i]] = key[i]
    /\ LStrip[key[1]] = key[1] /\ RStrip[key[Len(key)]] = key[Len(key)]

(* The domain of an audit, stripped, parsed and normalised again as the list filter
   does, is itself.  Excepted, for then it is not: an IPv6 literal, which is taken for
   a host and a port, and a domain with whitespace at an end. *)
DomainIsFixedPoint ==
    domain \notin {Unasked, Invalid, <<Blank>>} /\ Plain(domain)
        => NormaliseDomain(ParsedHost(domain)) = domain

(* eTLD+1: the shortest ending of the host that has two labels and is no known
   suffix; a host that is a suffix is its own key. *)
DomainIsShortestKey ==
    Keyed =>
        LET labels == NonBlank(LowerHost(hostname))
            Ending(n) == SubSeq(labels, Len(labels) - n + 1, Len(labels))
            sizes == {n \in 2..Len(labels) : Ending(n) \notin MultiPartSuffixes}
        IN  domain = IF sizes = {} THEN labels
                     ELSE Ending(CHOOSE n \in sizes : \A k \in sizes : n <= k)

(* normalise_domain "raises ValueError on input without a usable host". *)
DomainIsUsable == domain # <<Blank>>
===============================================================================

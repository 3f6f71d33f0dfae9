------------------------------- MODULE Cleaning -------------------------------
(***************************************************************************)
(* clean_snapshot of cleaning_service.py: what is left of a processed      *)
(* snapshot before it is stored.                                           *)
(*                                                                         *)
(* A JSON value is a leaf, a list or a dict.  Of a leaf only its size and  *)
(* whether it is a blob matter, of a key only whether it names trash.      *)
(***************************************************************************)
EXTENDS Filtering

CONSTANTS
    Snapshots,   \* bound: the snapshots cleaned
    Height,      \* bound: how many containers of a snapshot are nested
    MaxDepth,    \* MAX_DEPTH
    ListCap,     \* LIST_CAP
    SizeLimit    \* SITEINTEL_PROCESSED_MAX_BYTES

VARIABLES
    snapshot,    \* the snapshot a source made
    attempt,     \* the list cap to try, counted from 1
    stored       \* the cleaned snapshot; NotYet, or Refused with `invalid`

cleaningVars == <<snapshot, attempt, stored>>

Leaf(size, blob) == [type |-> "leaf", size |-> size, blob |-> blob]
List(items) == [type |-> "list", items |-> items]
Dict(items) == [type |-> "dict", items |-> items]     \* of entries [trash, value]
Entry(trash, value) == [trash |-> trash, value |-> value]

Dropped == [type |-> "dropped"]
NotYet == [type |-> "not yet"]
Refused == [type |-> "refused"]

IsContainer(v) == v.type \in {"list", "dict"}

Leaves == [type : {"leaf"}, size : Nat, blob : BOOLEAN]
Lists(values) == [type : {"list"}, items : Seq(values)]
Dicts(values) == [type : {"dict"}, items : Seq([trash : BOOLEAN, value : values])]

(* The values with at most so many containers nested. *)
Json[height \in 0..Height] ==
    IF height = 0 THEN Leaves
    ELSE Leaves \cup Lists(Json[height - 1]) \cup Dicts(Json[height - 1])

(* The snapshots of the sources are dicts. *)
ASSUME CleaningConstants ==
    /\ MaxDepth \in Nat \ {0} /\ ListCap \in Nat \ {0} /\ SizeLimit \in Nat /\ Height \in Nat
    /\ \A s \in Snapshots : s \in Json[Height] /\ s.type = "dict"

(* Of the values up to a height by recursion: the length of the JSON text, made of
   brackets, separators and leaves. *)
SumUpTo(sizes) ==
    LET sum[n \in 0..Len(sizes)] == IF n = 0 THEN 0 ELSE sum[n - 1] + sizes[n]
    IN  sum

Sum(sizes) == SumUpTo(sizes)[Len(sizes)]

SizeUpTo ==
    LET size[height \in 0..Height] ==
            [v \in Json[height] |->
                LET part(i) == IF v.type = "list" THEN 1 + size[height - 1][v.items[i]]
                               ELSE 2 + size[height - 1][v.items[i].value]
                IN  IF v.type = "leaf" THEN v.size
                    ELSE 2 + Sum([i \in DOMAIN v.items |-> part(i)])]
    IN  size

JsonSize(v) == SizeUpTo[Height][v]

-------------------------------------------------------------------------------
(* Slips: the definitions of the same name without the suffix after a plausible bug. *)
TooDeepSlip(v, depth) == IsContainer(v) /\ depth > MaxDepth     \* one level too many
CapListSlip(items, cap) ==              \* one item too few
    IF Len(items) >= cap THEN SubSeq(items, 1, cap - 1) ELSE items
ListCapsSlip == <<ListCap>>             \* no second round

-------------------------------------------------------------------------------
TooDeep(v, depth) == IsContainer(v) /\ depth >= MaxDepth

CapList(items, cap) == IF Len(items) > cap THEN SubSeq(items, 1, cap) ELSE items

(* _clean, by recursion over the height of a value: what is trash or too deep is
   dropped; a list is cut after that. *)
CleanUpTo(cap) ==
    LET clean[height \in 0..Height] ==
            [v \in Json[height] |-> [depth \in Nat |->
                LET item(x) == clean[height - 1][x][depth + 1]
                    entry(e) == IF e.trash \/ item(e.value) = Dropped THEN Dropped
                                ELSE Entry(FALSE, item(e.value))
                    entries == [i \in DOMAIN v.items |-> entry(v.items[i])]
                    items == [i \in DOMAIN v.items |-> item(v.items[i])]
                IN  IF TooDeep(v, depth) THEN Dropped
                    ELSE IF v.type = "dict" THEN Dict(Without(entries, Dropped))
                    ELSE IF v.type = "list" THEN List(CapList(Without(items, Dropped), cap))
                    ELSE IF v.blob THEN Dropped ELSE v]]
    IN  clean

Clean(v, depth, cap) == CleanUpTo(cap)[Height][v][depth]

(* Lists are trimmed to LIST_CAP, and if that is too large still, to 1. *)
ListCaps == <<ListCap, 1>>

CleaningInit(inputs) == snapshot \in inputs /\ attempt = 1 /\ stored = NotYet

(* One round of the loop of clean_snapshot. *)
TryListCap ==
    /\ stored = NotYet /\ attempt <= Len(ListCaps)
    /\ LET cleaned == Clean(snapshot, 0, ListCaps[attempt])
       IN  stored' = IF JsonSize(cleaned) < SizeLimit THEN cleaned ELSE NotYet
    /\ attempt' = attempt + 1
    /\ UNCHANGED snapshot

(* The loop is over without a result: SourceError invalid. *)
Refuse ==
    /\ stored = NotYet /\ attempt > Len(ListCaps)
    /\ stored' = Refused
    /\ UNCHANGED <<snapshot, attempt>>

CleaningStep == TryListCap \/ Refuse

CleaningSpec == CleaningInit(Snapshots) /\ [][CleaningStep]_cleaningVars

-------------------------------------------------------------------------------
(* Properties.                                                                 *)

(* The values that are clean where so many containers may be nested: no blob, no
   trash key, no list longer than LIST_CAP. *)
CleanJson[levels \in 0..MaxDepth] ==
    LET leaves == {v \in Leaves : ~v.blob}
        values == CleanJson[levels - 1]
    IN  IF levels = 0 THEN leaves
        ELSE leaves \cup [type : {"list"}, items : {s \in Seq(values) : Len(s) <= ListCap}]
                    \cup [type : {"dict"}, items : Seq([trash : {FALSE}, value : values])]

IsClean(v) == v \in CleanJson[MaxDepth]

(* docs/concept.md: "nesting is cut at depth 6, lists are trimmed to 3 items", base64
   and screenshots are stripped, and the result is below the limit. *)
StoredIsClean ==
    stored \notin {NotYet, Refused} => IsClean(stored) /\ JsonSize(stored) < SizeLimit

(* Cleaning loses nothing else: a snapshot that is clean and below the limit is stored
   as it is, so cleaning twice is cleaning once. *)
CleanIsUnchanged ==
    stored # NotYet /\ IsClean(snapshot) /\ JsonSize(snapshot) < SizeLimit => stored = snapshot

(* A snapshot is refused only when no cap on its lists, tried or not, makes it fit. *)
RefusedIsHopeless ==
    stored = Refused => \A cap \in 1..ListCap : JsonSize(Clean(snapshot, 0, cap)) >= SizeLimit
===============================================================================

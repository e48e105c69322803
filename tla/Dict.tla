-------------------------------- MODULE Dict --------------------------------
(***************************************************************************)
(* The dict of the runtime (src/src/runtime/dict.c): a hash table with     *)
(* linear probing, tombstones and doubling, and its reference count.  A    *)
(* dict has no lock: one thread uses it at a time.                         *)
(***************************************************************************)
EXTENDS Integers, Sequences, FiniteSets, SequencesExt

CONSTANTS
    Keys, Vals, NoVal,
    Hash,         \* Hash[k]: hash_str(k)
    InitCap,      \* DICT_INIT_CAP (16 in the code), a power of two
    MaxCap,       \* bound: the table is not grown past it
    MaxRefs       \* bound: references to the dict

\* An empty slot is left at a load of three quarters.
DictAssumption ==
    /\ Hash \in [Keys -> Nat]
    /\ InitCap \in Nat /\ InitCap >= 4
    /\ MaxCap \in Nat /\ MaxRefs \in Nat

Empty == [kind |-> "empty"]
Tomb == [kind |-> "tomb"]
Entry(k, v) == [kind |-> "live", key |-> k, val |-> v]

VARIABLES
    d,          \* DuxDict: its cap, len, tomb and slots; slot i is d.slots[i + 1]
    refs,       \* DuxDict.refcount
    copies,     \* copies[k]: strdup'd copies of key k not freed
    answer      \* what the last get or has returned

vars == <<d, refs, copies, answer>>

Table(cap) == [cap |-> cap, len |-> 0, tomb |-> 0, slots |-> [i \in 1..cap |-> Empty]]

Init ==
    /\ d = Table(InitCap)
    /\ refs = 1
    /\ copies = [k \in Keys |-> 0]
    /\ answer = NoVal

\* Slot i is stored, and the counters with it.
Put(t, i, slot, len, tomb) ==
    [cap |-> t.cap, len |-> len, tomb |-> tomb, slots |-> [t.slots EXCEPT ![i] = slot]]

\* The slot that the probe for k inspects at its n-th step, n < t.cap: it starts at
\* the hash and wraps around.
At(t, k, n) ==
    LET idx == (Hash[k] % t.cap) + n IN IF idx < t.cap THEN idx + 1 ELSE idx - t.cap + 1

Holds(slot, k) == slot.kind = "live" /\ slot.key = k

\* The steps at which the probe for k may stop: it is at k, or at an empty slot.
\* With none the loop does not end.
Stops(t, k) ==
    {n \in 0..(t.cap - 1) :
        LET s == t.slots[At(t, k, n)] IN s = Empty \/ Holds(s, k)}

ProbeStop(t, k) == Min(Stops(t, k))

\* The slot index of k, 0 when the probe ends at an empty slot.
Find(t, k) ==
    LET i == At(t, k, ProbeStop(t, k)) IN IF Holds(t.slots[i], k) THEN i ELSE 0

\* Mutant: a new entry goes to the first tombstone without looking further.
InsertAtFirstTomb(t, k, v) ==
    LET n == ProbeStop(t, k)
        tombs == {m \in 0..n : t.slots[At(t, k, m)] = Tomb}
        i == At(t, k, IF tombs = {} THEN n ELSE Min(tombs))
    IN  Put(t, i, Entry(k, v), IF Holds(t.slots[i], k) THEN t.len ELSE t.len + 1, t.tomb)

\* dict_insert_raw: the entry of k is updated, or a new one goes to the first
\* tombstone of the probe, else to the empty slot at its end.
Insert(t, k, v) ==
    LET n == ProbeStop(t, k)
        tombs == {m \in 0..n : t.slots[At(t, k, m)] = Tomb}
        i == At(t, k, IF tombs = {} THEN n ELSE Min(tombs))
    IN  IF Find(t, k) # 0
        THEN Put(t, Find(t, k), Entry(k, v), t.len, t.tomb)
        ELSE Put(t, i, Entry(k, v), t.len + 1, t.tomb)

\* dict_grow: twice the slots, the live entries inserted in the order of the old ones.
Move(t, n, new) ==
    LET s == t.slots[n] IN IF s.kind = "live" THEN Insert(new, s.key, s.val) ELSE new
Grow(t) ==
    LET moved[n \in 0..t.cap] ==
            IF n = 0 THEN Table(2 * t.cap) ELSE Move(t, n, moved[n - 1])
    IN  moved[t.cap]

\* Mutant: tombstones do not count.
FullLate(t) == t.len * 4 >= t.cap * 3

\* The load of duxrt_dict_set: tombstones count, and those reused count twice.
Full(t) == (t.len + t.tomb) * 4 >= t.cap * 3

Room(t) == IF Full(t) THEN Grow(t) ELSE t

Set(k, v) ==
    /\ refs > 0
    /\ Full(d) => 2 * d.cap <= MaxCap
    /\ Stops(Room(d), k) # {}
    /\ d' = Insert(Room(d), k, v)
    /\ copies' = [copies EXCEPT ![k] = IF Find(Room(d), k) # 0 THEN @ ELSE @ + 1]
    /\ UNCHANGED <<refs, answer>>

Get(k) ==
    /\ refs > 0
    /\ Stops(d, k) # {}
    /\ answer' = IF Find(d, k) # 0 THEN d.slots[Find(d, k)].val ELSE NoVal
    /\ UNCHANGED <<d, refs, copies>>

Has(k) ==
    /\ refs > 0
    /\ Stops(d, k) # {}
    /\ answer' = (Find(d, k) # 0)
    /\ UNCHANGED <<d, refs, copies>>

\* Mutant: the key of a deleted entry is not freed.
DelLeaky(k) ==
    /\ refs > 0
    /\ Stops(d, k) # {}
    /\ d' = IF Find(d, k) # 0
            THEN Put(d, Find(d, k), Tomb, d.len - 1, d.tomb + 1)
            ELSE d
    /\ UNCHANGED <<refs, copies, answer>>

Del(k) ==
    /\ refs > 0
    /\ Stops(d, k) # {}
    /\ IF Find(d, k) # 0
       THEN /\ d' = Put(d, Find(d, k), Tomb, d.len - 1, d.tomb + 1)
            /\ copies' = [copies EXCEPT ![k] = @ - 1]
       ELSE UNCHANGED <<d, copies>>
    /\ UNCHANGED <<refs, answer>>

Retain ==
    /\ refs \in 1..(MaxRefs - 1)
    /\ refs' = refs + 1
    /\ UNCHANGED <<d, copies, answer>>

LiveKeys(t) == {s.key : s \in {x \in Range(t.slots) : x.kind = "live"}}

\* The last reference frees the keys of the live slots, and the table.
Release ==
    /\ refs > 0
    /\ refs' = refs - 1
    /\ IF refs = 1
       THEN /\ copies' = [k \in Keys |-> IF k \in LiveKeys(d) THEN copies[k] - 1 ELSE copies[k]]
            /\ d' = Table(InitCap)
       ELSE UNCHANGED <<d, copies>>
    /\ UNCHANGED answer

Next ==
    \/ \E k \in Keys : Get(k) \/ Has(k) \/ Del(k) \/ \E v \in Vals : Set(k, v)
    \/ Retain \/ Release

Spec == Init /\ [][Next]_vars

-----------------------------------------------------------------------------
(* Properties.                                                             *)

\* Type correctness: the counters are the numbers they stand for; d.tomb counts
\* reused tombstones too, and so is an upper bound.
TypeOK ==
    /\ d.cap \in InitCap..MaxCap /\ Len(d.slots) = d.cap
    /\ d.len = Cardinality({i \in 1..d.cap : d.slots[i].kind = "live"})
    /\ d.tomb >= Cardinality({i \in 1..d.cap : d.slots[i] = Tomb})
    /\ refs \in 0..MaxRefs

\* duxrt_dict_set, get, has, del: every probe ends.  The loops have no other exit
\* than an empty slot or the key, so the load test must keep an empty slot through
\* any sequence of insertions and deletions.
ProbeEnds == \E i \in 1..d.cap : d.slots[i] = Empty

\* dict_insert_raw owns one copy of each key that is in the table: what set
\* duplicates, del, an update and the last release free exactly once.
KeysOwned == \A k \in Keys : copies[k] = IF k \in LiveKeys(d) THEN 1 ELSE 0

\* The map the table stands for.
Content ==
    [k \in LiveKeys(d) |-> (CHOOSE s \in Range(d.slots) : Holds(s, k)).val]

M == INSTANCE Map WITH content <- Content, answer <- answer

\* The table is a map: a lookup finds what the last set stored, across the
\* collisions, the reused tombstones and the moves of every growth.
Implements == M!Spec

=============================================================================

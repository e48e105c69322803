----------------------------- MODULE DictProofs -----------------------------
(***************************************************************************)
(* The hash table of the runtime is a map, for any keys, hashes and        *)
(* sequence of calls: every probe ends, each key of the table is owned     *)
(* once, and lookups answer as those of an abstract map do.                *)
(***************************************************************************)
EXTENDS Dict, FiniteSetTheorems, TLAPS

-----------------------------------------------------------------------------
(* Induction.                                                              *)

\* Induction over a set: the numbers up to x that are not in it would be as many
\* as their predecessors, which miss x.
LEMMA SetInduction ==
    ASSUME NEW S, 0 \in S, \A n \in Nat : n \in S => n + 1 \in S
    PROVE  Nat \subseteq S
<1>. SUFFICES ASSUME NEW x \in Nat, x \notin S PROVE FALSE
  OBVIOUS
<1>. DEFINE Out == {i \in 0 .. x : i \notin S}
            Less == Out \ {x}
            pred == [i \in Out |-> i - 1]
<1>1. pred \in [Out -> Less]
  <2>1. ASSUME NEW i \in Out PROVE i - 1 \in Less
    <3>1. i \in 0 .. x /\ i # 0 /\ i - 1 \in Nat
      OBVIOUS
    <3>2. i - 1 \in S => (i - 1) + 1 \in S
      BY <3>1
    <3>. QED
      BY <3>1, <3>2
  <2>. QED
    BY <2>1
<1>2. IsFiniteSet(Out)
  <2>1. IsFiniteSet(0 .. x)
    BY FS_Interval
  <2>2. Out \in SUBSET (0 .. x)
    OBVIOUS
  <2>. HIDE DEF Out
  <2>. QED
    BY <2>1, <2>2, FS_Subset
<1>3. IsFiniteSet(Less) /\ Cardinality(Less) < Cardinality(Out)
  <2>1. x \in Out
    OBVIOUS
  <2>. HIDE DEF Out
  <2>2. IsFiniteSet(Less) /\ Cardinality(Less) = Cardinality(Out) - 1
    BY <1>2, <2>1, FS_RemoveElement
  <2>3. Cardinality(Out) \in Nat
    BY <1>2, FS_CardinalityType
  <2>. QED
    BY <2>2, <2>3
<1>4. PICK i, j \in Out : i # j /\ pred[i] = pred[j]
  <2>. HIDE DEF Out, Less, pred
  <2>. QED
    BY <1>1, <1>2, <1>3, FS_PigeonHole
<1>. QED
  BY <1>4

\* A set of numbers that is not empty has a least element.
LEMMA Least ==
    ASSUME NEW S \in SUBSET Nat, S # {}
    PROVE  Min(S) \in S /\ \A y \in S : Min(S) <= y
<1>1. \E x \in S : \A y \in S : x <= y
  <2>. SUFFICES ASSUME \A x \in S : \E y \in S : ~(x <= y) PROVE FALSE
    OBVIOUS
  <2>. DEFINE Under == {n \in Nat : \A m \in 0 .. n : m \notin S}
  <2>1. 0 \in Under
    OBVIOUS
  <2>2. ASSUME NEW n \in Nat, n \in Under PROVE n + 1 \in Under
    <3>1. n + 1 \notin S
      <4>. SUFFICES ASSUME n + 1 \in S PROVE FALSE
        OBVIOUS
      <4>1. PICK y \in S : ~(n + 1 <= y)
        OBVIOUS
      <4>. QED
        BY <2>2, <4>1
    <3>. QED
      BY <2>2, <3>1
  <2>3. Nat \subseteq Under
    <3>. HIDE DEF Under
    <3>. QED
      BY <2>1, <2>2, SetInduction
  <2>4. \A y \in S : y \in Nat /\ y \notin S
    <3>1. ASSUME NEW y \in S PROVE y \in Nat /\ y \notin S
      <4>1. y \in Under /\ y \in 0 .. y
        BY <2>3
      <4>. QED
        BY <4>1
    <3>. QED
      BY <3>1
  <2>. QED
    BY <2>4
<1>. QED
  BY <1>1 DEF Min

-----------------------------------------------------------------------------
(* A table, and what a probe of it finds.                                  *)

Slots == {Empty, Tomb} \cup {Entry(k, v) : k \in Keys, v \in Vals}

IsTable(t) ==
    /\ t.cap \in Nat /\ t.cap >= 4 /\ t.len \in Nat /\ t.tomb \in Nat
    /\ t.slots \in [1 .. t.cap -> Slots]

Live(t) == {i \in 1 .. t.cap : t.slots[i].kind = "live"}
Tombs(t) == {i \in 1 .. t.cap : t.slots[i] = Tomb}

\* The counters: len is exact, tomb an upper bound, and both leave a slot over.
Numbered(t) ==
    /\ Cardinality(Live(t)) = t.len
    /\ Cardinality(Tombs(t)) <= t.tomb
    /\ t.len + t.tomb < t.cap

\* No key has two entries.
Distinct(t) == \A i, j \in Live(t) : t.slots[i].key = t.slots[j].key => i = j

\* The probe for k meets slot i, and no empty slot before it.
Leads(t, k, i) ==
    \E n \in 0 .. (t.cap - 1) :
        At(t, k, n) = i /\ \A m \in 0 .. (n - 1) : t.slots[At(t, k, m)] # Empty

Reachable(t) == \A i \in Live(t) : Leads(t, t.slots[i].key, i)

\* The inductive invariant of a table.
TableInv(t) == IsTable(t) /\ Numbered(t) /\ Distinct(t) /\ Reachable(t)

\* The three kinds of slots.
LEMMA SlotKinds ==
    /\ Empty \in Slots /\ Empty.kind = "empty"
    /\ Tomb \in Slots /\ Tomb.kind = "tomb"
    /\ \A k \in Keys, v \in Vals :
          /\ Entry(k, v) \in Slots /\ Entry(k, v).kind = "live"
          /\ Entry(k, v).key = k /\ Entry(k, v).val = v
    /\ \A s \in Slots : \/ s = Empty
                        \/ s = Tomb
                        \/ s.kind = "live" /\ s.key \in Keys /\ s.val \in Vals
                           /\ s = Entry(s.key, s.val)
<1>1. Empty.kind = "empty" /\ Tomb.kind = "tomb"
  BY DEF Empty, Tomb
<1>2. \A k, v : Entry(k, v).kind = "live" /\ Entry(k, v).key = k /\ Entry(k, v).val = v
  BY DEF Entry
<1>3. /\ Empty \in Slots /\ Tomb \in Slots
      /\ \A k \in Keys, v \in Vals : Entry(k, v) \in Slots
  BY DEF Slots
<1>4. ASSUME NEW s \in Slots, s # Empty, s # Tomb
      PROVE  s.kind = "live" /\ s.key \in Keys /\ s.val \in Vals /\ s = Entry(s.key, s.val)
  <2>1. PICK k \in Keys, v \in Vals : s = Entry(k, v)
    BY <1>4 DEF Slots
  <2>. QED
    BY <1>2, <2>1
<1>. QED
  BY <1>1, <1>2, <1>3, <1>4

\* The hash of a key is a slot of the table, counted from 0.
LEMMA HomeRange ==
    ASSUME DictAssumption, NEW k \in Keys, NEW c \in Nat, c >= 4
    PROVE  Hash[k] % c \in 0 .. (c - 1)
<1>1. Hash[k] \in Nat
  BY DEF DictAssumption
<1>. QED
  BY <1>1

\* A probe stays in the table, and inspects every slot of it.
LEMMA ProbeCovers ==
    ASSUME DictAssumption, NEW k \in Keys, NEW t, t.cap \in Nat, t.cap >= 4
    PROVE  /\ \A n \in 0 .. (t.cap - 1) : At(t, k, n) \in 1 .. t.cap
           /\ \A i \in 1 .. t.cap : \E n \in 0 .. (t.cap - 1) : At(t, k, n) = i
<1>. PICK c \in Nat : c = t.cap
  OBVIOUS
<1>. PICK h : h = Hash[k] % c
  OBVIOUS
<1>1. h \in 0 .. (c - 1)
  BY HomeRange
<1>2. \A n \in 0 .. (c - 1) : At(t, k, n) = IF h + n < c THEN h + n + 1 ELSE h + n - c + 1
  BY DEF At
<1>3. ASSUME NEW i \in 1 .. c PROVE \E n \in 0 .. (c - 1) : At(t, k, n) = i
  <2>1. CASE i - 1 >= h
    <3>1. i - 1 - h \in 0 .. (c - 1) /\ At(t, k, i - 1 - h) = i
      BY <1>1, <1>2, <2>1
    <3>. QED
      BY <3>1
  <2>2. CASE i - 1 < h
    <3>1. i - 1 - h + c \in 0 .. (c - 1) /\ At(t, k, i - 1 - h + c) = i
      BY <1>1, <1>2, <2>2
    <3>. QED
      BY <3>1
  <2>. QED
    BY <1>1, <2>1, <2>2
<1>4. \A n \in 0 .. (c - 1) : At(t, k, n) \in 1 .. c
  BY <1>1, <1>2
<1>. QED
  BY <1>3, <1>4

\* The load leaves an empty slot.
LEMMA EmptyLeft ==
    ASSUME NEW t, IsTable(t), Numbered(t)
    PROVE  \E i \in 1 .. t.cap : t.slots[i] = Empty
<1>. SUFFICES ASSUME \A i \in 1 .. t.cap : t.slots[i] # Empty PROVE FALSE
  OBVIOUS
<1>1. t.cap \in Nat /\ t.len \in Nat /\ t.tomb \in Nat
  BY DEF IsTable
<1>2. IsFiniteSet(1 .. t.cap) /\ Cardinality(1 .. t.cap) = t.cap
  <2>1. t.cap >= 4 /\ t.cap \in Int /\ 1 \in Int
    BY <1>1 DEF IsTable
  <2>2. /\ IsFiniteSet(1 .. t.cap)
        /\ Cardinality(1 .. t.cap) = IF 1 > t.cap THEN 0 ELSE t.cap - 1 + 1
    BY <2>1, FS_Interval
  <2>. QED
    BY <2>1, <2>2
<1>3. Live(t) \in SUBSET (1 .. t.cap) /\ Tombs(t) \in SUBSET (1 .. t.cap)
  BY DEF Live, Tombs
<1>4. IsFiniteSet(Live(t)) /\ IsFiniteSet(Tombs(t))
  BY <1>2, <1>3, FS_Subset
<1>5. 1 .. t.cap = Live(t) \cup Tombs(t)
  <2>1. \A i \in 1 .. t.cap : t.slots[i] \in Slots
    BY DEF IsTable
  <2>2. \A i \in 1 .. t.cap : i \in Live(t) \/ i \in Tombs(t)
    BY <2>1, SlotKinds DEF Live, Tombs
  <2>. QED
    BY <1>3, <2>2
<1>6. Cardinality(Live(t) \cup Tombs(t)) <= t.len + t.tomb
  <2>1. /\ Cardinality(Live(t) \cup Tombs(t))
             = Cardinality(Live(t)) + Cardinality(Tombs(t)) - Cardinality(Live(t) \cap Tombs(t))
    BY <1>4, FS_Union
  <2>2. IsFiniteSet(Live(t) \cap Tombs(t))
    BY <1>4, FS_Intersection
  <2>3. /\ Cardinality(Live(t)) \in Nat /\ Cardinality(Tombs(t)) \in Nat
        /\ Cardinality(Live(t) \cap Tombs(t)) \in Nat
    BY <1>4, <2>2, FS_CardinalityType
  <2>. QED
    BY <1>1, <2>1, <2>3 DEF Numbered
<1>7. t.cap <= t.len + t.tomb /\ t.len + t.tomb < t.cap
  BY <1>2, <1>5, <1>6 DEF Numbered
<1>. QED
  BY <1>1, <1>7

\* Every probe stops, at the first step where it may.
LEMMA ProbeStops ==
    ASSUME DictAssumption, NEW k \in Keys, NEW t, IsTable(t), Numbered(t)
    PROVE  /\ Stops(t, k) # {}
           /\ ProbeStop(t, k) \in Stops(t, k)
           /\ \A n \in Stops(t, k) : ProbeStop(t, k) <= n
<1>1. t.cap \in Nat /\ t.cap >= 4
  BY DEF IsTable
<1>2. PICK i \in 1 .. t.cap : t.slots[i] = Empty
  BY EmptyLeft
<1>3. PICK n \in 0 .. (t.cap - 1) : At(t, k, n) = i
  BY <1>1, ProbeCovers
<1>4. n \in Stops(t, k)
  BY <1>2, <1>3 DEF Stops
<1>5. Stops(t, k) \in SUBSET Nat
  BY <1>1 DEF Stops
<1>. QED
  BY <1>4, <1>5, Least DEF ProbeStop

\* Find returns the slot that holds the key, if there is one.
LEMMA FindRight ==
    ASSUME DictAssumption, NEW k \in Keys, NEW t, TableInv(t)
    PROVE  /\ Find(t, k) # 0 => /\ Find(t, k) \in 1 .. t.cap
                                /\ Holds(t.slots[Find(t, k)], k)
           /\ \A i \in 1 .. t.cap : Holds(t.slots[i], k) => Find(t, k) = i
<1>0. IsTable(t) /\ Numbered(t) /\ Distinct(t) /\ Reachable(t)
  BY DEF TableInv
<1>. PICK c : c = t.cap
  OBVIOUS
<1>1. c \in Nat /\ c >= 4
  BY <1>0 DEF IsTable
<1>. PICK n : n = ProbeStop(t, k)
  OBVIOUS
<1>2. /\ n \in Stops(t, k)
      /\ \A m \in Stops(t, k) : n <= m
  BY <1>0, ProbeStops
<1>3. n \in 0 .. (c - 1) /\ At(t, k, n) \in 1 .. c
  BY <1>1, <1>2, ProbeCovers DEF Stops
<1>4. Find(t, k) = IF Holds(t.slots[At(t, k, n)], k) THEN At(t, k, n) ELSE 0
  BY DEF Find
<1>5. ASSUME NEW i \in 1 .. c, Holds(t.slots[i], k) PROVE Holds(t.slots[At(t, k, n)], k)
  <2>1. i \in Live(t) /\ t.slots[i].key = k
    BY <1>5 DEF Holds, Live
  <2>2. PICK m \in 0 .. (c - 1) :
           At(t, k, m) = i /\ \A q \in 0 .. (m - 1) : t.slots[At(t, k, q)] # Empty
    BY <1>0, <2>1 DEF Reachable, Leads
  <2>3. m \in Stops(t, k)
    BY <1>5, <2>2 DEF Stops
  <2>4. n <= m
    BY <1>2, <2>3
  <2>5. CASE n = m
    BY <1>5, <2>2, <2>5
  <2>6. CASE n < m
    <3>1. t.slots[At(t, k, n)] # Empty
      BY <1>3, <2>2, <2>6
    <3>. QED
      BY <1>2, <3>1 DEF Stops
  <2>. QED
    BY <1>1, <1>3, <2>4, <2>5, <2>6
<1>6. ASSUME NEW i \in 1 .. c, Holds(t.slots[i], k) PROVE Find(t, k) = i
  <2>1. Holds(t.slots[At(t, k, n)], k)
    BY <1>5, <1>6
  <2>2. i \in Live(t) /\ At(t, k, n) \in Live(t) /\ t.slots[i].key = t.slots[At(t, k, n)].key
    BY <1>3, <1>6, <2>1 DEF Holds, Live
  <2>3. i = At(t, k, n)
    BY <1>0, <2>2 DEF Distinct
  <2>. QED
    BY <1>4, <2>1, <2>3
<1>. QED
  BY <1>1, <1>3, <1>4, <1>6

-----------------------------------------------------------------------------
(* One slot changes.                                                       *)

\* u is t with s in slot i.
Changed(t, u, i, s) ==
    /\ IsTable(t) /\ IsTable(u) /\ u.cap = t.cap /\ i \in 1 .. t.cap /\ s \in Slots
    /\ \A j \in 1 .. t.cap : u.slots[j] = IF j = i THEN s ELSE t.slots[j]

\* Put changes one slot.
LEMMA PutChanges ==
    ASSUME NEW t, IsTable(t), NEW i \in 1 .. t.cap, NEW s \in Slots,
           NEW len \in Nat, NEW tomb \in Nat, NEW u, u = Put(t, i, s, len, tomb)
    PROVE  Changed(t, u, i, s) /\ u.len = len /\ u.tomb = tomb
<1>1. /\ u.cap = t.cap /\ u.len = len /\ u.tomb = tomb
      /\ u.slots = [t.slots EXCEPT ![i] = s]
  BY DEF Put
<1>2. t.cap \in Nat /\ t.cap >= 4 /\ t.slots \in [1 .. t.cap -> Slots]
  BY DEF IsTable
<1>3. /\ u.slots \in [1 .. t.cap -> Slots]
      /\ \A j \in 1 .. t.cap : u.slots[j] = IF j = i THEN s ELSE t.slots[j]
  BY <1>1, <1>2
<1>4. IsTable(u)
  BY <1>1, <1>2, <1>3 DEF IsTable
<1>. QED
  BY <1>1, <1>3, <1>4 DEF Changed

\* What leads to a slot still does when no slot becomes empty.
LEMMA StillLeads ==
    ASSUME DictAssumption, NEW t, NEW u, NEW i, NEW s, Changed(t, u, i, s), s # Empty,
           NEW k \in Keys, NEW j, Leads(t, k, j)
    PROVE  Leads(u, k, j)
<1>1. /\ u.cap = t.cap /\ t.cap \in Nat /\ t.cap >= 4
      /\ \A x \in 1 .. t.cap : u.slots[x] = IF x = i THEN s ELSE t.slots[x]
  BY DEF Changed, IsTable
<1>2. PICK n \in 0 .. (t.cap - 1) :
         At(t, k, n) = j /\ \A m \in 0 .. (n - 1) : t.slots[At(t, k, m)] # Empty
  BY DEF Leads
<1>3. \A m : At(u, k, m) = At(t, k, m)
  BY <1>1 DEF At
<1>4. \A m \in 0 .. (n - 1) : m \in 0 .. (t.cap - 1) /\ At(t, k, m) \in 1 .. t.cap
  BY <1>1, ProbeCovers
<1>5. \A m \in 0 .. (n - 1) : u.slots[At(u, k, m)] # Empty
  BY <1>1, <1>2, <1>3, <1>4
<1>. QED
  BY <1>1, <1>2, <1>3, <1>5 DEF Leads

\* A table whose slot i takes an entry for k, where no other slot has one, keeps its
\* keys apart and reachable.
LEMMA EntryPut ==
    ASSUME DictAssumption, NEW t, NEW u, NEW i, NEW k \in Keys, NEW v \in Vals,
           Changed(t, u, i, Entry(k, v)), Distinct(t), Reachable(t), Leads(t, k, i),
           \A j \in 1 .. t.cap : Holds(t.slots[j], k) => j = i
    PROVE  Distinct(u) /\ Reachable(u) /\ Live(u) = Live(t) \cup {i} /\ Tombs(u) \subseteq Tombs(t)
<1>1. /\ u.cap = t.cap /\ i \in 1 .. t.cap
      /\ \A j \in 1 .. t.cap : u.slots[j] = IF j = i THEN Entry(k, v) ELSE t.slots[j]
  BY DEF Changed
<1>2. /\ Entry(k, v).kind = "live" /\ Entry(k, v).key = k /\ Entry(k, v) # Tomb
      /\ Entry(k, v) # Empty
  BY SlotKinds
<1>3. Live(u) = Live(t) \cup {i}
  BY <1>1, <1>2 DEF Live
<1>4. Tombs(u) \subseteq Tombs(t)
  BY <1>1, <1>2 DEF Tombs
<1>5. Distinct(u)
  <2>. SUFFICES ASSUME NEW x \in Live(u), NEW y \in Live(u), u.slots[x].key = u.slots[y].key
                PROVE  x = y
    BY DEF Distinct
  <2>1. x \in 1 .. t.cap /\ y \in 1 .. t.cap
    BY <1>1 DEF Live
  <2>2. CASE x # i /\ y # i
    BY <1>1, <1>3, <2>1, <2>2 DEF Distinct
  <2>3. CASE x # i /\ y = i
    <3>1. t.slots[x].key = k /\ t.slots[x].kind = "live"
      BY <1>1, <1>2, <1>3, <2>1, <2>3 DEF Live
    <3>. QED
      BY <2>1, <2>3, <3>1 DEF Holds
  <2>4. CASE x = i /\ y # i
    <3>1. t.slots[y].key = k /\ t.slots[y].kind = "live"
      BY <1>1, <1>2, <1>3, <2>1, <2>4 DEF Live
    <3>. QED
      BY <2>1, <2>4, <3>1 DEF Holds
  <2>. QED
    BY <2>2, <2>3, <2>4
<1>6. Reachable(u)
  <2>. SUFFICES ASSUME NEW x \in Live(u) PROVE Leads(u, u.slots[x].key, x)
    BY DEF Reachable
  <2>1. CASE x = i
    <3>1. u.slots[x].key = k
      BY <1>1, <1>2, <2>1
    <3>2. Leads(u, k, i)
      BY <1>2, StillLeads
    <3>. QED
      BY <2>1, <3>1, <3>2
  <2>2. CASE x # i
    <3>1. x \in Live(t) /\ u.slots[x] = t.slots[x] /\ x \in 1 .. t.cap
      BY <1>1, <1>3, <2>2 DEF Live
    <3>2. t.slots[x].key \in Keys
      <4>1. t.slots[x] \in Slots /\ t.slots[x].kind = "live"
        BY <3>1 DEF Changed, IsTable, Live
      <4>. QED
        BY <4>1, SlotKinds
    <3>3. Leads(t, t.slots[x].key, x)
      BY <3>1 DEF Reachable
    <3>4. Leads(u, t.slots[x].key, x)
      BY <1>2, <3>2, <3>3, StillLeads
    <3>. QED
      BY <3>1, <3>4
  <2>. QED
    BY <2>1, <2>2
<1>. QED
  BY <1>3, <1>4, <1>5, <1>6

-----------------------------------------------------------------------------
(* dict_insert_raw.                                                        *)

\* What an insertion of v for k makes of t, where the load leaves room for one more.
Inserted(t, u, k, v) ==
    /\ TableInv(u) /\ u.cap = t.cap /\ u.tomb = t.tomb /\ u.len <= t.len + 1
    /\ \E i \in 1 .. t.cap :
          /\ Changed(t, u, i, Entry(k, v))
          /\ Find(t, k) # 0 => i = Find(t, k)
          /\ Find(t, k) = 0 => i \notin Live(t)

\* A new key goes to a slot that holds none: the first tombstone that the probe
\* meets, or the empty slot at its end.
LEMMA NewPlace ==
    ASSUME DictAssumption, NEW t, TableInv(t), NEW k \in Keys, Find(t, k) = 0,
           NEW n, n = ProbeStop(t, k),
           NEW tombs, tombs = {m \in 0 .. n : t.slots[At(t, k, m)] = Tomb},
           NEW i, i = At(t, k, IF tombs = {} THEN n ELSE Min(tombs))
    PROVE  i \in 1 .. t.cap /\ t.slots[i] \in {Empty, Tomb} /\ Leads(t, k, i)
<1>0. IsTable(t) /\ Numbered(t)
  BY DEF TableInv
<1>. PICK c : c = t.cap
  OBVIOUS
<1>1. c \in Nat /\ c >= 4
  BY <1>0 DEF IsTable
<1>2. n \in Stops(t, k) /\ \A m \in Stops(t, k) : n <= m
  BY <1>0, ProbeStops
<1>3. n \in 0 .. (c - 1) /\ At(t, k, n) \in 1 .. c
  BY <1>1, <1>2, ProbeCovers DEF Stops
<1>4. ASSUME NEW m \in 0 .. (n - 1) PROVE t.slots[At(t, k, m)] # Empty
  <2>1. m \in 0 .. (c - 1) /\ ~(n <= m)
    BY <1>1, <1>3
  <2>2. m \notin Stops(t, k)
    BY <1>2, <2>1
  <2>. QED
    BY <2>1, <2>2 DEF Stops
<1>5. CASE tombs = {}
  <2>1. i = At(t, k, n)
    BY <1>5
  <2>2. ~Holds(t.slots[i], k)
    <3>1. Find(t, k) = IF Holds(t.slots[i], k) THEN i ELSE 0
      BY <2>1 DEF Find
    <3>. QED
      BY <1>1, <1>3, <2>1, <3>1
  <2>3. t.slots[i] = Empty
    BY <1>2, <2>1, <2>2 DEF Stops
  <2>. QED
    BY <1>3, <1>4, <2>1, <2>3 DEF Leads
<1>6. CASE tombs # {}
  <2>. PICK m : m = Min(tombs)
    OBVIOUS
  <2>1. tombs \in SUBSET Nat
    OBVIOUS
  <2>2. m \in tombs
    BY <1>6, <2>1, Least
  <2>3. m \in 0 .. n /\ t.slots[At(t, k, m)] = Tomb /\ i = At(t, k, m)
    BY <1>6, <2>2
  <2>4. m \in 0 .. (c - 1) /\ At(t, k, m) \in 1 .. c
    BY <1>1, <1>3, <2>3, ProbeCovers
  <2>5. \A q \in 0 .. (m - 1) : q \in 0 .. (n - 1)
    BY <1>3, <2>3
  <2>. QED
    BY <1>4, <2>3, <2>4, <2>5 DEF Leads
<1>. QED
  BY <1>5, <1>6

\* An insertion keeps the invariant.
LEMMA InsertRight ==
    ASSUME DictAssumption, NEW t, TableInv(t), t.len + 1 + t.tomb < t.cap,
           NEW k \in Keys, NEW v \in Vals
    PROVE  Inserted(t, Insert(t, k, v), k, v)
<1>. PICK u : u = Insert(t, k, v)
  OBVIOUS
<1>0. IsTable(t) /\ Numbered(t) /\ Distinct(t) /\ Reachable(t)
  BY DEF TableInv
<1>1. /\ t.cap \in Nat /\ t.len \in Nat /\ t.tomb \in Nat
      /\ IsFiniteSet(1 .. t.cap)
  <2>1. t.cap \in Nat /\ t.len \in Nat /\ t.tomb \in Nat
    BY <1>0 DEF IsTable
  <2>2. t.cap \in Int /\ 1 \in Int
    BY <2>1
  <2>. QED
    BY <2>1, <2>2, FS_Interval
<1>2. Entry(k, v) \in Slots /\ Entry(k, v) # Empty
  BY SlotKinds
<1>3. IsFiniteSet(Live(t)) /\ IsFiniteSet(Tombs(t))
  <2>1. Live(t) \in SUBSET (1 .. t.cap) /\ Tombs(t) \in SUBSET (1 .. t.cap)
    BY DEF Live, Tombs
  <2>. QED
    BY <1>1, <2>1, FS_Subset
<1>4. ASSUME NEW i \in 1 .. t.cap, NEW len \in Nat, Changed(t, u, i, Entry(k, v)),
             u.len = len, u.tomb = t.tomb, len <= t.len + 1,
             Distinct(u), Reachable(u), Cardinality(Live(u)) = len, Tombs(u) \subseteq Tombs(t)
      PROVE  TableInv(u)
  <2>1. Cardinality(Tombs(u)) <= Cardinality(Tombs(t))
    <3>1. Tombs(u) \in SUBSET Tombs(t)
      BY <1>4
    <3>. QED
      BY <1>3, <3>1, FS_Subset
  <2>2. Tombs(u) \in SUBSET Tombs(t) /\ Cardinality(Tombs(t)) \in Nat
    BY <1>3, <1>4, FS_CardinalityType
  <2>3. IsFiniteSet(Tombs(u)) /\ Cardinality(Tombs(u)) \in Nat
    BY <1>3, <2>2, FS_Subset, FS_CardinalityType
  <2>4. u.cap = t.cap /\ IsTable(u)
    BY <1>4 DEF Changed
  <2>5. Cardinality(Tombs(t)) <= t.tomb
    BY <1>0 DEF Numbered
  <2>6. Cardinality(Tombs(u)) <= u.tomb
    BY <1>1, <1>4, <2>1, <2>2, <2>3, <2>5
  <2>7. u.len + u.tomb < u.cap
    BY <1>1, <1>4, <2>4
  <2>8. Numbered(u)
    BY <1>4, <2>6, <2>7 DEF Numbered
  <2>. QED
    BY <1>4, <2>4, <2>8 DEF TableInv
<1>5. CASE Find(t, k) # 0
  <2>. PICK i : i = Find(t, k)
    OBVIOUS
  <2>1. i \in 1 .. t.cap /\ Holds(t.slots[i], k) /\ \A j \in 1 .. t.cap : Holds(t.slots[j], k) => j = i
    BY <1>5, FindRight
  <2>2. u = Put(t, i, Entry(k, v), t.len, t.tomb)
    BY <1>5 DEF Insert
  <2>3. Changed(t, u, i, Entry(k, v)) /\ u.len = t.len /\ u.tomb = t.tomb
    BY <1>0, <1>1, <1>2, <2>1, <2>2, PutChanges
  <2>4. i \in Live(t) /\ t.slots[i].key = k
    BY <2>1 DEF Holds, Live
  <2>5. Leads(t, k, i)
    BY <1>0, <2>4 DEF Reachable
  <2>6. Distinct(u) /\ Reachable(u) /\ Live(u) = Live(t) /\ Tombs(u) \subseteq Tombs(t)
    <3>1. Distinct(u) /\ Reachable(u) /\ Live(u) = Live(t) \cup {i} /\ Tombs(u) \subseteq Tombs(t)
      BY <1>0, <2>1, <2>3, <2>5, EntryPut
    <3>. QED
      BY <2>4, <3>1
  <2>7. TableInv(u)
    BY <1>0, <1>1, <1>4, <2>1, <2>3, <2>6 DEF Numbered
  <2>8. u.cap = t.cap /\ u.len <= t.len + 1
    BY <1>1, <2>3 DEF Changed
  <2>. QED
    BY <1>5, <2>1, <2>3, <2>7, <2>8 DEF Inserted
<1>6. CASE Find(t, k) = 0
  <2>. PICK n : n = ProbeStop(t, k)
    OBVIOUS
  <2>. PICK tombs : tombs = {m \in 0 .. n : t.slots[At(t, k, m)] = Tomb}
    OBVIOUS
  <2>. PICK i : i = At(t, k, IF tombs = {} THEN n ELSE Min(tombs))
    OBVIOUS
  <2>1. i \in 1 .. t.cap /\ t.slots[i] \in {Empty, Tomb} /\ Leads(t, k, i)
    BY <1>6, NewPlace
  <2>. PICK len \in Nat : len = t.len + 1
    BY <1>1
  <2>2. u = Put(t, i, Entry(k, v), len, t.tomb)
    BY <1>6 DEF Insert
  <2>3. Changed(t, u, i, Entry(k, v)) /\ u.len = len /\ u.tomb = t.tomb
    <3>1. len \in Nat
      OBVIOUS
    <3>. QED
      BY ONLY <1>0, <1>1, <1>2, <2>1, <2>2, <3>1, PutChanges
  <2>4. \A j \in 1 .. t.cap : ~Holds(t.slots[j], k)
    <3>1. \A j \in 1 .. t.cap : j # 0
      BY <1>1
    <3>. QED
      BY <1>6, <3>1, FindRight
  <2>5. Distinct(u) /\ Reachable(u) /\ Live(u) = Live(t) \cup {i} /\ Tombs(u) \subseteq Tombs(t)
    BY <1>0, <2>1, <2>3, <2>4, EntryPut
  <2>6. i \notin Live(t)
    BY <2>1, SlotKinds DEF Live
  <2>7. Cardinality(Live(u)) = t.len + 1
    <3>1. Cardinality(Live(t) \cup {i}) = Cardinality(Live(t)) + 1
      BY <1>3, <2>6, FS_AddElement
    <3>. QED
      BY <1>0, <2>5, <3>1 DEF Numbered
  <2>8. TableInv(u)
    <3>1. Cardinality(Live(u)) = len /\ len <= t.len + 1
      BY <1>1, <2>7
    <3>. QED
      BY <1>4, <2>1, <2>3, <2>5, <3>1
  <2>9. u.cap = t.cap /\ u.len <= t.len + 1
    BY <1>1, <2>3 DEF Changed
  <2>. QED
    BY <1>6, <2>1, <2>3, <2>6, <2>8, <2>9 DEF Inserted
<1>. QED
  BY <1>5, <1>6

\* The table t holds the value v for the key k.
Held(t, k, v) == \E i \in 1 .. t.cap : t.slots[i] = Entry(k, v)

\* An insertion sets the value of its key and no other.
LEMMA InsertedHolds ==
    ASSUME DictAssumption, NEW t, TableInv(t), NEW k \in Keys, NEW v \in Vals,
           NEW u, Inserted(t, u, k, v), NEW x \in Keys, NEW w \in Vals
    PROVE  Held(u, x, w) <=> IF x = k THEN w = v ELSE Held(t, x, w)
<1>1. PICK i \in 1 .. t.cap :
         /\ Changed(t, u, i, Entry(k, v))
         /\ Find(t, k) # 0 => i = Find(t, k)
         /\ Find(t, k) = 0 => i \notin Live(t)
  BY DEF Inserted
<1>2. /\ u.cap = t.cap /\ u.slots[i] = Entry(k, v)
      /\ \A j \in 1 .. t.cap : j # i => u.slots[j] = t.slots[j]
      /\ t.cap \in Nat
  BY <1>1 DEF Changed, IsTable
<1>3. /\ Entry(k, v).key = k /\ Entry(k, v).val = v
      /\ Entry(x, w).key = x /\ Entry(x, w).val = w /\ Entry(x, w).kind = "live"
  BY SlotKinds
<1>4. ASSUME NEW j \in 1 .. t.cap, Holds(t.slots[j], k) PROVE j = i
  <2>1. Find(t, k) = j /\ j # 0
    BY <1>2, <1>4, FindRight
  <2>. QED
    BY <1>1, <2>1
<1>5. ASSUME x # k, NEW j \in 1 .. t.cap, t.slots[j] = Entry(x, w) PROVE j # i
  <2>1. j \in Live(t) /\ ~Holds(t.slots[j], k)
    BY <1>3, <1>5 DEF Live, Holds
  <2>2. Find(t, k) # 0 => Holds(t.slots[Find(t, k)], k)
    BY FindRight
  <2>. QED
    BY <1>1, <2>1, <2>2
<1>6. CASE x = k
  <2>1. Held(u, x, v)
    BY <1>2, <1>6 DEF Held
  <2>2. ASSUME NEW j \in 1 .. t.cap, u.slots[j] = Entry(x, w) PROVE w = v
    <3>1. CASE j = i
      BY <1>2, <1>3, <2>2, <3>1
    <3>2. CASE j # i
      BY <1>2, <1>3, <1>4, <1>6, <2>2, <3>2 DEF Holds
    <3>. QED
      BY <3>1, <3>2
  <2>. QED
    BY <1>2, <1>6, <2>1, <2>2 DEF Held
<1>7. CASE x # k
  <2>1. ASSUME NEW j \in 1 .. t.cap, u.slots[j] = Entry(x, w) PROVE t.slots[j] = Entry(x, w)
    BY <1>2, <1>3, <1>7, <2>1
  <2>2. ASSUME NEW j \in 1 .. t.cap, t.slots[j] = Entry(x, w) PROVE u.slots[j] = Entry(x, w)
    BY <1>2, <1>5, <1>7, <2>2
  <2>. QED
    BY <1>2, <1>7, <2>1, <2>2 DEF Held
<1>. QED
  BY <1>6, <1>7

-----------------------------------------------------------------------------
(* dict_grow.                                                              *)

\* A new table is empty.
LEMMA NewTable ==
    ASSUME NEW c \in Nat, c >= 4
    PROVE  /\ TableInv(Table(c)) /\ Table(c).cap = c /\ Table(c).len = 0 /\ Table(c).tomb = 0
           /\ \A i \in 1 .. c : Table(c).slots[i] = Empty
<1>. PICK t : t = Table(c)
  OBVIOUS
<1>1. t.cap = c /\ t.len = 0 /\ t.tomb = 0 /\ t.slots = [i \in 1 .. c |-> Empty]
  BY DEF Table
<1>2. IsTable(t)
  <2>1. Empty \in Slots
    BY SlotKinds
  <2>2. t.slots \in [1 .. c -> Slots]
    BY <1>1, <2>1
  <2>. QED
    BY <1>1, <2>2 DEF IsTable
<1>3. Live(t) = {} /\ Tombs(t) = {}
  BY <1>1, SlotKinds DEF Live, Tombs
<1>4. Numbered(t)
  BY <1>1, <1>3, FS_EmptySet DEF Numbered
<1>5. Distinct(t) /\ Reachable(t)
  BY <1>3 DEF Distinct, Reachable
<1>. QED
  BY <1>1, <1>2, <1>4, <1>5 DEF TableInv

\* h are the tables that the loop of dict_grow goes through while it moves n slots.
Moves(h, t, upto) ==
    h = [n \in 0 .. upto |-> IF n = 0 THEN Table(2 * t.cap) ELSE Move(t, n, h[n - 1])]

\* The loop has as many steps as one likes.
LEMMA MovesExist == ASSUME NEW t, NEW upto \in Nat PROVE \E h : Moves(h, t, upto)
<1>. DEFINE Done == {n \in Nat : \E h : Moves(h, t, n)}
<1>1. 0 \in Done
  <2>. DEFINE h == [n \in 0 .. 0 |-> Table(2 * t.cap)]
  <2>1. Moves(h, t, 0)
    BY DEF Moves
  <2>. QED
    BY <2>1
<1>2. ASSUME NEW n \in Nat, n \in Done PROVE n + 1 \in Done
  <2>1. PICK h : Moves(h, t, n)
    BY <1>2
  <2>2. \A m \in 0 .. n : h[m] = IF m = 0 THEN Table(2 * t.cap) ELSE Move(t, m, h[m - 1])
    BY <2>1 DEF Moves
  <2>. DEFINE g == [m \in 0 .. (n + 1) |-> IF m = n + 1 THEN Move(t, n + 1, h[n]) ELSE h[m]]
              s == [m \in 0 .. (n + 1) |-> IF m = 0 THEN Table(2 * t.cap) ELSE Move(t, m, g[m - 1])]
  <2>3. ASSUME NEW m \in 0 .. (n + 1) PROVE g[m] = s[m]
    <3>1. CASE m = n + 1
      <4>1. m # 0 /\ m - 1 = n /\ n \in 0 .. (n + 1) /\ n # n + 1
        BY <3>1
      <4>2. g[n] = h[n]
        BY <4>1
      <4>3. g[m] = Move(t, n + 1, h[n]) /\ s[m] = Move(t, m, g[m - 1])
        BY <3>1, <4>1
      <4>. QED
        BY <3>1, <4>1, <4>2, <4>3
    <3>2. CASE m # n + 1 /\ m # 0
      <4>1. m \in 0 .. n /\ m - 1 \in 0 .. (n + 1) /\ m - 1 # n + 1
        BY <3>2
      <4>2. g[m] = h[m] /\ g[m - 1] = h[m - 1] /\ s[m] = Move(t, m, g[m - 1])
        BY <3>2, <4>1
      <4>. QED
        BY <2>2, <3>2, <4>1, <4>2
    <3>3. CASE m = 0
      <4>1. m \in 0 .. n /\ m # n + 1
        BY <3>3
      <4>2. g[m] = h[m] /\ s[m] = Table(2 * t.cap)
        BY <3>3, <4>1
      <4>. QED
        BY <2>2, <3>3, <4>1, <4>2
    <3>. QED
      BY <3>1, <3>2, <3>3
  <2>4. g = s
    <3>1. g = [m \in 0 .. (n + 1) |-> g[m]] /\ s = [m \in 0 .. (n + 1) |-> s[m]]
      OBVIOUS
    <3>. HIDE DEF g, s
    <3>. QED
      BY <2>3, <3>1
  <2>5. Moves(g, t, n + 1)
    BY <2>4 DEF Moves
  <2>. QED
    BY <2>5
<1>3. Nat \subseteq Done
  <2>. HIDE DEF Done
  <2>. QED
    BY <1>1, <1>2, SetInduction
<1>. QED
  BY <1>3

\* The table that dict_grow leaves is the last of those.
LEMMA GrowIsLast ==
    ASSUME NEW t, t.cap \in Nat
    PROVE  \E h : Moves(h, t, t.cap) /\ Grow(t) = h[t.cap]
<1>. DEFINE moved == CHOOSE h : Moves(h, t, t.cap)
<1>1. Moves(moved, t, t.cap)
  BY MovesExist
<1>2. Grow(t) = moved[t.cap]
  BY DEF Grow, Moves
<1>. QED
  BY <1>1, <1>2

\* What dict_grow has done when it has moved n slots of t: u holds what they hold.
MovedTo(t, u, n) ==
    /\ TableInv(u) /\ u.cap = 2 * t.cap /\ u.tomb = 0 /\ u.len <= n
    /\ \A x \in Keys, w \in Vals :
          Held(u, x, w) <=> \E i \in 1 .. n : t.slots[i] = Entry(x, w)

\* One slot more is moved.
LEMMA MoveRight ==
    ASSUME DictAssumption, NEW t, TableInv(t), NEW n \in 1 .. t.cap,
           NEW u, MovedTo(t, u, n - 1)
    PROVE  MovedTo(t, Move(t, n, u), n)
<1>0. IsTable(t) /\ Distinct(t) /\ TableInv(u) /\ IsTable(u)
  BY DEF TableInv, MovedTo
<1>1. /\ t.cap \in Nat /\ t.cap >= 4 /\ u.cap = 2 * t.cap /\ u.tomb = 0 /\ u.len \in Nat
      /\ u.len <= n - 1 /\ n \in Nat
  BY <1>0 DEF MovedTo, IsTable
<1>2. \A x \in Keys, w \in Vals :
         Held(u, x, w) <=> \E i \in 1 .. (n - 1) : t.slots[i] = Entry(x, w)
  BY DEF MovedTo
<1>3. \A i : i \in 1 .. n <=> i \in 1 .. (n - 1) \/ i = n
  BY <1>1
<1>4. t.slots[n] \in Slots
  BY <1>0 DEF IsTable
<1>5. CASE t.slots[n].kind # "live"
  <2>1. Move(t, n, u) = u
    BY <1>5 DEF Move
  <2>2. \A x \in Keys, w \in Vals : t.slots[n] # Entry(x, w)
    BY <1>5, SlotKinds
  <2>3. \A x \in Keys, w \in Vals :
           Held(u, x, w) <=> \E i \in 1 .. n : t.slots[i] = Entry(x, w)
    BY <1>2, <1>3, <2>2
  <2>4. u.len <= n
    BY <1>1
  <2>. QED
    BY <1>0, <1>1, <2>1, <2>3, <2>4 DEF MovedTo
<1>6. CASE t.slots[n].kind = "live"
  <2>. PICK k, v : k = t.slots[n].key /\ v = t.slots[n].val
    OBVIOUS
  <2>1. k \in Keys /\ v \in Vals /\ t.slots[n] = Entry(k, v)
    BY <1>4, <1>6, SlotKinds
  <2>. PICK w : w = Move(t, n, u)
    OBVIOUS
  <2>2. w = Insert(u, k, v)
    BY <1>6 DEF Move
  <2>3. u.len + 1 + u.tomb < u.cap
    BY <1>1
  <2>4. Inserted(u, w, k, v)
    BY <1>0, <2>1, <2>2, <2>3, InsertRight
  <2>5. TableInv(w) /\ w.cap = u.cap /\ w.tomb = u.tomb /\ w.len <= u.len + 1
    BY <2>4 DEF Inserted
  <2>6. w.len \in Nat
    BY <2>5 DEF TableInv, IsTable
  <2>7. ASSUME NEW x \in Keys, NEW y \in Vals
        PROVE  Held(w, x, y) <=> \E i \in 1 .. n : t.slots[i] = Entry(x, y)
    <3>1. Held(w, x, y) <=> IF x = k THEN y = v ELSE Held(u, x, y)
      BY <1>0, <2>1, <2>4, InsertedHolds
    <3>2. t.slots[n] = Entry(x, y) <=> x = k /\ y = v
      BY <2>1, SlotKinds
    <3>3. CASE x = k
      <4>1. ASSUME NEW i \in 1 .. (n - 1), t.slots[i] = Entry(x, y) PROVE FALSE
        <5>1. i \in Live(t) /\ n \in Live(t) /\ t.slots[i].key = t.slots[n].key
          <6>1. i \in 1 .. t.cap
            BY <1>1
          <6>2. /\ Entry(x, y).kind = "live" /\ Entry(x, y).key = x
                /\ Entry(k, v).kind = "live" /\ Entry(k, v).key = k
            BY ONLY <2>1, SlotKinds
          <6>. QED
            BY <2>1, <3>3, <4>1, <6>1, <6>2 DEF Live
        <5>2. i = n
          BY <1>0, <5>1 DEF Distinct
        <5>. QED
          BY <1>1, <5>2
      <4>. QED
        BY <1>3, <3>1, <3>2, <3>3, <4>1
    <3>4. CASE x # k
      BY <1>2, <1>3, <3>1, <3>2, <3>4
    <3>. QED
      BY <3>3, <3>4
  <2>8. w.cap = 2 * t.cap /\ w.tomb = 0 /\ w.len <= n
    BY <1>1, <2>5, <2>6
  <2>. QED
    BY <2>5, <2>7, <2>8 DEF MovedTo
<1>. QED
  BY <1>5, <1>6

\* dict_grow moves every entry into a table of twice the size, and no tombstone.
LEMMA GrowRight ==
    ASSUME DictAssumption, NEW t, TableInv(t)
    PROVE  MovedTo(t, Grow(t), t.cap)
<1>0. IsTable(t)
  BY DEF TableInv
<1>. PICK c \in Nat : c = t.cap /\ c >= 4
  BY <1>0 DEF IsTable
<1>1. PICK h : Moves(h, t, c) /\ Grow(t) = h[c]
  BY GrowIsLast
<1>2. \A n \in 0 .. c : h[n] = IF n = 0 THEN Table(2 * c) ELSE Move(t, n, h[n - 1])
  BY <1>1 DEF Moves
<1>. DEFINE Done == {n \in Nat : n <= c => MovedTo(t, h[n], n)}
<1>3. 0 \in Done
  <2>. PICK u : u = Table(2 * c)
    OBVIOUS
  <2>1. h[0] = u
    BY <1>2
  <2>2. TableInv(u) /\ u.cap = 2 * c /\ u.len = 0 /\ u.tomb = 0
        /\ \A i \in 1 .. 2 * c : u.slots[i] = Empty
    <3>1. 2 * c \in Nat /\ 2 * c >= 4
      OBVIOUS
    <3>. QED
      BY <3>1, NewTable
  <2>3. \A x \in Keys, w \in Vals : ~Held(u, x, w)
    BY <2>2, SlotKinds DEF Held
  <2>4. MovedTo(t, u, 0)
    BY <2>2, <2>3 DEF MovedTo
  <2>. QED
    BY <2>1, <2>4
<1>4. ASSUME NEW n \in Nat, n \in Done PROVE n + 1 \in Done
  <2>. SUFFICES ASSUME n + 1 <= c PROVE MovedTo(t, h[n + 1], n + 1)
    OBVIOUS
  <2>. PICK m \in 1 .. c : m = n + 1
    OBVIOUS
  <2>1. MovedTo(t, h[m - 1], m - 1)
    <3>1. m - 1 = n /\ n <= c
      OBVIOUS
    <3>. QED
      BY <1>4, <3>1
  <2>2. h[m] = Move(t, m, h[m - 1])
    BY <1>2
  <2>. QED
    BY <2>1, <2>2, MoveRight
<1>5. c \in Done
  <2>. HIDE DEF Done
  <2>. QED
    BY <1>3, <1>4, SetInduction
<1>. QED
  BY <1>1, <1>5

\* The table that duxrt_dict_set inserts into: what d holds, with room for one more.
LEMMA RoomRight ==
    ASSUME DictAssumption, NEW t, TableInv(t), NEW u, u = Room(t)
    PROVE  /\ TableInv(u) /\ u.len + 1 + u.tomb < u.cap
           /\ \A x \in Keys, w \in Vals : Held(u, x, w) <=> Held(t, x, w)
<1>0. IsTable(t) /\ Numbered(t)
  BY DEF TableInv
<1>1. /\ t.cap \in Nat /\ t.cap >= 4 /\ t.len \in Nat /\ t.tomb \in Nat
  BY <1>0 DEF IsTable
<1>2. CASE ~Full(t)
  <2>1. u = t
    BY <1>2 DEF Room
  <2>2. (t.len + t.tomb) * 4 < t.cap * 3
    BY <1>1, <1>2 DEF Full
  <2>3. t.len + 1 + t.tomb < t.cap
    BY <1>1, <2>2
  <2>. QED
    BY <2>1, <2>3
<1>3. CASE Full(t)
  <2>1. u = Grow(t)
    BY <1>3 DEF Room
  <2>2. MovedTo(t, u, t.cap)
    BY <2>1, GrowRight
  <2>3. u.cap = 2 * t.cap /\ u.tomb = 0 /\ u.len <= t.cap /\ u.len \in Nat
    BY <2>2 DEF MovedTo, TableInv, IsTable
  <2>4. u.len + 1 + u.tomb < u.cap
    BY <1>1, <2>3
  <2>. QED
    BY <2>2, <2>4 DEF MovedTo, Held
<1>. QED
  BY <1>2, <1>3

-----------------------------------------------------------------------------
(* Lookups and deletions.                                                  *)

\* A live slot holds a value for its key.
LEMMA SlotHeld ==
    ASSUME NEW t, IsTable(t), NEW k \in Keys, NEW i \in 1 .. t.cap
    PROVE  /\ Holds(t.slots[i], k) =>
                 t.slots[i].val \in Vals /\ t.slots[i] = Entry(k, t.slots[i].val)
           /\ \A w \in Vals : t.slots[i] = Entry(k, w) => Holds(t.slots[i], k)
<1>1. t.slots[i] \in Slots
  BY DEF IsTable
<1>. QED
  BY <1>1, SlotKinds DEF Holds

\* Find tells whether the table holds a value for the key, and where.
LEMMA FindHeld ==
    ASSUME DictAssumption, NEW t, TableInv(t), NEW k \in Keys
    PROVE  /\ Find(t, k) = 0 => \A w \in Vals : ~Held(t, k, w)
           /\ Find(t, k) # 0 => /\ Find(t, k) \in 1 .. t.cap
                                /\ t.slots[Find(t, k)].val \in Vals
                                /\ \A w \in Vals :
                                      Held(t, k, w) <=> w = t.slots[Find(t, k)].val
<1>0. IsTable(t)
  BY DEF TableInv
<1>. PICK i : i = Find(t, k)
  OBVIOUS
<1>1. /\ i # 0 => i \in 1 .. t.cap /\ Holds(t.slots[i], k)
      /\ \A j \in 1 .. t.cap : Holds(t.slots[j], k) => i = j
  BY FindRight
<1>2. \A j \in 1 .. t.cap : j # 0
  BY <1>0 DEF IsTable
<1>3. CASE i = 0
  BY <1>0, <1>1, <1>2, <1>3, SlotHeld DEF Held
<1>4. CASE i # 0
  <2>1. i \in 1 .. t.cap /\ t.slots[i].val \in Vals /\ t.slots[i] = Entry(k, t.slots[i].val)
    BY <1>0, <1>1, <1>4, SlotHeld
  <2>2. ASSUME NEW w \in Vals, Held(t, k, w) PROVE w = t.slots[i].val
    <3>1. PICK j \in 1 .. t.cap : t.slots[j] = Entry(k, w)
      BY <2>2 DEF Held
    <3>2. j = i
      BY <1>0, <1>1, <3>1, SlotHeld
    <3>. QED
      BY <3>1, <3>2, SlotKinds
  <2>3. Held(t, k, t.slots[i].val)
    BY <2>1 DEF Held
  <2>. QED
    BY <1>4, <2>1, <2>2, <2>3
<1>. QED
  BY <1>3, <1>4

\* The keys that have an entry.
LEMMA LiveKeysHeld ==
    ASSUME NEW t, IsTable(t)
    PROVE  /\ LiveKeys(t) \subseteq Keys
           /\ \A k \in Keys : k \in LiveKeys(t) <=> \E w \in Vals : Held(t, k, w)
<1>1. /\ t.slots \in [1 .. t.cap -> Slots]
      /\ \A i \in 1 .. t.cap : t.slots[i] \in Slots
  BY DEF IsTable
<1>2. Range(t.slots) = {t.slots[i] : i \in 1 .. t.cap}
  BY <1>1 DEF Range
<1>3. ASSUME NEW k \in LiveKeys(t) PROVE k \in Keys /\ \E w \in Vals : Held(t, k, w)
  <2>1. PICK i \in 1 .. t.cap : t.slots[i].kind = "live" /\ t.slots[i].key = k
    BY <1>2 DEF LiveKeys
  <2>2. t.slots[i].key \in Keys /\ t.slots[i].val \in Vals
        /\ t.slots[i] = Entry(t.slots[i].key, t.slots[i].val)
    BY <1>1, <2>1, SlotKinds
  <2>. QED
    BY <2>1, <2>2 DEF Held
<1>4. ASSUME NEW k \in Keys, NEW w \in Vals, Held(t, k, w) PROVE k \in LiveKeys(t)
  <2>1. PICK i \in 1 .. t.cap : t.slots[i] = Entry(k, w)
    BY <1>4 DEF Held
  <2>2. t.slots[i].kind = "live" /\ t.slots[i].key = k /\ t.slots[i] \in Range(t.slots)
    BY <1>2, <2>1, SlotKinds
  <2>. QED
    BY <2>2 DEF LiveKeys
<1>. QED
  BY <1>3, <1>4

\* duxrt_dict_del leaves a tombstone, and every other entry where its probe finds it.
LEMMA DelRight ==
    ASSUME DictAssumption, NEW t, TableInv(t), NEW k \in Keys, Find(t, k) # 0,
           NEW u, u = Put(t, Find(t, k), Tomb, t.len - 1, t.tomb + 1)
    PROVE  /\ TableInv(u)
           /\ \A x \in Keys, w \in Vals : Held(u, x, w) <=> x # k /\ Held(t, x, w)
<1>0. IsTable(t) /\ Numbered(t) /\ Distinct(t) /\ Reachable(t)
  BY DEF TableInv
<1>. PICK i : i = Find(t, k)
  OBVIOUS
<1>1. i \in 1 .. t.cap /\ Holds(t.slots[i], k) /\ \A j \in 1 .. t.cap : Holds(t.slots[j], k) => i = j
  BY FindRight
<1>2. /\ t.cap \in Nat /\ t.cap >= 4 /\ t.len \in Nat /\ t.tomb \in Nat
      /\ 1 \in Int /\ t.cap \in Int
  BY <1>0 DEF IsTable
<1>3. IsFiniteSet(Live(t)) /\ IsFiniteSet(Tombs(t))
  <2>1. Live(t) \in SUBSET (1 .. t.cap) /\ Tombs(t) \in SUBSET (1 .. t.cap)
    BY DEF Live, Tombs
  <2>2. IsFiniteSet(1 .. t.cap)
    BY <1>2, FS_Interval
  <2>. QED
    BY <2>1, <2>2, FS_Subset
<1>4. i \in Live(t) /\ i \notin Tombs(t)
  BY <1>1, SlotKinds DEF Holds, Live, Tombs
<1>5. /\ Cardinality(Live(t) \ {i}) = Cardinality(Live(t)) - 1
      /\ IsFiniteSet(Live(t) \ {i})
      /\ Cardinality(Tombs(t) \cup {i}) = Cardinality(Tombs(t)) + 1
  BY <1>3, <1>4, FS_RemoveElement, FS_AddElement
<1>6. Cardinality(Live(t) \ {i}) \in Nat /\ Cardinality(Tombs(t)) \in Nat
      /\ Cardinality(Live(t)) \in Nat
  BY <1>3, <1>5, FS_CardinalityType
<1>. PICK len : len = t.len - 1
  OBVIOUS
<1>. PICK tomb : tomb = t.tomb + 1
  OBVIOUS
<1>7. /\ len \in Nat /\ tomb \in Nat /\ len + tomb = t.len + t.tomb
      /\ Cardinality(Live(t) \ {i}) = len
  BY <1>0, <1>2, <1>5, <1>6 DEF Numbered
<1>8. Tomb \in Slots /\ Tomb # Empty /\ Tomb.kind # "live"
  BY SlotKinds
<1>9. Changed(t, u, i, Tomb) /\ u.len = len /\ u.tomb = tomb
  <2>1. u = Put(t, i, Tomb, len, tomb)
    OBVIOUS
  <2>. QED
    BY ONLY <1>0, <1>1, <1>7, <1>8, <2>1, PutChanges
<1>10. /\ u.cap = t.cap /\ IsTable(u)
       /\ \A j \in 1 .. t.cap : u.slots[j] = IF j = i THEN Tomb ELSE t.slots[j]
  BY <1>9 DEF Changed
<1>11. Live(u) = Live(t) \ {i} /\ Tombs(u) = Tombs(t) \cup {i}
  <2>1. \A j \in 1 .. t.cap : j \in Live(u) <=> j \in Live(t) /\ j # i
    BY <1>8, <1>10 DEF Live
  <2>2. \A j \in 1 .. t.cap : j \in Tombs(u) <=> j \in Tombs(t) \/ j = i
    BY <1>10 DEF Tombs
  <2>3. Live(u) \subseteq 1 .. t.cap /\ Live(t) \subseteq 1 .. t.cap
        /\ Tombs(u) \subseteq 1 .. t.cap /\ Tombs(t) \subseteq 1 .. t.cap
    BY <1>10 DEF Live, Tombs
  <2>. QED
    BY <1>1, <2>1, <2>2, <2>3
<1>12. Numbered(u)
  <2>1. Cardinality(Live(u)) = u.len
    BY <1>7, <1>9, <1>11
  <2>2. Cardinality(Tombs(u)) <= u.tomb
    <3>1. Cardinality(Tombs(t)) <= t.tomb
      BY <1>0 DEF Numbered
    <3>2. Cardinality(Tombs(u)) = Cardinality(Tombs(t)) + 1 /\ u.tomb = t.tomb + 1
      BY <1>5, <1>9, <1>11
    <3>. QED
      BY ONLY <1>2, <1>6, <3>1, <3>2
  <2>3. u.len + u.tomb < u.cap
    <3>1. t.len + t.tomb < t.cap
      BY <1>0 DEF Numbered
    <3>. QED
      BY <1>7, <1>9, <1>10, <3>1
  <2>. QED
    BY <2>1, <2>2, <2>3 DEF Numbered
<1>13. Distinct(u)
  <2>1. \A j \in Live(u) : j \in Live(t) /\ u.slots[j] = t.slots[j]
    BY <1>10, <1>11 DEF Live
  <2>. QED
    BY <1>0, <2>1 DEF Distinct
<1>14. Reachable(u)
  <2>. SUFFICES ASSUME NEW j \in Live(u) PROVE Leads(u, u.slots[j].key, j)
    BY DEF Reachable
  <2>1. j \in Live(t) /\ u.slots[j] = t.slots[j] /\ j \in 1 .. t.cap
    BY <1>10, <1>11 DEF Live
  <2>2. t.slots[j].key \in Keys
    <3>1. t.slots[j] \in Slots /\ t.slots[j].kind = "live"
      BY <1>0, <2>1 DEF IsTable, Live
    <3>. QED
      BY <3>1, SlotKinds
  <2>3. Leads(t, t.slots[j].key, j)
    BY <1>0, <2>1 DEF Reachable
  <2>4. Leads(u, t.slots[j].key, j)
    BY <1>8, <1>9, <2>2, <2>3, StillLeads
  <2>. QED
    BY <2>1, <2>4
<1>15. ASSUME NEW x \in Keys, NEW w \in Vals PROVE Held(u, x, w) <=> x # k /\ Held(t, x, w)
  <2>1. Tomb # Entry(x, w)
    BY SlotKinds
  <2>2. ASSUME NEW j \in 1 .. t.cap PROVE u.slots[j] = Entry(x, w) <=> j # i /\ t.slots[j] = Entry(x, w)
    BY <1>10, <2>1
  <2>3. ASSUME NEW j \in 1 .. t.cap, t.slots[j] = Entry(x, w) PROVE j = i <=> x = k
    <3>1. Holds(t.slots[j], x) /\ (Holds(t.slots[j], k) <=> x = k)
      BY <2>3, SlotKinds DEF Holds
    <3>. QED
      BY <1>1, <3>1
  <2>. QED
    BY <1>10, <2>2, <2>3 DEF Held
<1>. QED
  BY <1>10, <1>12, <1>13, <1>14, <1>15 DEF TableInv

-----------------------------------------------------------------------------
(* The dict.                                                               *)

\* The inductive invariant: the table is well formed, and every key is owned as often
\* as the table holds it.
DictInv ==
    /\ TableInv(d)
    /\ copies \in [Keys -> {0, 1}]
    /\ KeysOwned

\* A dict starts empty.
LEMMA DictInit == ASSUME DictAssumption, Init PROVE DictInv /\ LiveKeys(d) = {}
<1>1. InitCap \in Nat /\ InitCap >= 4
  BY DEF DictAssumption
<1>2. TableInv(d) /\ d.cap = InitCap /\ \A i \in 1 .. InitCap : d.slots[i] = Empty
  BY <1>1, NewTable DEF Init
<1>3. \A k \in Keys, w \in Vals : ~Held(d, k, w)
  BY <1>2, SlotKinds DEF Held
<1>4. LiveKeys(d) = {}
  BY <1>2, <1>3, LiveKeysHeld DEF TableInv
<1>. QED
  BY <1>2, <1>4 DEF DictInv, KeysOwned, Init

\* What duxrt_dict_set does to the map, and to the copies.
LEMMA SetRight ==
    ASSUME DictAssumption, DictInv, NEW k \in Keys, NEW v \in Vals, Set(k, v)
    PROVE  /\ DictInv'
           /\ \A x \in Keys, w \in Vals : Held(d', x, w) <=> IF x = k THEN w = v ELSE Held(d, x, w)
<1>. PICK t : t = Room(d)
  OBVIOUS
<1>. PICK u : u = d'
  OBVIOUS
<1>1. /\ TableInv(t) /\ t.len + 1 + t.tomb < t.cap
      /\ \A x \in Keys, w \in Vals : Held(t, x, w) <=> Held(d, x, w)
  BY RoomRight DEF DictInv
<1>2. Inserted(t, u, k, v)
  <2>1. u = Insert(t, k, v)
    BY DEF Set
  <2>. QED
    BY <1>1, <2>1, InsertRight
<1>3. TableInv(u)
  BY <1>2 DEF Inserted
<1>4. \A x \in Keys, w \in Vals : Held(u, x, w) <=> IF x = k THEN w = v ELSE Held(d, x, w)
  BY <1>1, <1>2, InsertedHolds
<1>5. IsTable(u) /\ IsTable(d) /\ TableInv(d)
  BY <1>3 DEF DictInv, TableInv
<1>6. copies' = [copies EXCEPT ![k] = IF Find(t, k) # 0 THEN copies[k] ELSE copies[k] + 1]
  BY DEF Set
<1>7. \A x \in Keys : x \in LiveKeys(u) <=> x = k \/ x \in LiveKeys(d)
  BY <1>4, <1>5, LiveKeysHeld
<1>8. Find(t, k) # 0 <=> k \in LiveKeys(d)
  BY <1>1, <1>5, FindHeld, LiveKeysHeld
<1>9. copies \in [Keys -> {0, 1}] /\ \A x \in Keys : copies[x] = IF x \in LiveKeys(d) THEN 1 ELSE 0
  BY DEF DictInv, KeysOwned
<1>10. \A x \in Keys : copies'[x] = IF x \in LiveKeys(u) THEN 1 ELSE 0
  <2>1. copies'[k] = 1
    BY <1>6, <1>8, <1>9
  <2>2. \A x \in Keys : x # k => copies'[x] = copies[x]
    BY <1>6, <1>9
  <2>. QED
    BY <1>7, <1>9, <2>1, <2>2
<1>11. copies' \in [Keys -> {0, 1}]
  <2>1. DOMAIN copies' = Keys /\ \A x \in Keys : copies'[x] \in {0, 1}
    BY <1>6, <1>9, <1>10
  <2>2. copies' = [x \in Keys |-> copies'[x]]
    BY <1>6, <1>9
  <2>. QED
    BY <2>1, <2>2
<1>. QED
  BY <1>3, <1>4, <1>10, <1>11 DEF DictInv, KeysOwned

\* What duxrt_dict_del does.
LEMMA DelStep ==
    ASSUME DictAssumption, DictInv, NEW k \in Keys, Del(k)
    PROVE  /\ DictInv'
           /\ \A x \in Keys, w \in Vals : Held(d', x, w) <=> x # k /\ Held(d, x, w)
<1>1. TableInv(d) /\ IsTable(d)
  BY DEF DictInv, TableInv
<1>2. CASE Find(d, k) = 0
  <2>1. d' = d /\ copies' = copies
    BY <1>2 DEF Del
  <2>2. \A w \in Vals : ~Held(d, k, w)
    BY <1>1, <1>2, FindHeld
  <2>. QED
    BY <2>1, <2>2 DEF DictInv, KeysOwned
<1>3. CASE Find(d, k) # 0
  <2>. PICK u : u = d'
    OBVIOUS
  <2>1. /\ u = Put(d, Find(d, k), Tomb, d.len - 1, d.tomb + 1)
        /\ copies' = [copies EXCEPT ![k] = copies[k] - 1]
    BY <1>3 DEF Del
  <2>2. /\ TableInv(u)
        /\ \A x \in Keys, w \in Vals : Held(u, x, w) <=> x # k /\ Held(d, x, w)
    BY <1>1, <1>3, <2>1, DelRight
  <2>3. IsTable(u)
    BY <2>2 DEF TableInv
  <2>4. \A x \in Keys : x \in LiveKeys(u) <=> x # k /\ x \in LiveKeys(d)
    BY <1>1, <2>2, <2>3, LiveKeysHeld
  <2>5. k \in LiveKeys(d)
    BY <1>1, <1>3, FindHeld, LiveKeysHeld
  <2>6. copies \in [Keys -> {0, 1}] /\ \A x \in Keys : copies[x] = IF x \in LiveKeys(d) THEN 1 ELSE 0
    BY DEF DictInv, KeysOwned
  <2>7. \A x \in Keys : copies'[x] = IF x \in LiveKeys(u) THEN 1 ELSE 0
    <3>1. copies'[k] = 0
      BY <2>1, <2>5, <2>6
    <3>2. \A x \in Keys : x # k => copies'[x] = copies[x]
      BY <2>1, <2>6
    <3>. QED
      BY <2>4, <2>6, <3>1, <3>2
  <2>8. copies' \in [Keys -> {0, 1}]
    <3>1. \A x \in Keys : copies'[x] \in {0, 1}
      BY <2>7
    <3>2. copies' = [x \in Keys |-> copies'[x]]
      BY <2>1, <2>6
    <3>. QED
      BY <3>1, <3>2
  <2>. QED
    BY <2>2, <2>7, <2>8 DEF DictInv, KeysOwned
<1>. QED
  BY <1>2, <1>3

\* The last release frees what the table owns.
LEMMA LastRelease ==
    ASSUME DictAssumption, DictInv, Release, refs = 1
    PROVE  DictInv' /\ LiveKeys(d') = {}
<1>1. InitCap \in Nat /\ InitCap >= 4
  BY DEF DictAssumption
<1>. PICK u : u = d'
  OBVIOUS
<1>2. u = Table(InitCap)
      /\ copies' = [k \in Keys |-> IF k \in LiveKeys(d) THEN copies[k] - 1 ELSE copies[k]]
  BY DEF Release
<1>3. TableInv(u) /\ u.cap = InitCap /\ \A i \in 1 .. InitCap : u.slots[i] = Empty
  BY <1>1, <1>2, NewTable
<1>4. \A k \in Keys, w \in Vals : ~Held(u, k, w)
  BY <1>3, SlotKinds DEF Held
<1>5. LiveKeys(u) = {}
  BY <1>3, <1>4, LiveKeysHeld DEF TableInv
<1>6. \A k \in Keys : copies'[k] = 0
  BY <1>2 DEF DictInv, KeysOwned
<1>7. copies' \in [Keys -> {0, 1}]
  <2>1. copies' = [k \in Keys |-> copies'[k]]
    BY <1>2
  <2>. QED
    BY <1>6, <2>1
<1>. QED
  BY <1>3, <1>5, <1>6, <1>7 DEF DictInv, KeysOwned

\* Every step keeps the invariant.
LEMMA DictStep == ASSUME DictAssumption, DictInv, [Next]_vars PROVE DictInv'
<1>1. ASSUME NEW k \in Keys, Get(k) \/ Has(k) PROVE DictInv'
  BY <1>1 DEF Get, Has, DictInv, KeysOwned
<1>2. ASSUME NEW k \in Keys, Del(k) PROVE DictInv'
  BY <1>2, DelStep
<1>3. ASSUME NEW k \in Keys, NEW v \in Vals, Set(k, v) PROVE DictInv'
  BY <1>3, SetRight
<1>4. CASE Release
  BY <1>4, LastRelease DEF Release, DictInv, KeysOwned
<1>5. CASE Retain \/ UNCHANGED vars
  BY <1>5 DEF Retain, vars, DictInv, KeysOwned
<1>. QED
  BY <1>1, <1>2, <1>3, <1>4, <1>5 DEF Next

\* The inductive invariant of a dict: exact counters, unique keys, and every entry
\* where its probe finds it, through every growth (dict.c).
THEOREM DictConsistent == ASSUME DictAssumption PROVE Spec => []DictInv
<1>1. Init => DictInv
  BY DictInit
<1>. QED
  BY <1>1, DictStep, PTL DEF Spec

\* No call on a dict searches for ever: an empty slot is left after any sequence of
\* insertions and deletions, although reused tombstones are counted twice.
THEOREM DictProbesEnd == ASSUME DictAssumption PROVE Spec => []ProbeEnds
<1>1. DictInv => ProbeEnds
  BY EmptyLeft DEF DictInv, TableInv, ProbeEnds
<1>. QED
  BY <1>1, DictConsistent, PTL

\* The table owns one copy of each of its keys and none of another: what set
\* duplicates is freed once, by an update, a deletion or the last release.
THEOREM DictOwnsKeys == ASSUME DictAssumption PROVE Spec => []KeysOwned
<1>1. DictInv => KeysOwned
  BY DEF DictInv
<1>. QED
  BY <1>1, DictConsistent, PTL

-----------------------------------------------------------------------------
(* The dict is a map.                                                      *)

\* Content, of any table.
MapOf(t) == [k \in LiveKeys(t) |-> (CHOOSE s \in Range(t.slots) : Holds(s, k)).val]

\* The map has the pairs that the table holds.
LEMMA MapRight ==
    ASSUME NEW t, TableInv(t)
    PROVE  /\ DOMAIN MapOf(t) = LiveKeys(t)
           /\ MapOf(t) = [k \in LiveKeys(t) |-> MapOf(t)[k]]
           /\ \A k \in LiveKeys(t) : k \in Keys /\ MapOf(t)[k] \in Vals /\ Held(t, k, MapOf(t)[k])
           /\ \A k \in Keys, w \in Vals : Held(t, k, w) => k \in LiveKeys(t) /\ MapOf(t)[k] = w
<1>0. IsTable(t) /\ Distinct(t)
  BY DEF TableInv
<1>1. /\ DOMAIN MapOf(t) = LiveKeys(t)
      /\ \A k \in LiveKeys(t) : MapOf(t)[k] = (CHOOSE s \in Range(t.slots) : Holds(s, k)).val
      /\ MapOf(t) = [k \in LiveKeys(t) |-> MapOf(t)[k]]
  BY DEF MapOf
<1>2. /\ LiveKeys(t) \subseteq Keys
      /\ \A k \in Keys : k \in LiveKeys(t) <=> \E w \in Vals : Held(t, k, w)
  BY <1>0, LiveKeysHeld
<1>3. Range(t.slots) = {t.slots[i] : i \in 1 .. t.cap}
  BY <1>0 DEF IsTable, Range
<1>4. ASSUME NEW k \in Keys, NEW w \in Vals, Held(t, k, w) PROVE MapOf(t)[k] = w
  <2>1. PICK i \in 1 .. t.cap : t.slots[i] = Entry(k, w)
    BY <1>4 DEF Held
  <2>2. Holds(t.slots[i], k) /\ t.slots[i] \in Range(t.slots)
    BY <1>0, <1>3, <2>1, SlotHeld
  <2>. PICK s : s = CHOOSE x \in Range(t.slots) : Holds(x, k)
    OBVIOUS
  <2>3. s \in Range(t.slots) /\ Holds(s, k)
    BY <2>2
  <2>4. PICK j \in 1 .. t.cap : s = t.slots[j]
    BY <1>3, <2>3
  <2>5. i \in Live(t) /\ j \in Live(t) /\ t.slots[i].key = t.slots[j].key
    BY <2>2, <2>3, <2>4 DEF Holds, Live
  <2>6. i = j
    BY <1>0, <2>5 DEF Distinct
  <2>7. s.val = w
    <3>1. s = Entry(k, w) /\ Entry(k, w).val = w
      BY <2>1, <2>4, <2>6, SlotKinds
    <3>. QED
      BY <3>1
  <2>8. k \in LiveKeys(t)
    BY <1>2, <1>4
  <2>. QED
    BY <1>1, <2>7, <2>8
<1>5. ASSUME NEW k \in LiveKeys(t) PROVE MapOf(t)[k] \in Vals /\ Held(t, k, MapOf(t)[k])
  BY <1>2, <1>4
<1>. QED
  BY <1>1, <1>2, <1>4, <1>5

\* Two maps with the same pairs are equal.
LEMMA SameMap ==
    ASSUME NEW f, NEW g, f = [k \in DOMAIN f |-> f[k]], g = [k \in DOMAIN g |-> g[k]],
           DOMAIN f = DOMAIN g, \A k \in DOMAIN f : f[k] = g[k]
    PROVE  f = g
OBVIOUS

\* An insertion is Map's Set.
LEMMA MapSet ==
    ASSUME NEW t, NEW u, TableInv(t), TableInv(u), NEW k \in Keys, NEW v \in Vals,
           \A x \in Keys, w \in Vals : Held(u, x, w) <=> IF x = k THEN w = v ELSE Held(t, x, w)
    PROVE  MapOf(u) = [x \in DOMAIN MapOf(t) \cup {k} |-> IF x = k THEN v ELSE MapOf(t)[x]]
<1>. DEFINE g == [x \in DOMAIN MapOf(t) \cup {k} |-> IF x = k THEN v ELSE MapOf(t)[x]]
<1>1. /\ DOMAIN MapOf(t) = LiveKeys(t) /\ DOMAIN MapOf(u) = LiveKeys(u)
      /\ LiveKeys(t) \subseteq Keys /\ LiveKeys(u) \subseteq Keys
      /\ \A x \in Keys : x \in LiveKeys(t) <=> \E w \in Vals : Held(t, x, w)
      /\ \A x \in Keys : x \in LiveKeys(u) <=> \E w \in Vals : Held(u, x, w)
  BY MapRight, LiveKeysHeld DEF TableInv
<1>2. LiveKeys(u) = LiveKeys(t) \cup {k}
  BY <1>1
<1>3. ASSUME NEW x \in LiveKeys(u) PROVE MapOf(u)[x] = g[x]
  <2>1. CASE x = k
    <3>1. Held(u, x, v)
      BY <2>1
    <3>2. MapOf(u)[x] = v
      BY <2>1, <3>1, MapRight
    <3>. QED
      BY <1>2, <2>1, <3>2
  <2>2. CASE x # k
    <3>1. x \in Keys /\ x \in LiveKeys(t)
      BY <1>1, <1>2, <2>2
    <3>2. MapOf(t)[x] \in Vals /\ Held(t, x, MapOf(t)[x])
      BY <3>1, MapRight
    <3>3. MapOf(u)[x] = MapOf(t)[x]
      BY <2>2, <3>1, <3>2, MapRight
    <3>. QED
      BY <1>1, <2>2, <3>1, <3>3
  <2>. QED
    BY <2>1, <2>2
<1>4. DOMAIN g = LiveKeys(u) /\ g = [x \in LiveKeys(u) |-> g[x]]
  BY <1>1, <1>2
<1>5. MapOf(u) = [x \in LiveKeys(u) |-> MapOf(u)[x]]
  BY MapRight
<1>. HIDE DEF g
<1>6. MapOf(u) = g
  BY <1>1, <1>3, <1>4, <1>5
<1>. QED
  BY <1>6 DEF g

\* A deletion is Map's Del.
LEMMA MapDel ==
    ASSUME NEW t, NEW u, TableInv(t), TableInv(u), NEW k \in Keys,
           \A x \in Keys, w \in Vals : Held(u, x, w) <=> x # k /\ Held(t, x, w)
    PROVE  MapOf(u) = Restrict(MapOf(t), DOMAIN MapOf(t) \ {k})
<1>. DEFINE g == [x \in DOMAIN MapOf(t) \ {k} |-> MapOf(t)[x]]
<1>1. /\ DOMAIN MapOf(t) = LiveKeys(t) /\ DOMAIN MapOf(u) = LiveKeys(u)
      /\ LiveKeys(t) \subseteq Keys /\ LiveKeys(u) \subseteq Keys
      /\ \A x \in Keys : x \in LiveKeys(t) <=> \E w \in Vals : Held(t, x, w)
      /\ \A x \in Keys : x \in LiveKeys(u) <=> \E w \in Vals : Held(u, x, w)
  BY MapRight, LiveKeysHeld DEF TableInv
<1>2. LiveKeys(u) = LiveKeys(t) \ {k}
  BY <1>1
<1>3. ASSUME NEW x \in LiveKeys(u) PROVE MapOf(u)[x] = g[x]
  <2>1. x \in Keys /\ x \in LiveKeys(t) /\ x # k
    BY <1>1, <1>2
  <2>2. MapOf(u)[x] \in Vals /\ Held(u, x, MapOf(u)[x])
    BY MapRight
  <2>3. MapOf(t)[x] = MapOf(u)[x]
    BY <2>1, <2>2, MapRight
  <2>. QED
    BY <1>1, <2>1, <2>3
<1>4. DOMAIN g = LiveKeys(u) /\ g = [x \in LiveKeys(u) |-> g[x]]
  BY <1>1, <1>2
<1>5. MapOf(u) = [x \in LiveKeys(u) |-> MapOf(u)[x]]
  BY MapRight
<1>6. g = Restrict(MapOf(t), DOMAIN MapOf(t) \ {k})
  BY DEF Restrict
<1>. HIDE DEF g
<1>7. MapOf(u) = g
  BY <1>1, <1>3, <1>4, <1>5
<1>. QED
  BY <1>6, <1>7

\* A table without keys is the empty map.
LEMMA MapEmpty == ASSUME NEW t, LiveKeys(t) = {} PROVE MapOf(t) = << >>
BY DEF MapOf

\* Every step of the dict is a step of Map, or leaves the map alone.
LEMMA MapStep ==
    ASSUME DictAssumption, DictInv, [Next]_vars
    PROVE  [M!Next]_<<Content, answer>>
<1>1. Content = MapOf(d) /\ Content' = MapOf(d')
  BY DEF Content, MapOf
<1>2. TableInv(d) /\ TableInv(d')
  BY DictStep DEF DictInv
<1>3. ASSUME NEW k \in Keys, Get(k) PROVE M!Get(k)
  <2>1. d' = d /\ answer' = IF Find(d, k) # 0 THEN d.slots[Find(d, k)].val ELSE NoVal
    BY <1>3 DEF Get
  <2>2. DOMAIN Content = LiveKeys(d)
    BY <1>1, <1>2, MapRight
  <2>3. k \in LiveKeys(d) <=> Find(d, k) # 0
    BY <1>2, FindHeld, LiveKeysHeld DEF TableInv
  <2>4. Find(d, k) # 0 => Content[k] = d.slots[Find(d, k)].val
    <3>. SUFFICES ASSUME Find(d, k) # 0 PROVE Content[k] = d.slots[Find(d, k)].val
      OBVIOUS
    <3>1. d.slots[Find(d, k)].val \in Vals /\ Held(d, k, d.slots[Find(d, k)].val)
      BY <1>2, FindHeld
    <3>. QED
      BY <1>1, <1>2, <3>1, MapRight
  <2>. QED
    BY <1>1, <2>1, <2>2, <2>3, <2>4 DEF M!Get
<1>4. ASSUME NEW k \in Keys, Has(k) PROVE M!Has(k)
  <2>1. d' = d /\ answer' = (Find(d, k) # 0)
    BY <1>4 DEF Has
  <2>2. DOMAIN Content = LiveKeys(d)
    BY <1>1, <1>2, MapRight
  <2>3. (k \in LiveKeys(d)) = (Find(d, k) # 0)
    BY <1>2, FindHeld, LiveKeysHeld DEF TableInv
  <2>4. (k \in DOMAIN Content) = (Find(d, k) # 0)
    BY <2>2, <2>3
  <2>5. Content' = Content
    BY <1>1, <2>1
  <2>. QED
    BY <2>1, <2>4, <2>5 DEF M!Has
<1>5. ASSUME NEW k \in Keys, Del(k) PROVE M!Del(k)
  <2>1. \A x \in Keys, w \in Vals : Held(d', x, w) <=> x # k /\ Held(d, x, w)
    BY <1>5, DelStep
  <2>2. MapOf(d') = Restrict(MapOf(d), DOMAIN MapOf(d) \ {k})
    BY <1>2, <2>1, MapDel
  <2>3. answer' = answer
    BY <1>5 DEF Del
  <2>4. Content' = Restrict(Content, DOMAIN Content \ {k})
    BY <1>1, <2>2
  <2>. QED
    BY <2>3, <2>4 DEF M!Del, M!Restrict, Restrict
<1>6. ASSUME NEW k \in Keys, NEW v \in Vals, Set(k, v) PROVE M!Set(k, v)
  <2>1. \A x \in Keys, w \in Vals : Held(d', x, w) <=> IF x = k THEN w = v ELSE Held(d, x, w)
    BY <1>6, SetRight
  <2>2. MapOf(d') = [x \in DOMAIN MapOf(d) \cup {k} |-> IF x = k THEN v ELSE MapOf(d)[x]]
    BY <1>2, <2>1, MapSet
  <2>3. answer' = answer
    BY <1>6 DEF Set
  <2>. QED
    BY <1>1, <2>2, <2>3 DEF M!Set
<1>7. CASE Release
  <2>1. answer' = answer
    BY <1>7 DEF Release
  <2>2. CASE refs = 1
    <3>1. LiveKeys(d') = {}
      BY <1>7, <2>2, LastRelease
    <3>2. Content' = << >>
      BY <1>1, <3>1, MapEmpty
    <3>. QED
      BY <2>1, <3>2 DEF M!Next, M!Drop
  <2>3. CASE refs # 1
    <3>1. d' = d
      BY <1>7, <2>3 DEF Release
    <3>. QED
      BY <1>1, <2>1, <3>1
  <2>. QED
    BY <2>2, <2>3
<1>8. CASE Retain \/ UNCHANGED vars
  <2>1. d' = d /\ answer' = answer
    BY <1>8 DEF Retain, vars
  <2>. QED
    BY <1>1, <2>1
<1>. QED
  BY <1>3, <1>4, <1>5, <1>6, <1>7, <1>8 DEF Next, M!Next

\* The table implements a finite map: across collisions, reused tombstones and every
\* growth, a lookup answers with the value last set for the key and not deleted since
\* (duxrt_dict_set, get, has, del, release).
THEOREM DictIsMap == ASSUME DictAssumption PROVE Spec => Implements
<1>1. Init => M!Init
  <2>. SUFFICES ASSUME Init PROVE M!Init
    OBVIOUS
  <2>1. Content = << >>
    <3>1. Content = MapOf(d)
      BY DEF Content, MapOf
    <3>. QED
      BY <3>1, DictInit, MapEmpty
  <2>. QED
    BY <2>1 DEF Init, M!Init
<1>2. DictInv /\ [Next]_vars => [M!Next]_<<Content, answer>>
  BY MapStep
<1>. QED
  BY <1>1, <1>2, DictConsistent, PTL DEF Spec, Implements, M!Spec
=============================================================================

------------------------- MODULE ScopeCleanupProofs -------------------------
(***************************************************************************)
(* The clean-up code that codegen emits, however many scopes, cleanups and *)
(* exceptions a function has: it frees no object twice (SlotsInv), it has  *)
(* run every regular cleanup once when the function has returned, and it   *)
(* runs no destructor, list release or defer before those registered after *)
(* it (ExactInv: what is registered is ordered by the stack of scopes, and *)
(* has run once exactly if the emitted code has come to it).               *)
(***************************************************************************)
EXTENDS ScopeCleanup, WellFoundedInduction, TLAPS

Cleanups ==
    [kind : Kinds \cup {"end_catch"}, slot : {"live", "null", "unset"}, ran : 0 .. 2]

\* A slot is live until it is freed and null from there on.
Sound ==
    {it \in Cleanups :
        it.kind = "slot" => /\ it.slot = "live" => it.ran = 0
                            /\ it.slot = "null" => it.ran <= 1}

\* The inductive invariant of the clean-up code.
SlotsInv == items \in Seq(Sound)

\* A cleanup is sound when it is registered, and when a later statement of a try
\* body would register it.
LEMMA NewSound ==
    ASSUME NEW kind \in Kinds \cup {"end_catch"}, NEW slot_ \in {"live", "unset"}
    PROVE  Item(kind, slot_) \in Sound
BY DEF Item, Sound, Cleanups

\* A cleanup that runs, or is counted by a defer that throws, stays sound: the
\* slot it frees becomes null (emit_dtor, emit_rc_release).
LEMMA CleanedSound ==
    ASSUME NEW it \in Sound
    PROVE  /\ Cleaned(it) \subseteq Sound
           /\ it.kind = "defer" => Counted(it) \in Sound
<1>1. /\ it \in Cleanups
      /\ it.kind = "slot" => /\ it.slot = "live" => it.ran = 0
                             /\ it.slot = "null" => it.ran <= 1
  BY DEF Sound
<1>2. /\ Counted(it) \in Cleanups
      /\ Counted(it).kind = it.kind /\ Counted(it).slot = it.slot
      /\ it.ran = 0 => Counted(it).ran = 1
  BY <1>1 DEF Counted, MaxRan, Cleanups
<1>. PICK counted : counted = Counted(it)
  OBVIOUS
<1>3. it.kind # "slot" \/ it.slot = "unset" => counted \in Sound
  BY <1>2 DEF Sound
<1>4. /\ it.slot \in {"live", "null", "unset"}
      /\ it.kind \in {"slot", "str", "defer", "end_catch"}
  BY <1>1 DEF Cleanups, Kinds
<1>5. Cleaned(it) \subseteq Sound
  <2>1. CASE it.kind \in {"defer", "end_catch"}
    BY <2>1, <1>3 DEF Cleaned
  <2>2. CASE it.kind \in {"slot", "str"} /\ it.slot = "null"
    BY <2>2 DEF Cleaned
  <2>3. CASE it.kind \in {"slot", "str"} /\ it.slot = "unset"
    BY <2>3, <1>3 DEF Cleaned
  <2>4. CASE it.kind \in {"slot", "str"} /\ it.slot = "live"
    <3>1. counted \in Cleanups /\ counted.kind = it.kind /\ counted.slot = "live"
          /\ (it.kind = "slot" => counted.ran = 1)
      BY <1>1, <1>2, <2>4
    <3>2. [counted EXCEPT !.slot = IF it.kind = "slot" THEN "null" ELSE counted.slot]
             \in Sound
      BY <2>4, <3>1 DEF Cleanups, Sound
    <3>3. Cleaned(it)
            = {[counted EXCEPT !.slot = IF it.kind = "slot" THEN "null" ELSE counted.slot]}
      BY <2>4 DEF Cleaned
    <3>. QED
      BY <3>2, <3>3
  <2>. QED
    BY <1>4, <2>1, <2>2, <2>3, <2>4
<1>. QED
  BY <1>3, <1>5

\* A sequence keeps its type when an element of the type replaces one of its own;
\* an index outside it changes nothing.
LEMMA ReplaceType ==
    ASSUME NEW S, NEW s \in Seq(S), NEW i, NEW e, i \in DOMAIN s => e \in S
    PROVE  [s EXCEPT ![i] = e] \in Seq(S)
<1>1. /\ Len(s) \in Nat /\ DOMAIN s = 1 .. Len(s)
      /\ \A j \in 1 .. Len(s) : s[j] \in S
  OBVIOUS
<1>2. [s EXCEPT ![i] = e] = [j \in 1 .. Len(s) |-> IF j = i THEN e ELSE s[j]]
  BY <1>1
<1>3. [j \in 1 .. Len(s) |-> IF j = i THEN e ELSE s[j]] \in Seq(S)
  BY <1>1
<1>. QED
  BY <1>2, <1>3

\* An exception leaves the cleanups as it found them and may add unreached ones.
LEMMA RaiseSound ==
    ASSUME NEW its \in Seq(Sound), NEW later \in LaterRegs, Raise(its, later)
    PROVE  SlotsInv'
<1>1. later \in Seq(Kinds)
  <2>1. <<>> \in Seq(Kinds) /\ \A k \in Kinds : <<k>> \in Seq(Kinds)
    OBVIOUS
  <2>. QED
    BY <2>1 DEF LaterRegs
<1>2. \A j \in 1 .. Len(later) : later[j] \in Kinds
  BY <1>1
<1>3. \A j \in 1 .. Len(later) : Item(later[j], "unset") \in Sound
  BY <1>2, NewSound
<1>. PICK more : more = [j \in 1 .. Len(later) |-> Item(later[j], "unset")]
  OBVIOUS
<1>4. more \in Seq(Sound)
  BY <1>1, <1>3
<1>5. items' = its \/ items' = its \o more
  BY DEF Raise
<1>6. its \o more \in Seq(Sound)
  BY <1>4
<1>. QED
  BY <1>5, <1>6 DEF SlotsInv

\* Every step of the emitted code keeps the slots sound.
LEMMA SlotsStep == SlotsInv /\ [Next]_vars => SlotsInv'
<1>. SUFFICES ASSUME SlotsInv, [Next]_vars PROVE SlotsInv'
  OBVIOUS
<1>1. ASSUME NEW kind \in Kinds, Register(kind) PROVE SlotsInv'
  BY <1>1, NewSound DEF Register, SlotsInv
<1>2. ASSUME NEW i \in DOMAIN items, Delete(i) PROVE SlotsInv'
  <2>. DEFINE half == [items[i] EXCEPT !.slot = "null"]
              freed == [half EXCEPT !.ran = 1]
  <2>1. items[i] \in Cleanups
    BY DEF SlotsInv, Sound
  <2>2. freed \in Cleanups /\ freed.ran = 1 /\ freed.slot = "null"
    <3>1. half \in Cleanups /\ half.slot = "null"
      BY <2>1 DEF Cleanups
    <3>. HIDE DEF half
    <3>. QED
      BY <3>1 DEF Cleanups
  <2>3. freed \in Sound
    <3>. HIDE DEF freed
    <3>. QED BY <2>2 DEF Sound
  <2>4. items' = [items EXCEPT ![i] = freed]
    BY <1>2 DEF Delete
  <2>. HIDE DEF freed
  <2>. QED
    BY <2>3, <2>4, ReplaceType DEF SlotsInv
<1>3. ASSUME CleanupStep PROVE SlotsInv'
  <2>1. PICK i \in todo : \E it \in Cleaned(items[i]) : items' = [items EXCEPT ![i] = it]
    BY <1>3 DEF CleanupStep
  <2>2. PICK it \in Cleaned(items[i]) : items' = [items EXCEPT ![i] = it]
    BY <2>1
  <2>3. i \in DOMAIN items => it \in Sound
    BY <2>2, CleanedSound DEF SlotsInv
  <2>. QED
    BY <2>2, <2>3, ReplaceType DEF SlotsInv
<1>4. ASSUME NEW later \in LaterRegs, Throw(later) PROVE SlotsInv'
  BY <1>4, RaiseSound DEF Throw, SlotsInv
<1>5. ASSUME NEW later \in LaterRegs, CleanupThrows(later) PROVE SlotsInv'
  <2>1. PICK i \in todo :
           \/ Raise(items, later)
           \/ items[i].kind = "defer" /\ Raise([items EXCEPT ![i] = Counted(items[i])], later)
    BY <1>5 DEF CleanupThrows
  <2>2. CASE Raise(items, later)
    BY <2>2, RaiseSound DEF SlotsInv
  <2>3. CASE items[i].kind = "defer" /\ Raise([items EXCEPT ![i] = Counted(items[i])], later)
    <3>1. [items EXCEPT ![i] = Counted(items[i])] \in Seq(Sound)
      <4>1. i \in DOMAIN items => Counted(items[i]) \in Sound
        BY <2>3, CleanedSound DEF SlotsInv
      <4>. QED
        BY <4>1, ReplaceType DEF SlotsInv
    <3>. QED
      BY <2>3, <3>1, RaiseSound
  <2>. QED
    BY <2>1, <2>2, <2>3
<1>6. ASSUME Caught PROVE SlotsInv'
  BY <1>6, NewSound DEF Caught, SlotsInv
<1>7. ASSUME UNCHANGED items PROVE SlotsInv'
  BY <1>7 DEF SlotsInv
<1>8. ASSUME \/ \E kind \in {"block", "loop", "try"} : Enter(kind)
             \/ Leave \/ Return \/ Break \/ Left \/ Returned \/ Broken
             \/ Mismatch \/ UNCHANGED vars
      PROVE  SlotsInv'
  BY <1>7, <1>8 DEF Enter, Leave, Return, Break, Left, Returned, Broken,
                    Mismatch, vars
<1>. QED
  BY <1>1, <1>2, <1>3, <1>4, <1>5, <1>6, <1>8 DEF Next

\* Whatever ways out of its scopes a function takes, and however often a landing
\* pad is entered again, the object in a slot that was stored is freed at most
\* once (emit_dtor, emit_rc_release, gen_delete).
THEOREM SlotFreedOnce == Spec => []FreedOnce
<1>1. Init => SlotsInv
  BY DEF Init, SlotsInv
<1>2. SlotsInv => FreedOnce
  BY DEF SlotsInv, Sound, Cleanups, FreedOnce
<1>. QED
  BY <1>1, <1>2, SlotsStep, PTL DEF Spec

-----------------------------------------------------------------------------
(* Positions in a stack                                                    *)

\* A set of numbers that has a bound and is not empty has a greatest element.
LEMMA Greatest ==
    ASSUME NEW n \in Nat, NEW S \in SUBSET (0 .. n), S # {}
    PROVE  Max(S) \in S /\ \A y \in S : y <= Max(S)
<1>. DEFINE T == {m \in 0 .. n : n - m \in S}
<1>1. T \subseteq Nat /\ T # {}
  <2>1. PICK x \in S : TRUE
    OBVIOUS
  <2>2. PICK m \in 0 .. n : m = n - x /\ n - m = x
    BY <2>1
  <2>3. m \in T
    BY <2>1, <2>2
  <2>4. T \subseteq 0 .. n
    OBVIOUS
  <2>. HIDE DEF T
  <2>. QED
    BY <2>3, <2>4
<1>2. PICK x \in T : \A y \in T : ~ (<<y, x>> \in OpToRel(<, Nat))
  <2>. HIDE DEF T
  <2>. QED
    BY <1>1, NatLessThanWellFounded, WFMin
<1>3. \A y \in T : ~ (y < x)
  BY <1>1, <1>2 DEF OpToRel
<1>4. n - x \in S /\ \A y \in S : n - x >= y
  <2>1. ASSUME NEW y \in S PROVE n - x >= y
    <3>1. n - y \in 0 .. n /\ n - (n - y) = y
      OBVIOUS
    <3>2. ~ (n - y < x)
      BY <1>3, <2>1, <3>1
    <3>. QED
      BY <3>1, <3>2
  <2>. QED
    BY <2>1
<1>. HIDE DEF T
<1>5. \E z \in S : \A y \in S : z >= y
  BY <1>4
<1>6. Max(S) \in S /\ \A y \in S : Max(S) >= y
  BY <1>5 DEF Max
<1>7. \A y \in S : y \in Int
  OBVIOUS
<1>. QED
  BY <1>6, <1>7

\* The innermost scope of a kind, if there is one, is of that kind.
LEMMA InnermostIs ==
    ASSUME NEW kind, NEW st, NEW n \in Nat, DOMAIN st = 1 .. n
    PROVE  \/ Innermost(kind, st) = 0
           \/ Innermost(kind, st) \in 1 .. n /\ st[Innermost(kind, st)].kind = kind
<1>. DEFINE S == {k \in DOMAIN st : st[k].kind = kind} \cup {0}
<1>1. S \in SUBSET (0 .. n) /\ S # {}
  OBVIOUS
<1>2. Max(S) \in S
  <2>. HIDE DEF S
  <2>. QED
    BY <1>1, Greatest
<1>. QED
  BY <1>2 DEF Innermost

-----------------------------------------------------------------------------
(* Stacks of scopes                                                        *)

ScopeRecords ==
    [kind : {"fn", "block", "loop", "try", "catch"}, regs : Seq(Nat)]

\* What the k-th scope of a stack has registered.
Regs(st, k) == ToSet(st[k].regs)

\* A stack of scopes in which n cleanups have been registered, those of an inner scope
\* after those of an outer one; the outermost scope is that of the function.
Stack(st, n) ==
    /\ n \in Nat /\ st \in Seq(ScopeRecords) /\ Len(st) >= 1 /\ st[1].kind = "fn"
    /\ \A k, l \in 1 .. Len(st) : k < l => \A i \in Regs(st, k), j \in Regs(st, l) : i < j
    /\ Registered(st) \subseteq 1 .. n

\* What a stack has registered is what one of its scopes has registered.
LEMMA RegisteredIs ==
    ASSUME NEW st, st \in Seq(ScopeRecords), NEW i
    PROVE  i \in Registered(st) <=> \E k \in 1 .. Len(st) : i \in Regs(st, k)
BY DEF Registered, Regs

\* p is the part of a stack up to its m-th scope.
LowerPart(p, st, n, m) ==
    /\ Stack(p, n) /\ Len(p) = m /\ Registered(p) \subseteq Registered(st)
    /\ \A k \in 1 .. m : p[k] = st[k]

\* The scopes below one of them are a stack, which has registered no more.
LEMMA Below ==
    ASSUME NEW n, NEW st, Stack(st, n), NEW m \in 1 .. Len(st),
           NEW p, p = SubSeq(st, 1, m)
    PROVE  LowerPart(p, st, n, m)
<1>1. PICK len \in Nat : len = Len(st) /\ m \in 1 .. len
  BY DEF Stack
<1>2. /\ p \in Seq(ScopeRecords) /\ Len(p) = m /\ \A k \in 1 .. m : p[k] = st[k]
  <2>. DEFINE Records == ScopeRecords
  <2>1. st \in Seq(Records)
    BY DEF Stack
  <2>. HIDE DEF Records
  <2>2. p \in Seq(Records) /\ Len(p) = m /\ \A k \in 1 .. m : p[k] = st[k]
    BY <1>1, <2>1
  <2>. QED
    BY <2>2 DEF Records
<1>3. \A k \in 1 .. m : k \in 1 .. len /\ Regs(p, k) = Regs(st, k)
  BY <1>1, <1>2 DEF Regs
<1>4. Registered(p) \subseteq Registered(st)
  <2>1. ASSUME NEW i \in Registered(p) PROVE i \in Registered(st)
    <3>1. PICK k \in 1 .. m : i \in Regs(p, k)
      BY <1>2, RegisteredIs
    <3>2. k \in 1 .. Len(st) /\ i \in Regs(st, k)
      BY <1>1, <1>3, <3>1
    <3>. QED
      BY <3>2, RegisteredIs DEF Stack
  <2>. QED
    BY <2>1
<1>5. \A k, l \in 1 .. m : k < l => \A i \in Regs(p, k), j \in Regs(p, l) : i < j
  BY <1>1, <1>3 DEF Stack
<1>6. p[1].kind = "fn" /\ m >= 1
  BY <1>2 DEF Stack
<1>7. Registered(p) \subseteq 1 .. n
  BY <1>4 DEF Stack
<1>. QED
  BY <1>2, <1>4, <1>5, <1>6, <1>7 DEF Stack, LowerPart

\* What is registered in a stack is registered below a scope, or in it or above.
LEMMA BelowOr ==
    ASSUME NEW n, NEW st, Stack(st, n), NEW m \in 0 .. Len(st), NEW i \in Registered(st)
    PROVE  \/ i \in Registered(SubSeq(st, 1, m))
           \/ \E k \in (m + 1) .. Len(st) : i \in Regs(st, k)
<1>1. PICK k \in 1 .. Len(st) : i \in Regs(st, k)
  BY RegisteredIs DEF Stack
<1>2. Len(st) \in Nat
  BY DEF Stack
<1>3. CASE k > m
  BY <1>1, <1>2, <1>3
<1>4. CASE k <= m
  <2>1. m \in 1 .. Len(st)
    BY <1>2, <1>4
  <2>2. PICK p : p = SubSeq(st, 1, m)
    OBVIOUS
  <2>3. Stack(p, n) /\ Len(p) = m /\ \A l \in 1 .. m : p[l] = st[l]
    <3>1. LowerPart(p, st, n, m)
      BY <2>1, <2>2, Below
    <3>. QED
      BY <3>1 DEF LowerPart
  <2>4. k \in 1 .. Len(p) /\ i \in Regs(p, k)
    BY <1>1, <1>4, <2>3 DEF Regs
  <2>5. i \in Registered(p)
    BY <2>3, <2>4, RegisteredIs DEF Stack
  <2>. QED
    BY <2>2, <2>5
<1>. QED
  BY <1>2, <1>3, <1>4

\* A cleanup is registered in one scope.
LEMMA InOneScope ==
    ASSUME NEW n, NEW st, Stack(st, n), NEW k \in 1 .. Len(st), NEW l \in 1 .. Len(st),
           NEW i, i \in Regs(st, k), i \in Regs(st, l)
    PROVE  k = l
<1>1. i \in 1 .. n
  <2>1. i \in Registered(st)
    BY RegisteredIs DEF Stack
  <2>. QED
    BY <2>1 DEF Stack
<1>2. Len(st) \in Nat
  BY DEF Stack
<1>3. ~ (k < l) /\ ~ (l < k)
  BY <1>1 DEF Stack
<1>. QED
  BY <1>2, <1>3

\* The cleanups that are registered when n become m.
Newer(ids, n, m) == m \in Nat /\ n <= m /\ ids \subseteq (n + 1) .. m

\* The innermost scope of st registers more, which gives new.
Extends(st, new, more) ==
    /\ new \in Seq(ScopeRecords) /\ Len(new) = Len(st)
    /\ \A k \in 1 .. Len(st) : new[k].kind = st[k].kind
    /\ \A k \in 1 .. (Len(st) - 1) : Regs(new, k) = Regs(st, k)
    /\ Regs(new, Len(st)) = Regs(st, Len(st)) \cup more

\* The innermost scope of a stack registers more: the result is a stack.
LEMMA More ==
    ASSUME NEW n, NEW st, Stack(st, n), NEW m, NEW more, Newer(more, n, m),
           NEW new, Extends(st, new, more)
    PROVE  Stack(new, m) /\ Registered(new) = Registered(st) \cup more
<1>a. m \in Nat /\ n <= m /\ more \subseteq (n + 1) .. m
  BY DEF Newer
<1>0. n \in Nat
  BY DEF Stack
<1>1. PICK len \in Nat : len = Len(st) /\ len = Len(new) /\ len >= 1
  BY DEF Stack, Extends
<1>2. \A k \in 1 .. len : k # len => Regs(new, k) = Regs(st, k)
  BY <1>1 DEF Extends
<1>3. Regs(new, len) = Regs(st, len) \cup more /\ new \in Seq(ScopeRecords)
  BY <1>1 DEF Extends
<1>4. \A k \in 1 .. len : \A i \in Regs(st, k) : i \in 1 .. n
  <2>1. ASSUME NEW k \in 1 .. len, NEW i \in Regs(st, k) PROVE i \in 1 .. n
    <3>1. i \in Registered(st)
      BY <1>1, <2>1, RegisteredIs DEF Stack
    <3>. QED
      BY <3>1 DEF Stack
  <2>. QED
    BY <2>1
<1>5. ASSUME NEW k \in 1 .. len, NEW l \in 1 .. len, k < l, NEW i \in Regs(new, k), NEW j \in Regs(new, l)
      PROVE  i < j
  <2>1. i \in Regs(st, k) /\ i \in 1 .. n
    BY <1>2, <1>4, <1>5
  <2>2. CASE j \in Regs(st, l)
    BY <1>1, <1>5, <2>1, <2>2 DEF Stack
  <2>3. CASE j \in more
    BY <1>a, <1>0, <2>1, <2>3
  <2>. QED
    BY <1>2, <1>3, <2>2, <2>3
<1>6. ASSUME NEW i PROVE i \in Registered(new) <=> i \in Registered(st) \cup more
  <2>1. i \in Registered(new) <=> \E k \in 1 .. len : i \in Regs(new, k)
    BY <1>1, <1>3, RegisteredIs
  <2>2. i \in Registered(st) <=> \E k \in 1 .. len : i \in Regs(st, k)
    BY <1>1, RegisteredIs DEF Stack
  <2>3. len \in 1 .. len
    BY <1>1
  <2>. QED
    BY <1>2, <1>3, <2>1, <2>2, <2>3
<1>7. Registered(new) = Registered(st) \cup more
  BY <1>6
<1>8. Registered(new) \subseteq 1 .. m
  <2>1. \A i \in 1 .. n : i \in 1 .. m
    BY <1>a, <1>0
  <2>2. \A i \in more : i \in 1 .. m
    BY <1>a, <1>0
  <2>. QED
    BY <1>7, <2>1, <2>2 DEF Stack
<1>9. new[1].kind = "fn"
  BY <1>1 DEF Stack, Extends
<1>. QED
  BY <1>a, <1>1, <1>3, <1>5, <1>7, <1>8, <1>9 DEF Stack

\* A scope, in which something may be registered already, is pushed on a stack.
Pushed(new, st, sc) == sc \in ScopeRecords /\ new = Append(st, sc)

\* A scope is opened: the result is a stack.
LEMMA Opened ==
    ASSUME NEW n, NEW st, Stack(st, n), NEW m,
           NEW sc, NEW new, Pushed(new, st, sc), NEW ids, ids = ToSet(sc.regs), Newer(ids, n, m)
    PROVE  Stack(new, m) /\ Registered(new) = Registered(st) \cup ids
<1>a. m \in Nat /\ n <= m /\ ToSet(sc.regs) \subseteq (n + 1) .. m
  BY DEF Newer
<1>0. n \in Nat
  BY DEF Stack
<1>1. PICK len \in Nat : len = Len(st) /\ len >= 1
  BY DEF Stack
<1>2. new = Append(st, sc) /\ sc \in ScopeRecords
  BY DEF Pushed
<1>3. PICK top \in Nat : top = len + 1
  OBVIOUS
<1>4. new \in Seq(ScopeRecords) /\ Len(new) = top /\ new[top] = sc /\ \A k \in 1 .. len : new[k] = st[k]
  <2>. DEFINE Records == ScopeRecords
  <2>1. st \in Seq(Records) /\ sc \in Records
    BY <1>2 DEF Stack
  <2>. HIDE DEF Records
  <2>2. new \in Seq(Records) /\ Len(new) = top /\ new[top] = sc /\ \A k \in 1 .. len : new[k] = st[k]
    BY <1>1, <1>2, <1>3, <2>1
  <2>. QED
    BY <2>2 DEF Records
<1>5. \A k \in 1 .. top : k = top \/ k \in 1 .. len
  BY <1>3
<1>6. Regs(new, top) = ToSet(sc.regs) /\ \A k \in 1 .. len : Regs(new, k) = Regs(st, k)
  BY <1>4 DEF Regs
<1>7. \A k \in 1 .. len : \A i \in Regs(st, k) : i \in 1 .. n
  <2>1. ASSUME NEW k \in 1 .. len, NEW i \in Regs(st, k) PROVE i \in 1 .. n
    <3>1. i \in Registered(st)
      BY <1>1, <2>1, RegisteredIs DEF Stack
    <3>. QED
      BY <3>1 DEF Stack
  <2>. QED
    BY <2>1
<1>8. ASSUME NEW k \in 1 .. top, NEW l \in 1 .. top, k < l, NEW i \in Regs(new, k), NEW j \in Regs(new, l)
      PROVE  i < j
  <2>1. k \in 1 .. len
    BY <1>3, <1>8
  <2>2. i \in Regs(st, k) /\ i \in 1 .. n
    BY <1>6, <1>7, <1>8, <2>1
  <2>3. CASE l = top
    <3>1. j \in (n + 1) .. m
      BY <1>a, <1>6, <1>8, <2>3
    <3>. QED
      BY <1>a, <1>0, <2>2, <3>1
  <2>4. CASE l \in 1 .. len
    <3>1. j \in Regs(st, l)
      BY <1>6, <1>8, <2>4
    <3>. QED
      BY <1>1, <1>8, <2>1, <2>2, <2>4, <3>1 DEF Stack
  <2>. QED
    BY <1>5, <2>3, <2>4
<1>9. Registered(new) = Registered(st) \cup ToSet(sc.regs)
  <2>1. ASSUME NEW i PROVE i \in Registered(new) <=> i \in Registered(st) \cup ToSet(sc.regs)
    <3>1. i \in Registered(new) <=> \E k \in 1 .. top : i \in Regs(new, k)
      BY <1>4, RegisteredIs
    <3>2. i \in Registered(st) <=> \E k \in 1 .. len : i \in Regs(st, k)
      BY <1>1, RegisteredIs DEF Stack
    <3>3. top \in 1 .. top /\ \A k \in 1 .. len : k \in 1 .. top
      BY <1>3
    <3>. QED
      BY <1>5, <1>6, <3>1, <3>2, <3>3
  <2>. QED
    BY <2>1
<1>10. Registered(new) \subseteq 1 .. m
  <2>1. \A i \in 1 .. n : i \in 1 .. m
    BY <1>a, <1>0
  <2>2. \A i \in (n + 1) .. m : i \in 1 .. m
    BY <1>a, <1>0
  <2>. QED
    BY <1>a, <1>9, <2>1, <2>2 DEF Stack
<1>11. new[1].kind = "fn" /\ top >= 1
  BY <1>1, <1>3, <1>4 DEF Stack
<1>. QED
  BY <1>a, <1>2, <1>4, <1>8, <1>9, <1>10, <1>11 DEF Stack

-----------------------------------------------------------------------------
(* What the emitted code has run                                           *)

\* A cleanup that is still to be run, unless `delete` has run it.
Fresh(it) ==
    \/ it.slot = "live" /\ it.ran = 0
    \/ it.slot = "null" /\ it.ran = 1 /\ it.kind \in {"slot", "str"}

\* What the emitted code is about to run, and what of it it has run.
Planned == IF next = "leave" THEN Regs(scopes, Len(scopes)) ELSE Registered(scopes)
Executed ==
    IF control = "running" THEN {}
    ELSE IF control = "returned" THEN Registered(scopes) ELSE Planned \ todo

Exact(i) ==
    IF i \in Registered(scopes) \ Executed THEN Fresh(items[i]) ELSE items[i].ran = 1

\* Where the clean-up leads: what a jump leaves registered was cleaned ahead of time.
Leading ==
    /\ todo \subseteq Planned /\ next \in {"leave", "return", "break", "catch"}
    /\ next \in {"leave", "catch"} => Len(scopes) > 1
    /\ next = "break" =>
          \E m \in 1 .. (Len(scopes) - 1) :
              m = Innermost("loop", scopes) - 1 /\ Registered(SubSeq(scopes, 1, m)) \subseteq early
    /\ next = "catch" => Registered(SubSeq(scopes, 1, Len(scopes) - 1)) \subseteq early

\* The inductive invariant of the order and the number of cleanups.
ExactInv ==
    /\ SlotsInv
    /\ control \in {"running", "cleaning", "returned", "unwound"}
    /\ control # "unwound" =>
          /\ Stack(scopes, Len(items))
          /\ \A i \in 1 .. Len(items) : Regular(i) => Exact(i)
          /\ control = "cleaning" => Leading

\* What a sequence holds when an element is appended.
LEMMA Appending ==
    ASSUME NEW s \in Seq(Nat), NEW x \in Nat
    PROVE  Append(s, x) \in Seq(Nat) /\ ToSet(Append(s, x)) = ToSet(s) \cup {x}
<1>1. PICK n \in Nat : n = Len(s)
  OBVIOUS
<1>2. PICK t : t = Append(s, x)
  OBVIOUS
<1>3. /\ t \in Seq(Nat) /\ Len(t) = n + 1 /\ t[n + 1] = x /\ \A i \in 1 .. n : t[i] = s[i]
      /\ DOMAIN t = 1 .. (n + 1) /\ DOMAIN s = 1 .. n
  BY <1>1, <1>2
<1>4. ASSUME NEW y PROVE y \in ToSet(t) <=> y \in ToSet(s) \cup {x}
  <2>1. y \in ToSet(t) <=> \E i \in 1 .. (n + 1) : t[i] = y
    BY <1>3 DEF ToSet
  <2>2. y \in ToSet(s) <=> \E i \in 1 .. n : s[i] = y
    BY <1>3 DEF ToSet
  <2>3. \A i \in 1 .. (n + 1) : i = n + 1 \/ i \in 1 .. n
    OBVIOUS
  <2>4. n + 1 \in 1 .. (n + 1) /\ \A i \in 1 .. n : i \in 1 .. (n + 1)
    OBVIOUS
  <2>. QED
    BY <1>3, <2>1, <2>2, <2>3, <2>4
<1>. QED
  BY <1>2, <1>3, <1>4

\* What two sequences hold end to end.
LEMMA Joining ==
    ASSUME NEW s \in Seq(Nat), NEW t \in Seq(Nat)
    PROVE  s \o t \in Seq(Nat) /\ ToSet(s \o t) = ToSet(s) \cup ToSet(t)
<1>1. PICK n \in Nat, m \in Nat : n = Len(s) /\ m = Len(t)
  OBVIOUS
<1>2. PICK u : u = s \o t
  OBVIOUS
<1>3. /\ u \in Seq(Nat) /\ Len(u) = n + m
      /\ \A i \in 1 .. n : u[i] = s[i]
      /\ \A i \in 1 .. m : u[n + i] = t[i]
      /\ DOMAIN u = 1 .. (n + m) /\ DOMAIN s = 1 .. n /\ DOMAIN t = 1 .. m
  BY <1>1, <1>2
<1>4. \A y : /\ y \in ToSet(u) <=> \E i \in 1 .. (n + m) : u[i] = y
             /\ y \in ToSet(s) <=> \E i \in 1 .. n : s[i] = y
             /\ y \in ToSet(t) <=> \E i \in 1 .. m : t[i] = y
  BY <1>3 DEF ToSet
<1>5. ASSUME NEW y \in ToSet(u) PROVE y \in ToSet(s) \cup ToSet(t)
  <2>1. PICK i \in 1 .. (n + m) : u[i] = y
    BY <1>4
  <2>2. CASE i \in 1 .. n
    BY <1>3, <1>4, <2>1, <2>2
  <2>3. CASE i \notin 1 .. n
    <3>1. PICK j \in 1 .. m : i = n + j
      BY <2>3
    <3>. QED
      BY <1>3, <1>4, <2>1, <3>1
  <2>. QED
    BY <2>2, <2>3
<1>6. ASSUME NEW y \in ToSet(s) PROVE y \in ToSet(u)
  <2>1. PICK i \in 1 .. n : s[i] = y
    BY <1>4
  <2>2. i \in 1 .. (n + m) /\ u[i] = y
    BY <1>3, <2>1
  <2>. QED
    BY <1>4, <2>2
<1>7. ASSUME NEW y \in ToSet(t) PROVE y \in ToSet(u)
  <2>1. PICK i \in 1 .. m : t[i] = y
    BY <1>4
  <2>2. n + i \in 1 .. (n + m) /\ u[n + i] = y
    BY <1>3, <2>1
  <2>. QED
    BY <1>4, <2>2
<1>. QED
  BY <1>2, <1>3, <1>5, <1>6, <1>7

\* The cleanups.
LEMMA ItemsAre ==
    ASSUME SlotsInv
    PROVE  /\ Len(items) \in Nat /\ DOMAIN items = 1 .. Len(items)
           /\ \A i \in 1 .. Len(items) : items[i] \in Sound
BY DEF SlotsInv

\* A cleanup that is run: it has run once if it was to be run.
LEMMA CleanedOnce ==
    ASSUME NEW it \in Sound, NEW c \in Cleaned(it)
    PROVE  /\ Fresh(it) => c.ran = 1
           /\ it.slot = "unset" => c.slot = "unset"
<1>1. it \in Cleanups /\ it.slot \in {"live", "null", "unset"} /\ it.kind \in Kinds \cup {"end_catch"}
  BY DEF Sound, Cleanups
<1>2. PICK counted : counted = Counted(it)
  OBVIOUS
<1>3. counted.slot = it.slot /\ (it.ran = 0 => counted.ran = 1) /\ counted \in Cleanups
  BY <1>1, <1>2 DEF Counted, MaxRan, Cleanups
<1>4. CASE it.kind \in {"defer", "end_catch"}
  BY <1>2, <1>3, <1>4 DEF Cleaned, Fresh
<1>5. CASE it.kind \notin {"defer", "end_catch"} /\ it.slot = "null"
  BY <1>5 DEF Cleaned, Fresh
<1>6. CASE it.kind \notin {"defer", "end_catch"} /\ it.slot = "unset"
  <2>1. c \in {it, counted}
    BY <1>2, <1>6 DEF Cleaned
  <2>. QED
    BY <1>3, <1>6, <2>1 DEF Fresh
<1>7. CASE it.kind \notin {"defer", "end_catch"} /\ it.slot = "live"
  <2>1. c = [counted EXCEPT !.slot = IF it.kind = "slot" THEN "null" ELSE counted.slot]
    BY <1>2, <1>7 DEF Cleaned
  <2>2. c.ran = counted.ran
    BY <1>3, <2>1 DEF Cleanups
  <2>. QED
    BY <1>3, <1>7, <2>2 DEF Fresh
<1>. QED
  BY <1>1, <1>4, <1>5, <1>6, <1>7

\* Nothing becomes regular again.
LEMMA StaysIrregular ==
    ASSUME NEW i, early \subseteq early', lost \subseteq lost',
           items[i].slot = "unset" => items'[i].slot = "unset", Regular(i)'
    PROVE  Regular(i)
BY DEF Regular

\* A step of a statement that plans a clean-up or opens a scope.
LEMMA PlanStep ==
    ASSUME ExactInv, control = "running", SlotsInv', items' = items, scopes' = scopes,
           control' = "cleaning", Leading', todo' = Planned', early \subseteq early', lost' = lost
    PROVE  ExactInv'
<1>1. /\ Stack(scopes, Len(items))
      /\ \A i \in 1 .. Len(items) : Regular(i) => Exact(i)
  BY DEF ExactInv
<1>2. Executed = {} /\ Executed' = {}
  BY DEF Executed
<1>3. ASSUME NEW i \in 1 .. Len(items'), Regular(i)' PROVE Exact(i)'
  <2>1. Regular(i)
    BY <1>3, StaysIrregular
  <2>2. Exact(i)
    BY <1>1, <2>1
  <2>. QED
    BY <1>2, <2>2 DEF Exact
<1>4. Stack(scopes, Len(items))'
  BY <1>1 DEF Stack, Registered, Regs
<1>. QED
  BY <1>3, <1>4 DEF ExactInv

-----------------------------------------------------------------------------
(* Every step keeps the number of the cleanups                             *)

\* What is registered above a scope.
LEMMA Above ==
    ASSUME NEW st \in Seq(ScopeRecords), NEW m \in 0 .. Len(st), NEW k \in (m + 1) .. Len(st),
           NEW i \in Regs(st, k)
    PROVE  i \in Registered(SubSeq(st, m + 1, Len(st)))
<1>1. PICK len \in Nat : len = Len(st)
  OBVIOUS
<1>2. PICK q : q = SubSeq(st, m + 1, len)
  OBVIOUS
<1>3. PICK j \in 1 .. (len - m) : k = m + j
  <2>1. k - m \in 1 .. (len - m) /\ k = m + (k - m)
    BY <1>1
  <2>. QED
    BY <2>1
<1>4. DOMAIN q = 1 .. (len - m) /\ q[j] = st[k]
  <2>. DEFINE Records == ScopeRecords
  <2>1. st \in Seq(Records)
    OBVIOUS
  <2>. HIDE DEF Records
  <2>. QED
    BY <1>1, <1>2, <1>3, <2>1
<1>5. j \in DOMAIN q /\ i \in ToSet(q[j].regs)
  BY <1>3, <1>4 DEF Regs
<1>6. i \in Registered(q)
  BY <1>5 DEF Registered
<1>. QED
  BY <1>1, <1>2, <1>6

\* Stacks that agree below a scope have registered the same there.
LEMMA SameBelow ==
    ASSUME NEW n, NEW st, Stack(st, n), NEW o, NEW new, Stack(new, o),
           NEW m \in 1 .. Len(st), m \in 1 .. Len(new),
           \A k \in 1 .. m : Regs(new, k) = Regs(st, k)
    PROVE  Registered(SubSeq(new, 1, m)) = Registered(SubSeq(st, 1, m))
<1>0. m \in 1 .. Len(st) /\ m \in 1 .. Len(new) /\ Stack(st, n) /\ Stack(new, o)
  OBVIOUS
<1>1. PICK p : p = SubSeq(st, 1, m)
  OBVIOUS
<1>2. PICK q : q = SubSeq(new, 1, m)
  OBVIOUS
<1>3. /\ Stack(p, n) /\ Len(p) = m /\ Registered(p) \subseteq Registered(st)
      /\ \A k \in 1 .. m : p[k] = st[k]
  <2>1. LowerPart(p, st, n, m)
    BY <1>0, <1>1, Below
  <2>. QED
    BY <2>1 DEF LowerPart
<1>4. Stack(q, o) /\ Len(q) = m /\ \A k \in 1 .. m : q[k] = new[k]
  <2>1. LowerPart(q, new, o, m)
    BY <1>0, <1>2, Below
  <2>. QED
    BY <2>1 DEF LowerPart
<1>5. \A k \in 1 .. m : Regs(q, k) = Regs(p, k)
  BY <1>3, <1>4 DEF Regs
<1>6. ASSUME NEW i PROVE i \in Registered(q) <=> i \in Registered(p)
  <2>1. i \in Registered(q) <=> \E k \in 1 .. m : i \in Regs(q, k)
    BY <1>4, RegisteredIs DEF Stack
  <2>2. i \in Registered(p) <=> \E k \in 1 .. m : i \in Regs(p, k)
    BY <1>3, RegisteredIs DEF Stack
  <2>. QED
    BY <1>5, <2>1, <2>2
<1>. QED
  BY <1>1, <1>2, <1>6

\* The innermost scope of a stack registers more.
LEMMA Extended ==
    ASSUME NEW n, NEW st, Stack(st, n), NEW len, len = Len(st), NEW more,
           NEW regs, regs \in Seq(Nat), ToSet(regs) = Regs(st, len) \cup more,
           NEW new, new = [st EXCEPT ![len].regs = regs]
    PROVE  Extends(st, new, more)
<1>1. len \in Nat /\ len >= 1
  BY DEF Stack
<1>2. PICK top : top = [st[len] EXCEPT !.regs = regs]
  OBVIOUS
<1>3. \A k \in 1 .. len : st[k] \in ScopeRecords
  <2>. DEFINE Records == ScopeRecords
  <2>1. st \in Seq(Records)
    BY DEF Stack
  <2>. HIDE DEF Records
  <2>2. \A k \in 1 .. len : st[k] \in Records
    BY <2>1
  <2>. QED
    BY <2>2 DEF Records
<1>4. top \in ScopeRecords /\ top.kind = st[len].kind /\ top.regs = regs
  <2>1. st[len] \in ScopeRecords
    BY <1>1, <1>3
  <2>. QED
    BY <1>2, <2>1 DEF ScopeRecords
<1>5. /\ new \in Seq(ScopeRecords) /\ Len(new) = len
      /\ \A k \in 1 .. len : new[k] = IF k = len THEN top ELSE st[k]
  <2>. DEFINE Records == ScopeRecords
  <2>1. st \in Seq(Records) /\ top \in Records
    BY <1>4 DEF Stack
  <2>2. new = [st EXCEPT ![len] = top]
    BY <1>2
  <2>. HIDE DEF Records
  <2>3. new \in Seq(Records)
    <3>1. [st EXCEPT ![len] = top] \in Seq(Records)
      BY <2>1, ReplaceType
    <3>. QED
      BY <2>2, <3>1
  <2>4. Len(new) = len /\ \A k \in 1 .. len : new[k] = IF k = len THEN top ELSE st[k]
    BY <1>1, <2>1, <2>2
  <2>. QED
    BY <2>3, <2>4 DEF Records
<1>6. \A k \in 1 .. Len(st) : new[k].kind = st[k].kind
  BY <1>4, <1>5
<1>7. \A k \in 1 .. (Len(st) - 1) : Regs(new, k) = Regs(st, k)
  BY <1>1, <1>5 DEF Regs
<1>8. Regs(new, Len(st)) = Regs(st, Len(st)) \cup more
  BY <1>1, <1>4, <1>5 DEF Regs
<1>. QED
  BY <1>5, <1>6, <1>7, <1>8 DEF Extends

\* A declaration or a defer registers its cleanup, which is to be run.
LEMMA RegisterExact ==
    ASSUME ExactInv, SlotsInv', NEW kind \in Kinds, Register(kind)
    PROVE  ExactInv'
<1>1. PICK n \in Nat : n = Len(items)
  BY ItemsAre DEF ExactInv
<1>2. /\ Stack(scopes, n) /\ control = "running" /\ control' = "running"
      /\ \A i \in 1 .. n : Regular(i) => Exact(i)
  BY <1>1 DEF ExactInv, Register
<1>3. PICK len \in Nat : len = Len(scopes) /\ len >= 1
  BY <1>2 DEF Stack
<1>4. PICK regs : regs = Append(scopes[len].regs, n + 1)
  OBVIOUS
<1>5. scopes[len] \in ScopeRecords
  <2>. DEFINE Records == ScopeRecords
  <2>1. scopes \in Seq(Records)
    BY <1>2 DEF Stack
  <2>. HIDE DEF Records
  <2>2. scopes[len] \in Records
    BY <1>3, <2>1
  <2>. QED
    BY <2>2 DEF Records
<1>6. PICK old \in Seq(Nat) : old = scopes[len].regs
  BY <1>5 DEF ScopeRecords
<1>7. PICK m \in Nat : m = n + 1
  OBVIOUS
<1>. PICK more : more = (n + 1) .. m
  OBVIOUS
<1>8. regs \in Seq(Nat) /\ ToSet(regs) = Regs(scopes, len) \cup more
  <2>1. regs \in Seq(Nat) /\ ToSet(regs) = ToSet(old) \cup {m}
    BY <1>4, <1>6, <1>7, Appending
  <2>2. {m} = more
    BY <1>7
  <2>. QED
    BY <1>6, <2>1, <2>2 DEF Regs
<1>9. scopes' = [scopes EXCEPT ![len].regs = regs]
  BY <1>1, <1>3, <1>4 DEF Register
<1>10. Stack(scopes', m) /\ Registered(scopes') = Registered(scopes) \cup (n + 1) .. m
  <2>1. Newer(more, n, m)
    BY <1>7 DEF Newer
  <2>. QED
    <3>1. PICK stack : stack = scopes' /\ stack = [scopes EXCEPT ![len].regs = regs]
      BY <1>9
    <3>2. Stack(scopes, n) /\ len = Len(scopes) /\ regs \in Seq(Nat)
          /\ ToSet(regs) = Regs(scopes, len) \cup more
      BY <1>2, <1>3, <1>8
    <3>3. Extends(scopes, stack, more)
      BY <3>1, <3>2, Extended
    <3>4. Stack(stack, m) /\ Registered(stack) = Registered(scopes) \cup more
      BY <2>1, <3>2, <3>3, More
    <3>. QED
      BY <3>1, <3>4
<1>11. PICK new : new = Item(kind, "live")
  OBVIOUS
<1>12. Len(items') = m /\ items'[m] = new /\ \A i \in 1 .. n : items'[i] = items[i]
  <2>1. items' = Append(items, new)
    BY <1>11 DEF Register
  <2>. DEFINE Sounds == Sound
  <2>2. items \in Seq(Sounds)
    BY DEF ExactInv, SlotsInv
  <2>. HIDE DEF Sounds
  <2>. QED
    BY <1>1, <1>7, <2>1, <2>2
<1>13. new.slot = "live" /\ new.ran = 0
  BY <1>11 DEF Item
<1>14. Executed = {} /\ Executed' = {}
  BY <1>2 DEF Executed
<1>15. ASSUME NEW i \in 1 .. m, Regular(i)' PROVE Exact(i)'
  <2>1. CASE i = m
    BY <1>12, <1>13, <2>1, <1>14, <1>10, <1>7 DEF Exact, Fresh
  <2>2. CASE i # m
    <3>1. i \in 1 .. n /\ i \notin (n + 1) .. m
      BY <1>7, <2>2
    <3>2. items'[i] = items[i] /\ early' = early /\ lost' = lost
      BY <1>12, <3>1 DEF Register
    <3>3. Exact(i)
      BY <1>2, <1>15, <3>1, <3>2 DEF Regular
    <3>. QED
      BY <1>10, <1>14, <3>1, <3>2, <3>3 DEF Exact, Fresh
  <2>. QED
    BY <2>1, <2>2
<1>. QED
  BY <1>2, <1>10, <1>12, <1>15 DEF ExactInv

\* A scope is opened, with nothing registered.
LEMMA EnterExact ==
    ASSUME ExactInv, SlotsInv', NEW kind \in {"block", "loop", "try"}, Enter(kind)
    PROVE  ExactInv'
<1>1. PICK n \in Nat : n = Len(items) /\ n = Len(items')
  BY ItemsAre DEF ExactInv, Enter
<1>2. /\ Stack(scopes, n) /\ control = "running" /\ control' = "running"
      /\ \A i \in 1 .. n : Regular(i) => Exact(i)
  BY <1>1 DEF ExactInv, Enter
<1>3. PICK sc : sc = Scope(kind)
  OBVIOUS
<1>4. sc \in ScopeRecords /\ sc.regs = <<>>
  BY <1>3 DEF Scope, ScopeRecords
<1>5. ToSet(sc.regs) = {}
  BY <1>4 DEF ToSet
<1>6. PICK new : new = Append(scopes, sc)
  OBVIOUS
<1>7. Stack(new, n) /\ Registered(new) = Registered(scopes) \cup ToSet(sc.regs)
  <2>1. Pushed(new, scopes, sc)
    BY <1>4, <1>6 DEF Pushed
  <2>2. PICK ids : ids = ToSet(sc.regs)
    OBVIOUS
  <2>3. Newer(ids, n, n)
    BY <1>1, <1>5, <2>2 DEF Newer
  <2>4. Stack(new, n) /\ Registered(new) = Registered(scopes) \cup ids
    BY <1>2, <2>1, <2>2, <2>3, Opened
  <2>. QED
    BY <2>2, <2>4
<1>8. Stack(scopes', n) /\ Registered(scopes') = Registered(scopes)
  <2>1. scopes' = new
    BY <1>3, <1>6 DEF Enter
  <2>. QED
    BY <1>5, <1>7, <2>1
<1>9. Executed = {} /\ Executed' = {}
  BY <1>2 DEF Executed
<1>10. items' = items /\ early' = early /\ lost' = lost
  BY DEF Enter
<1>11. ASSUME NEW i \in 1 .. n, Regular(i)' PROVE Exact(i)'
  <2>1. Exact(i)
    BY <1>2, <1>10, <1>11 DEF Regular
  <2>. QED
    BY <1>8, <1>9, <1>10, <2>1 DEF Exact
<1>. QED
  BY <1>1, <1>2, <1>8, <1>11 DEF ExactInv

\* delete releases what would be released later.
LEMMA DeleteExact ==
    ASSUME ExactInv, SlotsInv', NEW d \in DOMAIN items, Delete(d)
    PROVE  ExactInv'
<1>1. PICK n \in Nat : n = Len(items) /\ DOMAIN items = 1 .. n
  BY ItemsAre DEF ExactInv
<1>2. /\ Stack(scopes, n) /\ control = "running" /\ control' = "running"
      /\ \A i \in 1 .. n : Regular(i) => Exact(i)
      /\ scopes' = scopes /\ early' = early /\ lost' = lost
  BY <1>1 DEF ExactInv, Delete
<1>3. d \in Registered(scopes)
  BY DEF Delete, Registered
<1>4. PICK it : it = [[items[d] EXCEPT !.slot = "null"] EXCEPT !.ran = 1]
  OBVIOUS
<1>5. it.slot = "null" /\ it.ran = 1 /\ it.kind \in {"slot", "str"} /\ items[d].slot = "live"
  <2>1. items[d] \in Cleanups /\ items[d].kind \in {"slot", "str"} /\ items[d].slot = "live"
    BY <1>1, ItemsAre DEF ExactInv, Delete, Sound
  <2>2. PICK half : half = [items[d] EXCEPT !.slot = "null"]
    OBVIOUS
  <2>3. half \in Cleanups /\ half.slot = "null" /\ half.kind = items[d].kind
    BY <2>1, <2>2 DEF Cleanups
  <2>4. it = [half EXCEPT !.ran = 1]
    BY <1>4, <2>2
  <2>. QED
    BY <2>1, <2>3, <2>4 DEF Cleanups
<1>6. items' = [items EXCEPT ![d] = it]
  BY <1>4 DEF Delete
<1>7. Len(items') = n /\ items'[d] = it /\ \A i \in 1 .. n : i # d => items'[i] = items[i]
  <2>. DEFINE Sounds == Sound
  <2>1. items \in Seq(Sounds)
    BY DEF ExactInv, SlotsInv
  <2>. HIDE DEF Sounds
  <2>. QED
    BY <1>1, <1>6, <2>1
<1>8. Executed = {} /\ Executed' = {}
  BY <1>2 DEF Executed
<1>9. ASSUME NEW i \in 1 .. n, Regular(i)' PROVE Exact(i)'
  <2>1. CASE i = d
    BY <1>2, <1>3, <1>5, <1>7, <1>8, <2>1 DEF Exact, Fresh
  <2>2. CASE i # d
    <3>1. items'[i] = items[i]
      BY <1>7, <2>2
    <3>2. Exact(i)
      BY <1>2, <1>9, <3>1 DEF Regular
    <3>. QED
      BY <1>2, <1>8, <3>1, <3>2 DEF Exact, Fresh
  <2>. QED
    BY <2>1, <2>2
<1>10. Stack(scopes', n)
  BY <1>2
<1>. QED
  BY <1>2, <1>7, <1>9, <1>10 DEF ExactInv

\* The stack of scopes and what it registers are those of the step before.
LEMMA SameScopes ==
    ASSUME scopes' = scopes
    PROVE  /\ Registered(scopes)' = Registered(scopes)
           /\ \A k : Regs(scopes, k)' = Regs(scopes, k)
BY DEF Registered, Regs

\* The end of a scope plans the clean-up of what the scope has registered.
LEMMA LeaveExactly ==
    ASSUME ExactInv, SlotsInv', Leave
    PROVE  ExactInv'
<1>1. /\ control = "running" /\ Len(scopes) > 1 /\ control' = "cleaning" /\ next' = "leave"
      /\ todo' = ToSet(Last(scopes).regs)
      /\ items' = items /\ scopes' = scopes /\ early' = early /\ lost' = lost
  BY DEF Leave, Plan
<1>2. todo' = Planned'
  BY <1>1 DEF Planned, Regs, Last
<1>3. Leading'
  BY <1>1, <1>2 DEF Leading
<1>. QED
  BY <1>1, <1>2, <1>3, PlanStep

\* return plans the cleanups of the function.
LEMMA ReturnExactly ==
    ASSUME ExactInv, SlotsInv', Return
    PROVE  ExactInv'
<1>1. /\ control = "running" /\ control' = "cleaning" /\ next' = "return"
      /\ todo' = Registered(scopes)
      /\ items' = items /\ scopes' = scopes /\ early' = early /\ lost' = lost
  BY DEF Return, Plan, AllPlan
<1>2. todo' = Planned'
  BY <1>1, SameScopes DEF Planned
<1>3. Leading'
  BY <1>1, <1>2 DEF Leading
<1>. QED
  BY <1>1, <1>2, <1>3, PlanStep

\* break and continue plan the cleanups of the function; those below the loop run early.
LEMMA BreakExactly ==
    ASSUME ExactInv, SlotsInv', Break
    PROVE  ExactInv'
<1>1. /\ control = "running" /\ control' = "cleaning" /\ next' = "break"
      /\ todo' = Registered(scopes)
      /\ items' = items /\ scopes' = scopes /\ lost' = lost
      /\ early \subseteq early'
  BY DEF Break, Plan, AllPlan
<1>2. todo' = Planned'
  BY <1>1, SameScopes DEF Planned
<1>3. PICK len \in Nat : len = Len(scopes) /\ DOMAIN scopes = 1 .. len /\ scopes[1].kind = "fn"
  BY <1>1 DEF ExactInv, Stack
<1>4. PICK top : top = Innermost("loop", scopes)
  OBVIOUS
<1>5. top \in 1 .. len /\ scopes[top].kind = "loop"
  BY <1>3, <1>4, InnermostIs DEF Break
<1>6. top # 1
  BY <1>3, <1>5
<1>7. PICK m \in 1 .. (len - 1) : m = top - 1
  BY <1>5, <1>6
<1>8. Registered(SubSeq(scopes, 1, m)) \subseteq early'
  BY <1>4, <1>7 DEF Break
<1>9. Innermost("loop", scopes)' = top
  BY <1>1, <1>4 DEF Innermost
<1>10. Registered(SubSeq(scopes, 1, m))' = Registered(SubSeq(scopes, 1, m))
  BY <1>1 DEF Registered
<1>11. \E k \in 1 .. (Len(scopes') - 1) :
              k = Innermost("loop", scopes)' - 1 /\ Registered(SubSeq(scopes', 1, k)) \subseteq early'
  BY <1>1, <1>3, <1>7, <1>8, <1>9
<1>12. Leading'
  BY <1>1, <1>2, <1>9, <1>11 DEF Leading
<1>. QED
  BY <1>1, <1>2, <1>12, PlanStep

\* What the emitted code runs is registered.
LEMMA PlannedRegistered ==
    ASSUME NEW n, Stack(scopes, n) PROVE Planned \subseteq Registered(scopes)
<1>1. ASSUME NEW i \in Regs(scopes, Len(scopes)) PROVE i \in Registered(scopes)
  <2>1. Len(scopes) \in 1 .. Len(scopes) /\ scopes \in Seq(ScopeRecords)
    BY DEF Stack
  <2>. QED
    BY <1>1, <2>1, RegisteredIs
<1>. QED
  BY <1>1 DEF Planned

\* A cleanup runs.
LEMMA CleanupExact ==
    ASSUME ExactInv, SlotsInv', CleanupStep
    PROVE  ExactInv'
<1>1. PICK n \in Nat : n = Len(items) /\ DOMAIN items = 1 .. n
  BY ItemsAre DEF ExactInv
<1>2. /\ Stack(scopes, n) /\ control = "cleaning" /\ control' = "cleaning" /\ Leading
      /\ \A i \in 1 .. n : Regular(i) => Exact(i)
      /\ scopes' = scopes /\ next' = next /\ early' = early /\ lost' = lost
  BY <1>1 DEF ExactInv, CleanupStep
<1>3. PICK c \in todo : /\ \E it \in Cleaned(items[c]) : items' = [items EXCEPT ![c] = it]
                        /\ todo' = todo \ {c}
  BY DEF CleanupStep
<1>4. PICK it \in Cleaned(items[c]) : items' = [items EXCEPT ![c] = it]
  BY <1>3
<1>5. todo \subseteq Planned /\ Planned \subseteq Registered(scopes) /\ Registered(scopes) \subseteq 1 .. n
  BY <1>2, PlannedRegistered DEF Leading, Stack
<1>6. c \in 1 .. n /\ c \in Registered(scopes) /\ c \in Planned
  BY <1>3, <1>5
<1>7. Len(items') = n /\ items'[c] = it /\ \A i \in 1 .. n : i # c => items'[i] = items[i]
  <2>. DEFINE Sounds == Sound
  <2>1. items \in Seq(Sounds)
    BY DEF ExactInv, SlotsInv
  <2>. HIDE DEF Sounds
  <2>. QED
    BY <1>1, <1>4, <1>6, <2>1
<1>8. /\ Registered(scopes)' = Registered(scopes) /\ Planned' = Planned
      /\ Executed = Planned \ todo /\ Executed' = Executed \cup {c}
  <2>1. Registered(scopes)' = Registered(scopes) /\ Planned' = Planned
    BY <1>2 DEF Planned, Regs, Registered
  <2>2. Executed = Planned \ todo /\ Executed' = Planned' \ todo'
    BY <1>2 DEF Executed
  <2>. QED
    BY <1>3, <1>6, <2>1, <2>2
<1>9. /\ Fresh(items[c]) => it.ran = 1
      /\ items[c].slot = "unset" => it.slot = "unset"
  BY <1>1, <1>6, ItemsAre, CleanedOnce DEF ExactInv
<1>10. ASSUME NEW i \in 1 .. n, Regular(i)' PROVE Exact(i)'
  <2>1. CASE i = c
    <3>1. Exact(c)
      BY <1>2, <1>7, <1>9, <1>10, <2>1 DEF Regular
    <3>2. Fresh(items[c])
      BY <1>3, <1>6, <1>8, <3>1 DEF Exact
    <3>. QED
      BY <1>7, <1>8, <1>9, <2>1, <3>2 DEF Exact
  <2>2. CASE i # c
    <3>1. items'[i] = items[i]
      BY <1>7, <2>2
    <3>2. Exact(i)
      BY <1>2, <1>10, <3>1 DEF Regular
    <3>. QED
      BY <1>8, <2>2, <3>1, <3>2 DEF Exact, Fresh
  <2>. QED
    BY <2>1, <2>2
<1>11. Stack(scopes', n)
  BY <1>2
<1>12. Leading'
  <2>1. todo' \subseteq Planned'
    BY <1>3, <1>5, <1>8
  <2>2. Innermost("loop", scopes)' = Innermost("loop", scopes)
    BY <1>2 DEF Innermost
  <2>3. \A m : Registered(SubSeq(scopes, 1, m))' = Registered(SubSeq(scopes, 1, m))
    BY <1>2 DEF Registered
  <2>. QED
    BY <1>2, <2>1, <2>2, <2>3 DEF Leading
<1>. QED
  BY <1>2, <1>7, <1>10, <1>11, <1>12 DEF ExactInv

\* When the clean-up of the function or of a loop or try body has run, what it covers
\* has run once; the facts that the ends of the sequences share.
LEMMA Completed ==
    ASSUME ExactInv, NEW where, Cleaning(where), NEW n, n = Len(items)
    PROVE  /\ Stack(scopes, n) /\ n \in Nat /\ Leading /\ Executed = Planned /\ next = where
           /\ \A i \in 1 .. n : Regular(i) /\ i \in Planned => items[i].ran = 1
           /\ \A i \in 1 .. n : Regular(i) /\ i \notin Registered(scopes) => items[i].ran = 1
           /\ \A i \in 1 .. n : Regular(i) /\ i \in Registered(scopes) /\ i \notin Planned
                 => Fresh(items[i])
<1>1. /\ Stack(scopes, n) /\ n \in Nat /\ Leading /\ control = "cleaning" /\ todo = {} /\ next = where
      /\ \A i \in 1 .. n : Regular(i) => Exact(i)
  BY ItemsAre DEF ExactInv, Cleaning
<1>2. Executed = Planned
  BY <1>1 DEF Executed
<1>. QED
  BY <1>1, <1>2 DEF Exact

\* The end of a scope: its cleanups have run and those of the outer scopes are to be run.
LEMMA LeftExact ==
    ASSUME ExactInv, SlotsInv', Left
    PROVE  ExactInv'
<1>1. PICK n : n = Len(items)
  OBVIOUS
<1>2. /\ Cleaning("leave") /\ control' = "running" /\ scopes' = Front(scopes)
      /\ items' = items /\ early' = early /\ lost' = lost
  BY DEF Left, Resume
<1>3. /\ Stack(scopes, n) /\ n \in Nat /\ Leading /\ next = "leave"
      /\ \A i \in 1 .. n : Regular(i) /\ i \in Planned => items[i].ran = 1
      /\ \A i \in 1 .. n : Regular(i) /\ i \notin Registered(scopes) => items[i].ran = 1
      /\ \A i \in 1 .. n : Regular(i) /\ i \in Registered(scopes) /\ i \notin Planned
            => Fresh(items[i])
  BY <1>1, <1>2, Completed
<1>4. PICK len \in Nat : len = Len(scopes) /\ len > 1
  BY <1>3 DEF Leading, Stack
<1>5. PICK m \in 1 .. Len(scopes) : m = len - 1 /\ len = m + 1
  BY <1>4
<1>6. PICK p : p = SubSeq(scopes, 1, m)
  OBVIOUS
<1>7. /\ Stack(p, n) /\ Len(p) = m /\ Registered(p) \subseteq Registered(scopes)
      /\ \A k \in 1 .. m : p[k] = scopes[k]
  <2>1. Stack(scopes, n) /\ m \in 1 .. Len(scopes)
    BY <1>3
  <2>. QED
    <3>1. LowerPart(p, scopes, n, m)
      BY <1>6, <2>1, Below
    <3>. QED
      BY <3>1 DEF LowerPart
<1>8. scopes' = p
  BY <1>2, <1>4, <1>5, <1>6 DEF Front
<1>9. Planned = Regs(scopes, len)
  BY <1>3, <1>4 DEF Planned
<1>10. ASSUME NEW i \in Registered(p) PROVE i \notin Planned
  <2>1. PICK k \in 1 .. m : i \in Regs(p, k)
    BY <1>7, RegisteredIs DEF Stack
  <2>2. k \in 1 .. Len(scopes) /\ i \in Regs(scopes, k) /\ len \in 1 .. Len(scopes) /\ k # len
    BY <1>4, <1>5, <1>7, <2>1 DEF Regs
  <2>. QED
    BY <1>3, <1>9, <2>2, InOneScope
<1>11. ASSUME NEW i \in Registered(scopes), i \notin Registered(p) PROVE i \in Planned
  <2>1. m \in 0 .. Len(scopes)
    BY <1>4, <1>5
  <2>2. PICK k \in (m + 1) .. Len(scopes) : i \in Regs(scopes, k)
    BY <1>3, <1>6, <1>11, <2>1, BelowOr
  <2>3. k = len
    BY <1>4, <1>5
  <2>. QED
    BY <1>9, <2>2, <2>3
<1>12. Executed' = {}
  BY <1>2 DEF Executed
<1>13. ASSUME NEW i \in 1 .. n, Regular(i)' PROVE Exact(i)'
  <2>1. Regular(i)
    BY <1>2, <1>13 DEF Regular
  <2>2. CASE i \in Registered(p)
    <3>1. Fresh(items[i])
      BY <1>3, <1>7, <1>10, <2>1, <2>2
    <3>. QED
      BY <1>2, <1>8, <1>12, <2>2, <3>1 DEF Exact, Fresh
  <2>3. CASE i \notin Registered(p)
    <3>1. items[i].ran = 1
      BY <1>3, <1>11, <2>1, <2>3
    <3>. QED
      BY <1>2, <1>8, <1>12, <2>3, <3>1 DEF Exact
  <2>. QED
    BY <2>2, <2>3
<1>. QED
  BY <1>1, <1>2, <1>7, <1>8, <1>13 DEF ExactInv

\* The function returns: all of its cleanups have run.
LEMMA ReturnedExact ==
    ASSUME ExactInv, SlotsInv', Returned
    PROVE  ExactInv'
<1>1. PICK n : n = Len(items)
  OBVIOUS
<1>2. /\ Cleaning("return") /\ control' = "returned" /\ scopes' = scopes
      /\ items' = items /\ early' = early /\ lost' = lost
  BY DEF Returned
<1>3. /\ Stack(scopes, n) /\ next = "return"
      /\ \A i \in 1 .. n : Regular(i) /\ i \in Planned => items[i].ran = 1
      /\ \A i \in 1 .. n : Regular(i) /\ i \notin Registered(scopes) => items[i].ran = 1
  BY <1>1, <1>2, Completed
<1>4. Planned = Registered(scopes)
  BY <1>3 DEF Planned
<1>5. ASSUME NEW i \in 1 .. n, Regular(i)' PROVE Exact(i)'
  <2>1. Regular(i)
    BY <1>2, <1>5 DEF Regular
  <2>2. items'[i].ran = 1
    BY <1>2, <1>3, <1>4, <2>1
  <2>3. Registered(scopes)' \ Executed' = {}
    BY <1>2 DEF Executed
  <2>. QED
    BY <2>2, <2>3 DEF Exact
<1>6. Stack(scopes', n)
  BY <1>2, <1>3
<1>. QED
  BY <1>1, <1>2, <1>5, <1>6 DEF ExactInv

\* A loop is left: what stays registered was cleaned ahead of time.
LEMMA BrokenExact ==
    ASSUME ExactInv, SlotsInv', Broken
    PROVE  ExactInv'
<1>1. PICK n : n = Len(items)
  OBVIOUS
<1>2. /\ Cleaning("break") /\ control' = "running"
      /\ scopes' = SubSeq(scopes, 1, Innermost("loop", scopes) - 1)
      /\ items' = items /\ early' = early /\ lost' = lost
  BY DEF Broken, Resume
<1>3. /\ Stack(scopes, n) /\ next = "break" /\ Leading
      /\ \A i \in 1 .. n : Regular(i) /\ i \in Planned => items[i].ran = 1
      /\ \A i \in 1 .. n : Regular(i) /\ i \notin Registered(scopes) => items[i].ran = 1
  BY <1>1, <1>2, Completed
<1>4. Planned = Registered(scopes)
  BY <1>3 DEF Planned
<1>5. PICK m \in 1 .. (Len(scopes) - 1) :
         m = Innermost("loop", scopes) - 1 /\ Registered(SubSeq(scopes, 1, m)) \subseteq early
  BY <1>3 DEF Leading
<1>6. m \in 1 .. Len(scopes)
  <2>1. Len(scopes) \in Nat
    BY <1>3 DEF Stack
  <2>. QED
    BY <2>1
<1>7. PICK p : p = SubSeq(scopes, 1, m)
  OBVIOUS
<1>8. Stack(p, n)
  <2>1. LowerPart(p, scopes, n, m)
    BY <1>3, <1>6, <1>7, Below
  <2>. QED
    BY <2>1 DEF LowerPart
<1>9. scopes' = p /\ Registered(p) \subseteq early
  BY <1>2, <1>5, <1>7
<1>10. ASSUME NEW i \in 1 .. n, Regular(i)' PROVE Exact(i)'
  <2>1. Regular(i)
    BY <1>2, <1>10 DEF Regular
  <2>2. items'[i].ran = 1
    BY <1>2, <1>3, <1>4, <2>1
  <2>3. i \notin Registered(scopes)'
    BY <1>9, <2>1 DEF Regular
  <2>. QED
    BY <2>2, <2>3 DEF Exact
<1>. QED
  BY <1>1, <1>2, <1>8, <1>9, <1>10 DEF ExactInv

\* A handler begins: what stays registered was cleaned ahead of time, and
\* __cxa_end_catch is to be run.
LEMMA CaughtExact ==
    ASSUME ExactInv, SlotsInv', Caught
    PROVE  ExactInv'
<1>1. PICK n : n = Len(items)
  OBVIOUS
<1>2. PICK new : new = Item("end_catch", "live")
  OBVIOUS
<1>3. PICK top : top = n + 1
  OBVIOUS
<1>4. PICK sc : sc = [kind |-> "catch", regs |-> <<top>>]
  OBVIOUS
<1>5. /\ Cleaning("catch") /\ control' = "running" /\ scopes' = Append(Front(scopes), sc)
      /\ items' = Append(items, new) /\ early' = early /\ lost' = lost
  BY <1>1, <1>2, <1>3, <1>4 DEF Caught, Resume
<1>6. /\ Stack(scopes, n) /\ n \in Nat /\ next = "catch" /\ Leading
      /\ \A i \in 1 .. n : Regular(i) /\ i \in Planned => items[i].ran = 1
      /\ \A i \in 1 .. n : Regular(i) /\ i \notin Registered(scopes) => items[i].ran = 1
  BY <1>1, <1>5, Completed
<1>7. Planned = Registered(scopes)
  BY <1>6 DEF Planned
<1>8. PICK len : len \in Nat /\ len = Len(scopes) /\ len > 1
  BY <1>6 DEF Leading, Stack
<1>9. PICK m : m \in 1 .. Len(scopes) /\ m = len - 1
  BY <1>8
<1>10. PICK p : p = SubSeq(scopes, 1, m)
  OBVIOUS
<1>11. Stack(p, n)
  <2>1. LowerPart(p, scopes, n, m)
    BY <1>6, <1>9, <1>10, Below
  <2>. QED
    BY <2>1 DEF LowerPart
<1>12. Registered(p) \subseteq early /\ Front(scopes) = p
  BY <1>6, <1>8, <1>9, <1>10 DEF Leading, Front
<1>13. sc \in ScopeRecords /\ ToSet(sc.regs) = {top} /\ top \in Nat
  BY <1>3, <1>4, <1>6 DEF ScopeRecords, ToSet
<1>14. PICK ids : ids = ToSet(sc.regs)
  OBVIOUS
<1>15. ids = {top} /\ Newer(ids, n, top)
  <2>1. ids = {top}
    BY <1>13, <1>14
  <2>. QED
    BY <1>3, <1>6, <1>13, <2>1 DEF Newer
<1>16. PICK stack : stack = Append(p, sc) /\ Pushed(stack, p, sc)
  BY <1>13 DEF Pushed
<1>17. Stack(scopes', top) /\ Registered(scopes') = Registered(p) \cup {top}
  <2>1. Stack(stack, top) /\ Registered(stack) = Registered(p) \cup ids
    <3>1. Pushed(stack, p, sc)
      BY <1>16
    <3>2. Newer(ids, n, top)
      BY <1>15
    <3>. QED
      BY <1>11, <1>14, <3>1, <3>2, Opened
  <2>2. scopes' = stack
    BY <1>5, <1>12, <1>16
  <2>. QED
    BY <1>15, <2>1, <2>2
<1>18. Len(items') = top /\ items'[top] = new /\ \A i \in 1 .. n : items'[i] = items[i]
  <2>. DEFINE Sounds == Sound
  <2>1. items \in Seq(Sounds)
    BY DEF ExactInv, SlotsInv
  <2>. HIDE DEF Sounds
  <2>. QED
    BY <1>1, <1>3, <1>5, <2>1
<1>19. Executed' = {}
  BY <1>5 DEF Executed
<1>20. ASSUME NEW i \in 1 .. top, Regular(i)' PROVE Exact(i)'
  <2>1. CASE i = top
    <3>1. new.slot = "live" /\ new.ran = 0
      BY <1>2 DEF Item
    <3>. QED
      BY <1>17, <1>18, <1>19, <2>1, <3>1 DEF Exact, Fresh
  <2>2. CASE i # top
    <3>1. i \in 1 .. n
      BY <1>3, <1>6, <2>2
    <3>2. items'[i] = items[i]
      BY <1>18, <3>1
    <3>3. Regular(i)
      BY <1>5, <1>20, <3>2 DEF Regular
    <3>4. items'[i].ran = 1
      BY <1>6, <1>7, <3>1, <3>2, <3>3
    <3>5. i \notin Registered(scopes)'
      BY <1>12, <1>17, <2>2, <3>3 DEF Regular
    <3>. QED
      BY <3>4, <3>5 DEF Exact
  <2>. QED
    BY <2>1, <2>2
<1>. QED
  BY <1>5, <1>17, <1>18, <1>20 DEF ExactInv

\* Two sequences end to end.
LEMMA Concatenation ==
    ASSUME NEW S, NEW s, s \in Seq(S), NEW t, t \in Seq(S), NEW u, u = s \o t
    PROVE  /\ Len(u) = Len(s) + Len(t) /\ DOMAIN u = 1 .. Len(u)
           /\ \A i \in 1 .. Len(s) : u[i] = s[i]
           /\ \A j \in 1 .. Len(t) : u[Len(s) + j] = t[j]
OBVIOUS

\* The unreached cleanups that a landing pad also runs.
AllUnset(more, ids, n) ==
    \E d \in Nat :
       /\ more \in Seq(Sound) /\ Len(more) = d
       /\ \A j \in 1 .. d : more[j].slot = "unset"
       /\ ids \in Seq(Nat) /\ ToSet(ids) \subseteq (n + 1) .. (n + d)

\* The cleanups of the later statements of a try body are unset, and their ids are new.
LEMMA Unreached ==
    ASSUME NEW later, later \in LaterRegs, NEW n, n \in Nat,
           NEW more, more = [j \in 1 .. Len(later) |-> Item(later[j], "unset")],
           NEW ids, ids = [j \in 1 .. Len(later) |-> n + j]
    PROVE  AllUnset(more, ids, n)
<1>1. later \in Seq(Kinds)
  <2>1. <<>> \in Seq(Kinds) /\ \A k \in Kinds : <<k>> \in Seq(Kinds)
    OBVIOUS
  <2>. QED
    BY <2>1 DEF LaterRegs
<1>2. PICK d \in Nat : d = Len(later)
  BY <1>1
<1>4. more = [j \in 1 .. d |-> Item(later[j], "unset")]
  BY <1>2
<1>5. /\ more \in Seq(Sound) /\ Len(more) = d /\ \A j \in 1 .. d : more[j].slot = "unset"
  <2>1. \A j \in 1 .. d : later[j] \in Kinds
    BY <1>1, <1>2
  <2>2. \A j \in 1 .. d : Item(later[j], "unset") \in Sound
    BY <2>1, NewSound
  <2>3. \A j \in 1 .. d : more[j] = Item(later[j], "unset")
    BY <1>4
  <2>4. \A k : Item(k, "unset").slot = "unset"
    BY DEF Item
  <2>. DEFINE Sounds == Sound
  <2>5. \A j \in 1 .. d : Item(later[j], "unset") \in Sounds
    BY <2>2
  <2>. HIDE DEF Sounds
  <2>6. more \in Seq(Sounds) /\ Len(more) = d
    BY <1>4, <2>5
  <2>. QED
    BY <2>3, <2>4, <2>6 DEF Sounds
<1>6. /\ ids \in Seq(Nat) /\ DOMAIN ids = 1 .. d /\ \A j \in 1 .. d : ids[j] = n + j
  BY <1>2
<1>7. ToSet(ids) \subseteq (n + 1) .. (n + d)
  BY <1>6 DEF ToSet
<1>. QED
  BY <1>5, <1>6, <1>7 DEF AllUnset

\* The stack of scopes in a landing pad: that of the try body, with what its later
\* statements would register.
LEMMA PadStack ==
    ASSUME NEW n, Stack(scopes, n), NEW pad \in 1 .. Len(scopes), NEW ids \in Seq(Nat),
           NEW new, new = [SubSeq(scopes, 1, pad) EXCEPT ![pad].regs = @ \o ids],
           NEW p, p = SubSeq(scopes, 1, pad)
    PROVE  Extends(p, new, ToSet(ids))
<1>1. p = SubSeq(scopes, 1, pad)
  OBVIOUS
<1>2. pad \in 1 .. Len(scopes) /\ pad \in Nat /\ pad >= 1
  BY DEF Stack
<1>3. Stack(p, n) /\ Len(p) = pad /\ \A k \in 1 .. pad : p[k] = scopes[k]
  <2>1. LowerPart(p, scopes, n, pad)
    BY <1>1, <1>2, Below
  <2>. QED
    BY <2>1 DEF LowerPart
<1>4. p[pad] \in ScopeRecords
  <2>. DEFINE Records == ScopeRecords
  <2>1. p \in Seq(Records)
    BY <1>3 DEF Stack
  <2>. HIDE DEF Records
  <2>2. p[pad] \in Records
    BY <1>2, <1>3, <2>1
  <2>. QED
    BY <2>2 DEF Records
<1>5. PICK old \in Seq(Nat) : old = p[pad].regs
  BY <1>4 DEF ScopeRecords
<1>6. PICK regs : regs = old \o ids
  OBVIOUS
<1>7. regs \in Seq(Nat) /\ ToSet(regs) = ToSet(old) \cup ToSet(ids)
  BY <1>6, Joining
<1>8. ToSet(regs) = Regs(p, pad) \cup ToSet(ids)
  BY <1>5, <1>7 DEF Regs
<1>9. new = [p EXCEPT ![pad].regs = regs]
  BY <1>1, <1>5, <1>6
<1>10. PICK more : more = ToSet(ids)
  OBVIOUS
<1>11. Extends(p, new, more)
  <2>1. Stack(p, n) /\ pad = Len(p) /\ regs \in Seq(Nat) /\ ToSet(regs) = Regs(p, pad) \cup more
    BY <1>3, <1>7, <1>8, <1>10
  <2>. QED
    BY <1>9, <2>1, Extended
<1>. QED
  BY <1>10, <1>11

\* The landing pad is that of a try, which is not the outermost scope.
LEMMA LandingIs ==
    ASSUME NEW n, Stack(scopes, n)
    PROVE  LandingPad = 0 \/ LandingPad \in 2 .. Len(scopes)
<1>1. PICK len \in Nat : len = Len(scopes) /\ DOMAIN scopes = 1 .. len /\ scopes[1].kind = "fn" /\ len >= 1
  BY DEF Stack
<1>2. CASE next = "leave" /\ Last(scopes).kind = "try"
  <2>1. PICK m \in Nat : m = len - 1
    BY <1>1
  <2>2. PICK p : p = Front(scopes)
    OBVIOUS
  <2>3. DOMAIN p = 1 .. m /\ \A k \in 1 .. m : p[k] = scopes[k]
    <3>. DEFINE Records == ScopeRecords
    <3>1. scopes \in Seq(Records)
      BY DEF Stack
    <3>. HIDE DEF Records
    <3>. QED
      BY <1>1, <2>1, <2>2, <3>1 DEF Front
  <2>4. PICK top : top = Innermost("try", p)
    OBVIOUS
  <2>5. top = 0 \/ (top \in 1 .. m /\ p[top].kind = "try")
    BY <2>3, <2>4, InnermostIs
  <2>6. top # 1
    BY <1>1, <2>3, <2>5
  <2>7. LandingPad = top
    BY <1>2, <2>2, <2>4 DEF LandingPad
  <2>. QED
    BY <1>1, <2>1, <2>5, <2>6, <2>7
<1>3. CASE ~ (next = "leave" /\ Last(scopes).kind = "try")
  <2>1. PICK top : top = Innermost("try", scopes)
    OBVIOUS
  <2>2. top = 0 \/ (top \in 1 .. len /\ scopes[top].kind = "try")
    BY <1>1, <2>1, InnermostIs
  <2>3. top # 1
    BY <1>1, <2>2
  <2>4. LandingPad = top
    BY <1>3, <2>1 DEF LandingPad
  <2>. QED
    BY <1>1, <2>2, <2>3, <2>4
<1>. QED
  BY <1>2, <1>3

\* An exception that finds a landing pad cleans what the try body has registered;
\* what the blocks inside it have registered is lost, what the scopes outside it
\* have registered is cleaned ahead of time.
LEMMA RaiseExact ==
    \A its, later :
       (/\ ExactInv /\ SlotsInv' /\ its \in Seq(Sound) /\ Len(its) = Len(items)
        /\ later \in LaterRegs /\ Raise(its, later)
        /\ control \in {"running", "cleaning"} /\ (control = "running" => its = items))
       => ExactInv'
<1>0. SUFFICES ASSUME NEW its, NEW later,
                      ExactInv, SlotsInv', its \in Seq(Sound), Len(its) = Len(items),
                      later \in LaterRegs, Raise(its, later),
                      control \in {"running", "cleaning"}, control = "running" => its = items
               PROVE  ExactInv'
  OBVIOUS
<1>1. PICK n : n \in Nat /\ n = Len(items) /\ n = Len(its)
  BY <1>0, ItemsAre DEF ExactInv
<1>2. Stack(scopes, n) /\ \A i \in 1 .. n : Regular(i) => Exact(i)
  BY <1>0, <1>1 DEF ExactInv
<1>3. PICK pad : pad = LandingPad
  OBVIOUS
<1>4. CASE pad = 0
  <2>1. control' = "unwound"
    BY <1>0, <1>3, <1>4 DEF Raise
  <2>. QED
    BY <1>0, <2>1 DEF ExactInv
<1>5. CASE pad # 0
  <2>1. PICK len : len \in Nat /\ len = Len(scopes)
    BY <1>2 DEF Stack
  <2>2. pad \in 2 .. len /\ pad \in 1 .. Len(scopes) /\ pad \in 0 .. Len(scopes)
    BY <1>2, <1>3, <1>5, <2>1, LandingIs
  <2>3. PICK more : more = [j \in 1 .. Len(later) |-> Item(later[j], "unset")]
    OBVIOUS
  <2>4. PICK ids : ids = [j \in 1 .. Len(later) |-> n + j]
    OBVIOUS
  <2>5. PICK d \in Nat :
           /\ more \in Seq(Sound) /\ Len(more) = d
           /\ \A j \in 1 .. d : more[j].slot = "unset"
           /\ ids \in Seq(Nat) /\ ToSet(ids) \subseteq (n + 1) .. (n + d)
    <3>1. later \in LaterRegs /\ n \in Nat
      BY <1>0, <1>1
    <3>. QED
      <4>1. AllUnset(more, ids, n)
        BY <2>3, <2>4, <3>1, Unreached
      <4>. QED
        BY <4>1 DEF AllUnset
  <2>6. PICK m : m \in Nat /\ m = n + d
    BY <1>1, <2>5
  <2>7. PICK all : all = its \o more
    OBVIOUS
  <2>8. /\ Len(all) = Len(its) + Len(more) /\ DOMAIN all = 1 .. Len(all)
        /\ \A i \in 1 .. Len(its) : all[i] = its[i]
        /\ \A j \in 1 .. Len(more) : all[Len(its) + j] = more[j]
    <3>1. its \in Seq(Sound) /\ more \in Seq(Sound)
      BY <1>0, <2>5
    <3>. QED
      BY <2>7, <3>1, Concatenation
  <2>9. /\ DOMAIN all = 1 .. m /\ Len(all) = m /\ \A i \in 1 .. n : all[i] = its[i]
        /\ \A j \in 1 .. d : all[n + j] = more[j]
    BY <1>1, <2>5, <2>6, <2>8
  <2>10. PICK p : p = SubSeq(scopes, 1, pad)
    OBVIOUS
  <2>11. /\ Stack(p, n) /\ Len(p) = pad /\ Registered(p) \subseteq Registered(scopes)
         /\ \A k \in 1 .. pad : p[k] = scopes[k]
    <3>1. Stack(scopes, n) /\ pad \in 1 .. Len(scopes)
      BY <1>2, <2>2
    <3>. QED
      <4>1. LowerPart(p, scopes, n, pad)
        BY <2>10, <3>1, Below
      <4>. QED
        BY <4>1 DEF LowerPart
  <2>12. PICK stack : stack = [SubSeq(scopes, 1, pad) EXCEPT ![pad].regs = @ \o ids]
    OBVIOUS
  <2>13. Extends(p, stack, ToSet(ids))
    <3>1. Stack(scopes, n) /\ pad \in 1 .. Len(scopes) /\ ids \in Seq(Nat)
      BY <1>2, <2>2, <2>5
    <3>. QED
      BY <2>10, <2>12, <3>1, PadStack
  <2>14. PICK new : new = ToSet(ids)
    OBVIOUS
  <2>15. Newer(new, n, m)
    BY <1>1, <2>5, <2>6, <2>14 DEF Newer
  <2>16. Stack(stack, m) /\ Registered(stack) = Registered(p) \cup new
    <3>1. Extends(p, stack, new)
      BY <2>13, <2>14
    <3>. QED
      BY <2>11, <2>15, <3>1, More
  <2>17. /\ items' = all /\ scopes' = stack /\ control' = "cleaning" /\ next' = "catch"
         /\ todo' = Registered(stack)
         /\ early' = early \cup IF control = "cleaning" THEN DOMAIN all
                                ELSE Registered(SubSeq(scopes, 1, pad - 1))
         /\ lost' = lost \cup Registered(SubSeq(scopes, pad + 1, len))
    BY <1>0, <1>1, <1>3, <1>5, <2>1, <2>3, <2>4, <2>7, <2>12 DEF Raise, Plan, AllPlan
  <2>18. Executed' = {} /\ Planned' = Registered(stack)
    BY <2>17 DEF Executed, Planned
  <2>19. ASSUME NEW i \in 1 .. m, Regular(i)' PROVE Exact(i)'
    <3>1. control = "running"
      BY <1>0, <2>9, <2>17, <2>19 DEF Regular
    <3>2. i \in 1 .. n
      <4>1. CASE i \notin 1 .. n
        <5>1. PICK j \in 1 .. d : i = n + j
          <6>1. i - n \in 1 .. d /\ i = n + (i - n)
            BY <1>1, <2>5, <2>6, <2>19, <4>1
          <6>. QED
            BY <6>1
        <5>2. items'[i].slot = "unset"
          BY <2>5, <2>9, <2>17, <5>1
        <5>. QED
          BY <2>19, <5>2 DEF Regular
      <4>. QED
        BY <4>1
    <3>3. items'[i] = items[i] /\ Regular(i)
      <4>1. items'[i] = items[i]
        BY <1>0, <2>9, <2>17, <3>1, <3>2
      <4>. QED
        BY <2>17, <2>19, <4>1 DEF Regular
    <3>4. Exact(i) /\ Executed = {}
      BY <1>2, <3>1, <3>2, <3>3 DEF Executed
    <3>5. i \notin new
      BY <1>1, <3>2, <2>15 DEF Newer
    <3>6. CASE i \in Registered(p)
      <4>1. i \in Registered(scopes)
        BY <2>11, <3>6
      <4>2. Fresh(items[i])
        BY <3>4, <4>1 DEF Exact
      <4>3. i \in Registered(scopes)' \ Executed'
        BY <2>16, <2>17, <2>18, <3>6
      <4>. QED
        BY <3>3, <4>2, <4>3 DEF Exact, Fresh
    <3>7. CASE i \notin Registered(p)
      <4>1. i \notin Registered(scopes)
        <5>1. CASE i \in Registered(scopes)
          <6>1. PICK k \in (pad + 1) .. Len(scopes) : i \in Regs(scopes, k)
            BY <1>2, <2>2, <2>10, <3>7, <5>1, BelowOr
          <6>2. i \in Registered(SubSeq(scopes, pad + 1, Len(scopes)))
            <7>1. scopes \in Seq(ScopeRecords)
              BY <1>2 DEF Stack
            <7>. QED
              BY <2>2, <6>1, <7>1, Above
          <6>3. i \in lost'
            BY <2>1, <2>17, <6>2
          <6>. QED
            BY <2>19, <6>3 DEF Regular
        <5>. QED
          BY <5>1
      <4>2. items[i].ran = 1
        BY <3>4, <4>1 DEF Exact
      <4>3. i \notin Registered(scopes)'
        BY <2>16, <2>17, <3>5, <3>7
      <4>. QED
        BY <3>3, <4>2, <4>3 DEF Exact
    <3>. QED
      BY <3>6, <3>7
  <2>20. PICK low : low \in 1 .. Len(scopes) /\ low = pad - 1 /\ low \in 1 .. Len(stack) /\ low \in 1 .. pad
    <3>1. Len(stack) = pad
      BY <2>11, <2>13 DEF Extends
    <3>. QED
      BY <2>1, <2>2, <3>1
  <2>21. Registered(SubSeq(stack, 1, low)) \subseteq early'
    <3>1. CASE control = "running"
      <4>1. \A k \in 1 .. low : Regs(stack, k) = Regs(scopes, k)
        <5>1. \A k \in 1 .. (Len(p) - 1) : Regs(stack, k) = Regs(p, k)
          BY <2>13 DEF Extends
        <5>2. \A k \in 1 .. low : k \in 1 .. pad /\ k \in 1 .. (Len(p) - 1)
          BY <2>2, <2>11, <2>20
        <5>. QED
          BY <2>11, <5>1, <5>2 DEF Regs
      <4>2. Registered(SubSeq(stack, 1, low)) = Registered(SubSeq(scopes, 1, low))
        BY <1>2, <2>16, <2>20, <4>1, SameBelow
      <4>. QED
        BY <2>17, <2>20, <3>1, <4>2
    <3>2. CASE control = "cleaning"
      <4>1. PICK q : q = SubSeq(stack, 1, low)
        OBVIOUS
      <4>2. Registered(q) \subseteq Registered(stack)
        <5>1. LowerPart(q, stack, m, low)
          BY <2>16, <2>20, <4>1, Below
        <5>. QED
          BY <5>1 DEF LowerPart
      <4>3. Registered(q) \subseteq 1 .. m
        BY <2>16, <4>2 DEF Stack
      <4>. QED
        BY <2>9, <2>17, <3>2, <4>1, <4>3
    <3>. QED
      BY <1>0, <3>1, <3>2
  <2>22. Leading'
    <3>1. Len(stack) = pad /\ pad > 1
      BY <2>2, <2>11, <2>13 DEF Extends
    <3>2. low = Len(stack) - 1
      BY <2>20, <3>1
    <3>. QED
      BY <2>17, <2>18, <2>21, <3>1, <3>2 DEF Leading
  <2>23. Stack(scopes', m) /\ m = Len(items')
    BY <2>9, <2>16, <2>17
  <2>. QED
    BY <1>0, <2>17, <2>19, <2>22, <2>23 DEF ExactInv
<1>. QED
  BY <1>4, <1>5

\* An exception raised by a statement.
LEMMA ThrowExact ==
    ASSUME ExactInv, SlotsInv', NEW later \in LaterRegs, Throw(later)
    PROVE  ExactInv'
<1>1. Raise(items, later) /\ control = "running" /\ items \in Seq(Sound)
  BY DEF Throw, ExactInv, SlotsInv
<1>. QED
  BY <1>1, RaiseExact

\* A cleanup that throws has its turn; at most its own count has changed.
LEMMA Thrown ==
    ASSUME ExactInv, NEW later \in LaterRegs, CleanupThrows(later)
    PROVE  \E c, its : /\ IsNext(c) /\ its \in Seq(Sound) /\ Len(its) = Len(items)
                       /\ \A i \in 1 .. Len(items) : i # c => its[i] = items[i]
                       /\ Raise(its, later) /\ control = "cleaning"
<1>1. PICK c \in todo :
           /\ IsNext(c)
           /\ \/ Raise(items, later)
              \/ items[c].kind = "defer" /\ Raise([items EXCEPT ![c] = Counted(items[c])], later)
  BY DEF CleanupThrows
<1>2. control = "cleaning" /\ items \in Seq(Sound)
  BY DEF CleanupThrows, ExactInv, SlotsInv
<1>3. CASE Raise(items, later)
  BY <1>1, <1>2, <1>3
<1>4. CASE items[c].kind = "defer" /\ Raise([items EXCEPT ![c] = Counted(items[c])], later)
  <2>1. PICK it : it = Counted(items[c])
    OBVIOUS
  <2>2. PICK its : its = [items EXCEPT ![c] = it]
    OBVIOUS
  <2>3. c \in DOMAIN items => it \in Sound
    BY <1>2, <1>4, <2>1, CleanedSound
  <2>4. [items EXCEPT ![c] = it] \in Seq(Sound)
    BY <1>2, <2>3, ReplaceType
  <2>5. Len(its) = Len(items) /\ \A i \in 1 .. Len(items) : i # c => its[i] = items[i]
    <3>. DEFINE Sounds == Sound
    <3>1. items \in Seq(Sounds)
      BY <1>2
    <3>. HIDE DEF Sounds
    <3>. QED
      BY <2>2, <3>1
  <2>6. Raise(its, later) /\ its \in Seq(Sound)
    BY <1>4, <2>1, <2>2, <2>4
  <2>. QED
    BY <1>1, <1>2, <2>5, <2>6
<1>. QED
  BY <1>1, <1>3, <1>4

\* An exception raised by a destructor or a defer that runs.
LEMMA CleanupThrowsExact ==
    ASSUME ExactInv, SlotsInv', NEW later \in LaterRegs, CleanupThrows(later)
    PROVE  ExactInv'
<1>1. PICK c, its : /\ IsNext(c) /\ its \in Seq(Sound) /\ Len(its) = Len(items)
                    /\ \A i \in 1 .. Len(items) : i # c => its[i] = items[i]
                    /\ Raise(its, later) /\ control = "cleaning"
  BY Thrown
<1>. QED
  BY <1>1, RaiseExact

\* Every step of the emitted code keeps the invariant.
LEMMA ExactStep == ExactInv /\ [Next]_vars => ExactInv'
<1>. SUFFICES ASSUME ExactInv, [Next]_vars PROVE ExactInv'
  OBVIOUS
<1>1. SlotsInv'
  BY SlotsStep DEF ExactInv
<1>2. ASSUME NEW kind \in Kinds, Register(kind) PROVE ExactInv'
  BY <1>1, <1>2, RegisterExact
<1>3. ASSUME NEW kind \in {"block", "loop", "try"}, Enter(kind) PROVE ExactInv'
  BY <1>1, <1>3, EnterExact
<1>4. ASSUME Leave \/ Return \/ Break PROVE ExactInv'
  BY <1>1, <1>4, LeaveExactly, ReturnExactly, BreakExactly
<1>5. ASSUME NEW i \in DOMAIN items, Delete(i) PROVE ExactInv'
  BY <1>1, <1>5, DeleteExact
<1>6. ASSUME NEW later \in LaterRegs, Throw(later) \/ CleanupThrows(later) PROVE ExactInv'
  BY <1>1, <1>6, ThrowExact, CleanupThrowsExact
<1>7. ASSUME CleanupStep PROVE ExactInv'
  BY <1>1, <1>7, CleanupExact
<1>8. ASSUME Left \/ Returned \/ Broken \/ Caught PROVE ExactInv'
  BY <1>1, <1>8, LeftExact, ReturnedExact, BrokenExact, CaughtExact
<1>9. ASSUME Mismatch PROVE ExactInv'
  BY <1>1, <1>9 DEF Mismatch, ExactInv
<1>10. ASSUME UNCHANGED vars PROVE ExactInv'
  <2>1. /\ items' = items /\ scopes' = scopes /\ control' = control /\ todo' = todo
        /\ next' = next /\ early' = early /\ lost' = lost
    BY <1>10 DEF vars
  <2>2. /\ Registered(scopes)' = Registered(scopes) /\ Planned' = Planned /\ Executed' = Executed
        /\ \A m : Registered(SubSeq(scopes, 1, m))' = Registered(SubSeq(scopes, 1, m))
        /\ Innermost("loop", scopes)' = Innermost("loop", scopes)
    BY <2>1 DEF Registered, Regs, Planned, Executed, Innermost
  <2>3. \A i : (Exact(i)' <=> Exact(i)) /\ (Regular(i)' <=> Regular(i))
    BY <2>1, <2>2 DEF Exact, Fresh, Regular
  <2>4. Leading' <=> Leading
    BY <2>1, <2>2 DEF Leading
  <2>5. Stack(scopes, Len(items))' <=> Stack(scopes, Len(items))
    BY <2>1, <2>2 DEF Stack, Regs
  <2>. QED
    BY <1>1, <2>1, <2>3, <2>4, <2>5 DEF ExactInv
<1>. QED
  BY <1>2, <1>3, <1>4, <1>5, <1>6, <1>7, <1>8, <1>9, <1>10 DEF Next

\* A function begins with nothing registered.
LEMMA ExactInit == Init => ExactInv
<1>. SUFFICES ASSUME Init PROVE ExactInv
  OBVIOUS
<1>1. items = <<>> /\ scopes = <<Scope("fn")>> /\ control = "running"
  BY DEF Init
<1>2. Len(items) = 0 /\ SlotsInv
  BY <1>1 DEF SlotsInv
<1>3. PICK sc : sc = Scope("fn")
  OBVIOUS
<1>4. sc \in ScopeRecords /\ sc.kind = "fn" /\ ToSet(sc.regs) = {}
  BY <1>3 DEF Scope, ScopeRecords, ToSet
<1>5. scopes \in Seq(ScopeRecords) /\ Len(scopes) = 1 /\ scopes[1] = sc
  BY <1>1, <1>3, <1>4
<1>6. Registered(scopes) = {}
  BY <1>4, <1>5, RegisteredIs DEF Regs
<1>7. Stack(scopes, 0)
  BY <1>4, <1>5, <1>6 DEF Stack
<1>. QED
  BY <1>1, <1>2, <1>7 DEF ExactInv

\* Whatever blocks, loops and try bodies a function has gone through, when it has
\* returned every regular cleanup has run exactly once (gen_return, env_pop, the
\* landing pads).
THEOREM CleanupsExact == Spec => []LeaveExact
<1>1. ExactInv => LeaveExact
  <2>. SUFFICES ASSUME ExactInv, control = "returned", NEW i \in DOMAIN items, Regular(i)
                PROVE  items[i].ran = 1
    BY DEF LeaveExact
  <2>1. i \in 1 .. Len(items) /\ Executed = Registered(scopes)
    BY ItemsAre DEF ExactInv, Executed
  <2>2. Exact(i)
    BY <2>1 DEF ExactInv
  <2>. QED
    BY <2>1, <2>2 DEF Exact
<1>. QED
  BY <1>1, ExactInit, ExactStep, PTL DEF Spec

\* The cleanup whose turn it is was registered after every other that is still to
\* be run, strings aside.
LEMMA LastRegistered ==
    ASSUME ExactInv, control = "cleaning", NEW i \in 1 .. Len(items), NEW j \in 1 .. Len(items),
           IsNext(i), i < j, ~ IsStr(i), ~ IsStr(j), Regular(j)
    PROVE  items[j].ran > 0
<1>1. PICK n \in Nat : n = Len(items)
  BY ItemsAre DEF ExactInv
<1>2. Stack(scopes, n) /\ Leading /\ Exact(j)
  BY <1>1 DEF ExactInv
<1>3. PICK len \in Nat : len = Len(scopes) /\ DOMAIN scopes = 1 .. len
  BY <1>2 DEF Stack
<1>4. i \in todo /\ todo \subseteq Planned /\ Executed = Planned \ todo
  BY <1>2 DEF IsNext, Leading, Executed
<1>5. \A k, l \in 1 .. len : k < l /\ i \in Regs(scopes, l) => j \notin Regs(scopes, k)
  <2>1. ASSUME NEW k \in 1 .. len, NEW l \in 1 .. len, k < l, i \in Regs(scopes, l), j \in Regs(scopes, k)
        PROVE  FALSE
    <3>1. j < i
      BY <1>2, <1>3, <2>1 DEF Stack
    <3>. QED
      BY <1>1, <3>1
  <2>. QED
    BY <2>1
<1>6. j \notin todo
  <2>. SUFFICES ASSUME j \in todo PROVE FALSE
    OBVIOUS
  <2>1. Precedes(i, j)
    BY DEF IsNext
  <2>2. ~ (j < i)
    BY <1>1
  <2>3. Deeper(i, j)
    BY <2>1, <2>2 DEF Precedes
  <2>. QED
    BY <1>3, <1>5, <2>3 DEF Deeper, Regs
<1>7. j \in Registered(scopes) => j \in Planned
  <2>. SUFFICES ASSUME j \in Registered(scopes), j \notin Planned PROVE FALSE
    OBVIOUS
  <2>1. Planned = Regs(scopes, len)
    BY <1>3 DEF Planned
  <2>2. PICK k \in 1 .. len : j \in Regs(scopes, k)
    BY <1>2, <1>3, RegisteredIs DEF Stack
  <2>3. k < len /\ len \in 1 .. len
    BY <2>1, <2>2
  <2>. QED
    BY <1>4, <1>5, <2>1, <2>2, <2>3
<1>8. items[j].ran = 1
  BY <1>2, <1>4, <1>6, <1>7 DEF Exact
<1>. QED
  BY <1>8

\* Only the cleanup whose turn it is runs.
LEMMA OneRuns ==
    ASSUME ExactInv, Next, control = "cleaning", NEW i \in 1 .. Len(items),
           items'[i].ran > items[i].ran
    PROVE  IsNext(i)
<1>0. items[i].ran \in Int /\ ~ (items[i].ran > items[i].ran)
  <2>1. items[i] \in Sound
    BY ItemsAre DEF ExactInv
  <2>2. items[i].ran \in 0 .. 2
    BY <2>1 DEF Sound, Cleanups
  <2>. QED
    BY <2>2
<1>1. items'[i] # items[i]
  BY <1>0
<1>2. CASE CleanupStep
  <2>1. PICK c \in todo : IsNext(c) /\ \E it \in Cleaned(items[c]) : items' = [items EXCEPT ![c] = it]
    BY <1>2 DEF CleanupStep
  <2>2. PICK it : items' = [items EXCEPT ![c] = it]
    BY <2>1
  <2>3. i # c => items'[i] = items[i]
    BY <2>2, ItemsAre DEF ExactInv
  <2>. QED
    BY <1>1, <2>1, <2>3
<1>3. ASSUME NEW later \in LaterRegs, CleanupThrows(later) PROVE IsNext(i)
  <2>1. PICK c, its : /\ IsNext(c) /\ its \in Seq(Sound) /\ Len(its) = Len(items)
                      /\ \A k \in 1 .. Len(items) : k # c => its[k] = items[k]
                      /\ Raise(its, later)
    BY <1>3, Thrown
  <2>2. PICK more : more = [k \in 1 .. Len(later) |-> Item(later[k], "unset")]
    OBVIOUS
  <2>3. more \in Seq(Sound)
    <3>1. PICK ids : ids = [k \in 1 .. Len(later) |-> 0 + k]
      OBVIOUS
    <3>2. AllUnset(more, ids, 0)
      BY <2>2, <3>1, Unreached
    <3>. QED
      BY <3>2 DEF AllUnset
  <2>4. items' = its \/ items' = its \o more
    BY <2>1, <2>2 DEF Raise
  <2>5. items'[i] = its[i]
    <3>1. \A k \in 1 .. Len(its) : (its \o more)[k] = its[k]
      BY <2>1, <2>3, Concatenation
    <3>. QED
      BY <2>1, <2>4, <3>1
  <2>. QED
    BY <1>1, <2>1, <2>5
<1>4. CASE Left \/ Returned \/ Broken \/ Mismatch
  BY <1>1, <1>4 DEF Left, Returned, Broken, Mismatch
<1>5. CASE Caught
  <2>1. PICK new : items' = Append(items, new)
    BY <1>5 DEF Caught
  <2>2. items'[i] = items[i]
    BY <2>1, ItemsAre DEF ExactInv, SlotsInv
  <2>. QED
    BY <1>1, <2>2
<1>. QED
  BY <1>2, <1>3, <1>4, <1>5 DEF Next, Register, Enter, Leave, Return, Break, Delete, Throw

\* The emitted code never runs a destructor, list release or defer before the regular
\* ones that were registered after it (env_pop, emit_all_scope_cleanups).
THEOREM CleanupsInReverse == Spec => Lifo
<1>1. ExactInv /\ [Next]_vars =>
        [control = "cleaning" =>
           \A i, j \in DOMAIN items :
              /\ i < j
              /\ items'[i].ran > items[i].ran
              /\ items[i].kind # "str" /\ items[j].kind # "str"
              /\ Regular(j)
              => items[j].ran > 0]_vars
  <2>. SUFFICES ASSUME ExactInv, Next, control = "cleaning",
                       NEW i \in DOMAIN items, NEW j \in DOMAIN items, i < j,
                       items'[i].ran > items[i].ran,
                       items[i].kind # "str", items[j].kind # "str", Regular(j)
                PROVE  items[j].ran > 0
    OBVIOUS
  <2>1. i \in 1 .. Len(items) /\ j \in 1 .. Len(items)
    BY ItemsAre DEF ExactInv
  <2>2. IsNext(i)
    BY <2>1, OneRuns
  <2>. QED
    BY <2>1, <2>2, LastRegistered DEF IsStr
<1>. QED
  BY <1>1, ExactInit, ExactStep, PTL DEF Spec, Lifo

=============================================================================

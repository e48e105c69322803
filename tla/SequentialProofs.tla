-------------------------- MODULE SequentialProofs --------------------------
(***************************************************************************)
(* What runs alone, for any values of the constants: the reference counts  *)
(* of a function are exact for any locals and any number of objects, the   *)
(* verdicts of semantic analysis are those of the text at any depth, a     *)
(* list gives back what was stored in it, and, with DictProofs, a dict is  *)
(* a map.                                                                  *)
(***************************************************************************)
EXTENDS MCSequential, DictProofs, FiniteSetTheorems, TLAPS

-----------------------------------------------------------------------------
(* Retain and release                                                      *)

\* duxrt_*_retain adds one to the object's count and touches no other.
LEMMA RetainedIs ==
    ASSUME NEW c \in Seq(Nat), NEW o \in 0 .. Len(c)
    PROVE  /\ O!Retained(c, o) \in Seq(Nat)
           /\ Len(O!Retained(c, o)) = Len(c)
           /\ \A q \in 1 .. Len(c) : q # o => O!Retained(c, o)[q] = c[q]
           /\ o # O!Null => O!Retained(c, o)[o] = c[o] + 1
BY DEF O!Retained, O!Null

\* duxrt_*_release takes one from the object's count unless it is null or freed.
LEMMA ReleasedIs ==
    ASSUME NEW c \in Seq(Nat), NEW o \in 0 .. Len(c)
    PROVE  /\ O!Released(c, o) \in Seq(Nat)
           /\ Len(O!Released(c, o)) = Len(c)
           /\ \A q \in 1 .. Len(c) : q # o => O!Released(c, o)[q] = c[q]
           /\ o # O!Null /\ c[o] > 0 => O!Released(c, o)[o] = c[o] - 1
BY DEF O!Released, O!Null

-----------------------------------------------------------------------------
(* The locals that hold an object                                          *)

\* Ownership counts and bounds sets as this module does.
LEMMA SameSets == \A T : /\ O!Cardinality(T) = Cardinality(T) /\ O!Max(T) = Max(T)
                         /\ O!IsFiniteSet(T) <=> IsFiniteSet(T)
BY DEF O!Cardinality, Cardinality, O!IsFiniteSet, IsFiniteSet, O!Max, Max

HeldRefs(o) == Cardinality(O!Holders(o))

\* Finitely many locals hold an object, at least one when x does, and two when
\* x and y do.
LEMMA HeldBy ==
    ASSUME IsFiniteSet(oScope), NEW o
    PROVE  /\ IsFiniteSet(O!Holders(o)) /\ HeldRefs(o) \in Nat
           /\ \A x \in oScope : oSlot[x] = o => HeldRefs(o) >= 1
           /\ \A x, y \in oScope : oSlot[x] = o /\ oSlot[y] = o /\ x # y => HeldRefs(o) >= 2
<1>1. IsFiniteSet(O!Holders(o)) /\ HeldRefs(o) \in Nat
  BY FS_Subset, FS_CardinalityType DEF O!Holders, HeldRefs
<1>2. ASSUME NEW x \in oScope, oSlot[x] = o
      PROVE  /\ IsFiniteSet(O!Holders(o) \ {x})
             /\ Cardinality(O!Holders(o) \ {x}) = HeldRefs(o) - 1
             /\ Cardinality(O!Holders(o) \ {x}) \in Nat
  <2>1. x \in O!Holders(o)
    BY <1>2 DEF O!Holders
  <2>. QED
    BY <1>1, <2>1, FS_RemoveElement, FS_CardinalityType DEF HeldRefs
<1>3. ASSUME NEW x \in oScope, NEW y \in oScope, oSlot[x] = o, oSlot[y] = o, x # y
      PROVE  HeldRefs(o) >= 2
  <2>1. y \in O!Holders(o) \ {x}
    BY <1>3 DEF O!Holders
  <2>2. /\ IsFiniteSet(O!Holders(o) \ {x})
        /\ Cardinality(O!Holders(o) \ {x}) = HeldRefs(o) - 1
        /\ Cardinality(O!Holders(o) \ {x}) \in Nat
    BY <1>2, <1>3
  <2>3. Cardinality(O!Holders(o) \ {x}) # 0
    BY <2>1, <2>2, FS_EmptySet
  <2>. DEFINE n == Cardinality(O!Holders(o) \ {x})
              h == HeldRefs(o)
  <2>4. h \in Nat /\ n \in Nat /\ n # 0 /\ n = h - 1
    BY <1>1, <2>2, <2>3
  <2>5. h >= 2
    <3>. HIDE DEF n, h
    <3>. QED BY <2>4
  <2>. QED
    BY <2>5
<1>4. ASSUME NEW x \in oScope, oSlot[x] = o
      PROVE  HeldRefs(o) >= 1
  <2>. DEFINE n == Cardinality(O!Holders(o) \ {x})
              h == HeldRefs(o)
  <2>1. h \in Nat /\ n \in Nat /\ n = h - 1
    BY <1>1, <1>2, <1>4
  <2>2. h >= 1
    <3>. HIDE DEF n, h
    <3>. QED BY <2>1
  <2>. QED
    BY <2>2
<1>. QED
  BY <1>1, <1>3, <1>4

\* A local x, declared here or before, comes to refer to o: o gains a holder
\* unless x held it, and what x held before loses one.
LEMMA Repoint ==
    ASSUME IsFiniteSet(oScope), oScope \subseteq Locals, DOMAIN oSlot = O!Names,
           NEW x \in Locals, NEW o,
           oSlot' = [oSlot EXCEPT ![x] = o], oScope' = oScope \cup {x}
    PROVE  /\ IsFiniteSet(oScope')
           /\ \A q : q # o /\ (x \in oScope => oSlot[x] # q) => HeldRefs(q)' = HeldRefs(q)
           /\ (x \in oScope => oSlot[x] # o) => HeldRefs(o)' = HeldRefs(o) + 1
           /\ x \in oScope /\ oSlot[x] = o => HeldRefs(o)' = HeldRefs(o)
           /\ \A q : x \in oScope /\ oSlot[x] = q /\ q # o => HeldRefs(q)' = HeldRefs(q) - 1
<1>. USE DEF O!Names
<1>1. IsFiniteSet(oScope')
  BY FS_AddElement
<1>2. \A q : O!Holders(q)' = {y \in oScope \cup {x} : oSlot'[y] = q}
  BY DEF O!Holders
<1>3. \A y \in oScope \ {x} : oSlot'[y] = oSlot[y]
  OBVIOUS
<1>4. oSlot'[x] = o
  OBVIOUS
<1>5. \A q : q # o => O!Holders(q)' = O!Holders(q) \ {x}
  BY <1>2, <1>3, <1>4 DEF O!Holders
<1>6. O!Holders(o)' = O!Holders(o) \cup {x}
  BY <1>2, <1>3, <1>4 DEF O!Holders
<1>7. \A q : q # o /\ (x \in oScope => oSlot[x] # q) => O!Holders(q)' = O!Holders(q)
  <2>1. \A q : (x \in oScope => oSlot[x] # q) => O!Holders(q) \ {x} = O!Holders(q)
    BY DEF O!Holders
  <2>. QED
    BY <1>5, <2>1
<1>8. (x \in oScope => oSlot[x] # o) => HeldRefs(o)' = HeldRefs(o) + 1
  <2>. SUFFICES ASSUME x \in oScope => oSlot[x] # o PROVE HeldRefs(o)' = HeldRefs(o) + 1
    OBVIOUS
  <2>1. x \notin O!Holders(o)
    BY DEF O!Holders
  <2>. QED
    BY <1>6, <2>1, HeldBy, FS_AddElement DEF HeldRefs
<1>9. x \in oScope /\ oSlot[x] = o => HeldRefs(o)' = HeldRefs(o)
  <2>1. x \in oScope /\ oSlot[x] = o => O!Holders(o) \cup {x} = O!Holders(o)
    BY DEF O!Holders
  <2>. QED
    BY <1>6, <2>1 DEF HeldRefs
<1>10. ASSUME x \in oScope, NEW q, oSlot[x] = q, q # o
       PROVE  HeldRefs(q)' = HeldRefs(q) - 1
  <2>1. x \in O!Holders(q) /\ IsFiniteSet(O!Holders(q))
    BY <1>10, HeldBy DEF O!Holders
  <2>2. Cardinality(O!Holders(q) \ {x}) = Cardinality(O!Holders(q)) - 1
    BY <2>1, FS_RemoveElement
  <2>. QED
    BY <1>5, <1>10, <2>2 DEF HeldRefs
<1>11. \A q : q # o /\ (x \in oScope => oSlot[x] # q) => HeldRefs(q)' = HeldRefs(q)
  BY <1>7 DEF HeldRefs
<1>. QED
  BY <1>1, <1>8, <1>9, <1>10, <1>11

-----------------------------------------------------------------------------
(* The inductive invariant                                                 *)

OwnerTypes ==
    /\ oRc \in Seq(Nat) /\ Len(oRc) >= 1
    /\ oSlot \in [O!Names -> 0 .. Len(oRc)]
    /\ oScope \subseteq Locals
    /\ oElements \subseteq 1 .. Len(oRc)
    /\ oResult \in 0 .. Len(oRc)
    /\ oControl \in {"running", "returned"}
    /\ oControl = "running" => oResult = O!Null
    /\ oExempt \subseteq 0 .. Len(oRc)

\* The parameter refers to the caller's object until it is assigned to.
ParamServed == oSlot[Param] \in {O!Null, O!Caller} \cup oExempt

RcInv == OwnerTypes /\ ParamServed /\ O!CountsExact

\* The owners that are no variable.
Base(o) == (IF o = O!Caller THEN 1 ELSE 0) + (IF o \in oElements THEN 1 ELSE 0)

Exact == \A o \in (1 .. Len(oRc)) \ oExempt : oRc[o] = Base(o) + HeldRefs(o)

\* The locals in scope are finitely many.
LEMMA ScopeFinite ==
    ASSUME O!OwnershipAssumption, OwnerTypes
    PROVE  IsFiniteSet(oScope)
BY SameSets, FS_Subset DEF O!OwnershipAssumption, OwnerTypes

\* While the function runs, an object is owned by its locals and its base.
LEMMA RunningExact ==
    ASSUME O!OwnershipAssumption, RcInv, O!Running
    PROVE  /\ ~oStale /\ Exact
           /\ \A o : Base(o) \in Nat /\ HeldRefs(o) \in Nat /\ Base(o) <= 2
           /\ Base(O!Caller) >= 1
<1>1. \A o : HeldRefs(o) \in Nat
  BY ScopeFinite, HeldBy DEF RcInv
<1>2. \A o : Base(o) \in Nat /\ Base(o) <= 2
  BY DEF Base
<1>3. Base(O!Caller) >= 1
  BY DEF Base
<1>4. \A o \in (1 .. Len(oRc)) \ oExempt : oRc[o] = O!Owners(o)
  BY DEF RcInv, OwnerTypes, O!CountsExact
<1>5. \A o : O!Owners(o) = Base(o) + HeldRefs(o)
  <2>. SUFFICES ASSUME NEW o PROVE O!Owners(o) = Base(o) + HeldRefs(o)
    OBVIOUS
  <2>1. O!Owners(o) = (IF o = O!Caller THEN 1 ELSE 0) + HeldRefs(o)
                      + (IF o \in oElements THEN 1 ELSE 0) + 0
    BY SameSets DEF O!Owners, O!Running, HeldRefs
  <2>2. HeldRefs(o) \in Nat
    BY <1>1
  <2>. QED
    BY <2>1, <2>2 DEF Base
<1>. QED
  BY <1>1, <1>2, <1>3, <1>4, <1>5 DEF Exact, RcInv, O!CountsExact

\* What a variable refers to is not freed, and has two owners when another
\* variable refers to it too; the exempt objects aside.
LEMMA Backed ==
    ASSUME O!OwnershipAssumption, RcInv, O!Running
    PROVE  /\ \A x \in oScope \cup {Param} :
                 oSlot[x] # O!Null /\ oSlot[x] \notin oExempt => oRc[oSlot[x]] >= 1
           /\ \A x \in oScope, y \in oScope \cup {Param} :
                 x # y /\ oSlot[x] = oSlot[y] /\ oSlot[x] # O!Null /\ oSlot[x] \notin oExempt
                    => oRc[oSlot[x]] >= 2
<1>1. /\ \A o : Base(o) \in Nat /\ HeldRefs(o) \in Nat
      /\ Base(O!Caller) >= 1
      /\ \A o \in (1 .. Len(oRc)) \ oExempt : oRc[o] = Base(o) + HeldRefs(o)
  BY RunningExact DEF Exact
<1>2. IsFiniteSet(oScope)
  BY ScopeFinite DEF RcInv
<1>3. \A x \in oScope \cup {Param} : oSlot[x] \in 0 .. Len(oRc)
  BY DEF RcInv, OwnerTypes, O!Names
<1>4. ASSUME NEW x \in oScope, oSlot[x] # O!Null, oSlot[x] \notin oExempt
      PROVE  oRc[oSlot[x]] >= 1
  <2>1. HeldRefs(oSlot[x]) >= 1
    BY <1>2, HeldBy
  <2>2. oRc[oSlot[x]] = Base(oSlot[x]) + HeldRefs(oSlot[x])
    BY <1>1, <1>3, <1>4 DEF O!Null
  <2>. QED
    BY <1>1, <2>1, <2>2
<1>5. ASSUME oSlot[Param] # O!Null, oSlot[Param] \notin oExempt
      PROVE  oSlot[Param] = O!Caller /\ oRc[O!Caller] = Base(O!Caller) + HeldRefs(O!Caller)
  BY <1>1, <1>3, <1>5 DEF RcInv, ParamServed, O!Null
<1>6. ASSUME NEW x \in oScope, NEW y \in oScope, x # y, oSlot[x] = oSlot[y],
             oSlot[x] # O!Null, oSlot[x] \notin oExempt
      PROVE  oRc[oSlot[x]] >= 2
  <2>1. HeldRefs(oSlot[x]) >= 2
    BY <1>2, <1>6, HeldBy
  <2>2. oRc[oSlot[x]] = Base(oSlot[x]) + HeldRefs(oSlot[x])
    BY <1>1, <1>3, <1>6 DEF O!Null
  <2>. QED
    BY <1>1, <2>1, <2>2
<1>7. ASSUME NEW x \in oScope, oSlot[x] = oSlot[Param],
             oSlot[x] # O!Null, oSlot[x] \notin oExempt
      PROVE  oRc[oSlot[x]] >= 2
  <2>1. HeldRefs(oSlot[x]) >= 1
    BY <1>2, HeldBy
  <2>2. oSlot[x] = O!Caller /\ oRc[O!Caller] = Base(O!Caller) + HeldRefs(O!Caller)
    BY <1>5, <1>7
  <2>. QED
    BY <1>1, <2>1, <2>2
<1>8. oSlot[Param] # O!Null /\ oSlot[Param] \notin oExempt => oRc[oSlot[Param]] >= 1
  BY <1>1, <1>5
<1>. QED
  BY <1>4, <1>6, <1>7, <1>8

-----------------------------------------------------------------------------
(* The statements                                                          *)

\* Exact counts of a function still running are what the property asks.
LEMMA StillExact ==
    ASSUME O!OwnershipAssumption, OwnerTypes', oControl' = "running", ~oStale', Exact'
    PROVE  O!CountsExact'
<1>1. IsFiniteSet(oScope')
  BY SameSets, FS_Subset DEF O!OwnershipAssumption, OwnerTypes
<1>2. ASSUME NEW o PROVE HeldRefs(o)' \in Nat
  <2>1. O!Holders(o)' \subseteq oScope'
    BY DEF O!Holders
  <2>. QED
    BY <1>1, <2>1, FS_Subset, FS_CardinalityType DEF HeldRefs
<1>3. ASSUME NEW o PROVE O!Owners(o)' = Base(o)' + HeldRefs(o)'
  <2>1. O!Owners(o)' = (IF o = O!Caller THEN 1 ELSE 0) + HeldRefs(o)'
                       + (IF o \in oElements' THEN 1 ELSE 0) + 0
    BY SameSets DEF O!Owners, HeldRefs
  <2>2. HeldRefs(o)' \in Nat
    BY <1>2
  <2>. QED
    BY <2>1, <2>2 DEF Base
<1>4. DOMAIN oRc' = 1 .. Len(oRc')
  BY DEF OwnerTypes
<1>. QED
  BY <1>3, <1>4 DEF O!CountsExact, Exact

\* An object that no variable refers to has no holder.
LEMMA NewUnheld ==
    ASSUME O!OwnershipAssumption, OwnerTypes
    PROVE  /\ O!New \in Nat /\ O!New # O!Null /\ O!New # O!Caller
           /\ O!New \notin oElements /\ O!New \notin 0 .. Len(oRc)
           /\ \A x \in O!Names : oSlot[x] # O!New
           /\ HeldRefs(O!New) = 0
<1>1. Len(oRc) \in Nat
  BY DEF OwnerTypes
<1>2. \A x \in O!Names : oSlot[x] \in 0 .. Len(oRc)
  BY DEF OwnerTypes
<1>3. O!New \in Nat /\ O!New # O!Null /\ O!New # O!Caller /\ O!New \notin 0 .. Len(oRc)
  BY <1>1 DEF O!New, O!Null, O!Caller, OwnerTypes
<1>4. O!Holders(O!New) = {}
  BY <1>2, <1>3 DEF O!Holders, OwnerTypes, O!Names
<1>. QED
  BY <1>2, <1>3, <1>4, FS_EmptySet DEF HeldRefs, OwnerTypes

\* list x = [...]
LEMMA DeclareFreshStep ==
    ASSUME O!OwnershipAssumption, RcInv, NEW x \in Locals, NEW origin \in O!Origins,
           O!DeclareFresh(x, origin)
    PROVE  RcInv'
<1>. PICK n : n = O!New
  OBVIOUS
<1>1. /\ O!Running /\ x \notin oScope
      /\ oRc' = Append(oRc, O!Fresh(origin))
      /\ oSlot' = [oSlot EXCEPT ![x] = n] /\ oScope' = oScope \cup {x}
      /\ oExempt' = oExempt \cup O!FromTry(origin)
      /\ UNCHANGED <<oElements, oTry, oResult, oControl, oStale>>
  BY DEF O!DeclareFresh, O!Declare
<1>2. /\ n \in Nat /\ n # O!Null /\ n # O!Caller /\ n \notin oElements /\ n \notin 0 .. Len(oRc)
      /\ HeldRefs(n) = 0
  BY NewUnheld DEF RcInv
<1>3. n = Len(oRc) + 1 /\ Len(oRc) \in Nat /\ O!Fresh(origin) \in Nat
  BY DEF O!New, O!Fresh, RcInv, OwnerTypes
<1>4. n \notin oExempt' => O!Fresh(origin) = 1
  BY <1>1 DEF O!Fresh, O!FromTry
<1>5. O!FromTry(origin) \subseteq {n}
  BY DEF O!FromTry
<1>6. /\ oRc' \in Seq(Nat) /\ Len(oRc') = n /\ oRc'[n] = O!Fresh(origin)
      /\ \A o \in 1 .. Len(oRc) : oRc'[o] = oRc[o]
  BY <1>1, <1>3 DEF RcInv, OwnerTypes
<1>7. OwnerTypes'
  <2>1. Len(oRc') = Len(oRc) + 1 /\ Len(oRc') \in Nat
    BY <1>3, <1>6
  <2>2. 0 .. Len(oRc) \subseteq 0 .. Len(oRc') /\ 1 .. Len(oRc) \subseteq 1 .. Len(oRc')
    BY <1>3, <2>1
  <2>3. n \in 0 .. Len(oRc')
    BY <1>3, <2>1
  <2>4. oSlot' \in [O!Names -> 0 .. Len(oRc')]
    BY <1>1, <2>2, <2>3 DEF RcInv, OwnerTypes, O!Names
  <2>5. oExempt' \subseteq 0 .. Len(oRc')
    BY <1>1, <1>5, <2>2, <2>3 DEF RcInv, OwnerTypes
  <2>. QED
    BY <1>1, <1>3, <1>6, <2>1, <2>2, <2>4, <2>5 DEF RcInv, OwnerTypes
<1>8. ParamServed'
  BY <1>1, <1>3 DEF RcInv, OwnerTypes, ParamServed, O!Names, O!OwnershipAssumption
<1>9. /\ \A o : o # n => HeldRefs(o)' = HeldRefs(o)
      /\ HeldRefs(n)' = 1
  <2>1. IsFiniteSet(oScope) /\ oScope \subseteq Locals /\ DOMAIN oSlot = O!Names
    BY ScopeFinite DEF RcInv, OwnerTypes
  <2>2. /\ \A q : q # n => HeldRefs(q)' = HeldRefs(q)
        /\ HeldRefs(n)' = HeldRefs(n) + 1
    BY <1>1, <2>1, Repoint
  <2>. QED
    BY <1>2, <2>2
<1>10. /\ \A o : Base(o)' = Base(o)
       /\ Base(n) = 0
  BY <1>1, <1>2 DEF Base
<1>11. Exact'
  <2>. SUFFICES ASSUME NEW o \in (1 .. Len(oRc')) \ oExempt'
                PROVE  oRc'[o] = Base(o)' + HeldRefs(o)'
    BY DEF Exact
  <2>1. CASE o = n
    BY <2>1, <1>4, <1>6, <1>9, <1>10
  <2>2. CASE o # n
    <3>1. o \in (1 .. Len(oRc)) \ oExempt
      BY <2>2, <1>1, <1>3, <1>6
    <3>2. oRc[o] = Base(o) + HeldRefs(o)
      BY <3>1, <1>1, RunningExact DEF Exact
    <3>. QED
      BY <2>2, <3>1, <3>2, <1>6, <1>9, <1>10
  <2>. QED
    BY <2>1, <2>2
<1>. QED
  BY <1>1, <1>7, <1>8, <1>11, RunningExact, StillExact DEF RcInv, O!Running

\* list x = y
LEMMA DeclareCopyStep ==
    ASSUME O!OwnershipAssumption, RcInv, NEW x \in Locals, NEW y \in O!Names, O!DeclareCopy(x, y)
    PROVE  RcInv'
<1>. PICK o : o = oSlot[y]
  OBVIOUS
<1>1. /\ O!Running /\ x \notin oScope /\ y \in oScope \cup {Param}
      /\ oRc' = O!Retained(oRc, o)
      /\ oStale' = (oStale \/ O!Stale(oRc, o))
      /\ oSlot' = [oSlot EXCEPT ![x] = o] /\ oScope' = oScope \cup {x}
      /\ UNCHANGED <<oElements, oTry, oResult, oControl, oExempt>>
  BY DEF O!DeclareCopy, O!Declare
<1>2. oRc \in Seq(Nat) /\ o \in 0 .. Len(oRc)
  BY DEF RcInv, OwnerTypes
<1>3. /\ oRc' \in Seq(Nat) /\ Len(oRc') = Len(oRc)
      /\ \A q \in 1 .. Len(oRc) : q # o => oRc'[q] = oRc[q]
      /\ o # O!Null => oRc'[o] = oRc[o] + 1
  BY <1>1, <1>2, RetainedIs
<1>4. OwnerTypes'
  BY <1>1, <1>2, <1>3 DEF RcInv, OwnerTypes, O!Names
<1>5. ParamServed'
  BY <1>1 DEF RcInv, OwnerTypes, ParamServed, O!Names, O!OwnershipAssumption
<1>6. /\ \A q : q # o => HeldRefs(q)' = HeldRefs(q)
      /\ HeldRefs(o)' = HeldRefs(o) + 1
  <2>1. IsFiniteSet(oScope) /\ oScope \subseteq Locals /\ DOMAIN oSlot = O!Names
    BY ScopeFinite DEF RcInv, OwnerTypes
  <2>2. oScope' = oScope \cup {x} /\ oSlot' = [oSlot EXCEPT ![x] = o]
    BY <1>1
  <2>3. /\ \A q : q # o /\ (x \in oScope => oSlot[x] # q) => HeldRefs(q)' = HeldRefs(q)
        /\ (x \in oScope => oSlot[x] # o) => HeldRefs(o)' = HeldRefs(o) + 1
    BY <2>1, <2>2, Repoint
  <2>. QED
    BY <1>1, <2>3
<1>7. \A q : Base(q)' = Base(q) /\ Base(q) \in Nat /\ HeldRefs(q) \in Nat
  BY <1>1, RunningExact DEF Base
<1>8. Exact'
  <2>. SUFFICES ASSUME NEW q \in (1 .. Len(oRc')) \ oExempt'
                PROVE  oRc'[q] = Base(q)' + HeldRefs(q)'
    BY DEF Exact
  <2>1. oRc[q] = Base(q) + HeldRefs(q) /\ q \in 1 .. Len(oRc) /\ q # O!Null
    BY <1>1, <1>3, RunningExact DEF Exact, O!Null
  <2>2. Base(q)' = Base(q) /\ Base(q) \in Nat /\ HeldRefs(q) \in Nat
    BY <1>7
  <2>3. CASE q = o
    BY <2>1, <2>2, <2>3, <1>3, <1>6
  <2>4. CASE q # o
    BY <2>1, <2>2, <2>4, <1>3, <1>6
  <2>. QED
    BY <2>3, <2>4
<1>9. ~O!Stale(oRc, o) /\ ~oStale
  BY <1>1, Backed, RunningExact DEF O!Stale
<1>. QED
  BY <1>1, <1>4, <1>5, <1>8, <1>9, StillExact DEF RcInv, O!Running

\* str x = xs[i]: the element is exempt from there on.
LEMMA DeclareElementStep ==
    ASSUME O!OwnershipAssumption, RcInv, NEW x \in Locals, NEW o \in oElements,
           O!DeclareElement(x, o)
    PROVE  RcInv'
<1>1. /\ O!Running /\ x \notin oScope /\ oRc' = oRc /\ oExempt' = oExempt \cup {o}
      /\ oSlot' = [oSlot EXCEPT ![x] = o] /\ oScope' = oScope \cup {x}
      /\ UNCHANGED <<oElements, oTry, oResult, oControl, oStale>>
  BY DEF O!DeclareElement, O!Declare
<1>2. o \in 1 .. Len(oRc) /\ o \in 0 .. Len(oRc)
  BY DEF RcInv, OwnerTypes
<1>3. OwnerTypes'
  BY <1>1, <1>2 DEF RcInv, OwnerTypes, O!Names
<1>4. ParamServed'
  BY <1>1 DEF RcInv, OwnerTypes, ParamServed, O!Names, O!OwnershipAssumption
<1>5. \A q : q # o => HeldRefs(q)' = HeldRefs(q)
  <2>1. IsFiniteSet(oScope) /\ oScope \subseteq Locals /\ DOMAIN oSlot = O!Names
    BY ScopeFinite DEF RcInv, OwnerTypes
  <2>. QED
    BY <1>1, <2>1, Repoint
<1>6. \A q : Base(q)' = Base(q)
  BY <1>1 DEF Base
<1>7. Exact'
  BY <1>1, <1>5, <1>6, RunningExact DEF Exact
<1>. QED
  BY <1>1, <1>3, <1>4, <1>7, RunningExact, StillExact DEF RcInv, O!Running

\* A fresh object is put in a container.
LEMMA StoreFreshStep ==
    ASSUME O!OwnershipAssumption, RcInv, O!StoreFresh
    PROVE  RcInv'
<1>. PICK n : n = O!New
  OBVIOUS
<1>1. /\ O!Running /\ oRc' = Append(oRc, 1) /\ oElements' = oElements \cup {n}
      /\ UNCHANGED <<oSlot, oScope, oTry, oResult, oControl, oExempt, oStale>>
  BY DEF O!StoreFresh
<1>2. /\ n \in Nat /\ n # O!Null /\ n # O!Caller /\ n \notin oElements /\ n \notin 0 .. Len(oRc)
      /\ HeldRefs(n) = 0
  BY NewUnheld DEF RcInv
<1>3. n = Len(oRc) + 1 /\ Len(oRc) \in Nat
  BY DEF O!New, RcInv, OwnerTypes
<1>4. /\ oRc' \in Seq(Nat) /\ Len(oRc') = n /\ oRc'[n] = 1
      /\ \A o \in 1 .. Len(oRc) : oRc'[o] = oRc[o]
  BY <1>1, <1>3 DEF RcInv, OwnerTypes
<1>5. OwnerTypes'
  <2>1. 0 .. Len(oRc) \subseteq 0 .. Len(oRc') /\ 1 .. Len(oRc) \subseteq 1 .. Len(oRc')
        /\ n \in 1 .. Len(oRc')
    BY <1>3, <1>4
  <2>2. oSlot' \in [O!Names -> 0 .. Len(oRc')] /\ oElements' \subseteq 1 .. Len(oRc')
        /\ oExempt' \subseteq 0 .. Len(oRc')
    BY <1>1, <2>1 DEF RcInv, OwnerTypes
  <2>. QED
    BY <1>1, <1>3, <1>4, <2>1, <2>2 DEF RcInv, OwnerTypes
<1>6. ParamServed'
  BY <1>1 DEF RcInv, ParamServed
<1>7. \A o : HeldRefs(o)' = HeldRefs(o)
  BY <1>1 DEF HeldRefs, O!Holders
<1>8. /\ \A o : o # n => Base(o)' = Base(o)
      /\ Base(n)' = 1
  BY <1>1, <1>2 DEF Base
<1>9. Exact'
  <2>. SUFFICES ASSUME NEW o \in (1 .. Len(oRc')) \ oExempt'
                PROVE  oRc'[o] = Base(o)' + HeldRefs(o)'
    BY DEF Exact
  <2>1. CASE o = n
    BY <2>1, <1>2, <1>4, <1>7, <1>8
  <2>2. CASE o # n
    <3>1. o \in (1 .. Len(oRc)) \ oExempt
      BY <2>2, <1>1, <1>3, <1>4
    <3>2. oRc[o] = Base(o) + HeldRefs(o)
      BY <3>1, <1>1, RunningExact DEF Exact
    <3>. QED
      BY <2>2, <3>1, <3>2, <1>4, <1>7, <1>8
  <2>. QED
    BY <2>1, <2>2
<1>. QED
  BY <1>1, <1>5, <1>6, <1>9, RunningExact, StillExact DEF RcInv, O!Running

\* A container comes to refer to what a variable holds, or lets an element go: only
\* the owners of that object change, and it is exempt from there on.
LEMMA ContainerStep ==
    ASSUME O!OwnershipAssumption, RcInv, NEW o,
           (\E x \in O!Names : o = oSlot[x] /\ O!StoreVariable(x)) \/ O!LetGo(o)
    PROVE  RcInv'
<1>1. /\ O!Running /\ oExempt' = oExempt \cup {o}
      /\ oElements' = oElements \cup {o} \/ oElements' = oElements \ {o}
      /\ UNCHANGED <<oRc, oSlot, oScope, oTry, oResult, oControl, oStale>>
  BY DEF O!StoreVariable, O!LetGo
<1>2. o \in 1 .. Len(oRc) /\ o \in 0 .. Len(oRc)
  <2>1. /\ oSlot \in [O!Names -> 0 .. Len(oRc)] /\ oElements \subseteq 1 .. Len(oRc)
        /\ Len(oRc) \in Nat
    BY DEF RcInv, OwnerTypes
  <2>2. CASE O!LetGo(o)
    BY <2>1, <2>2 DEF O!LetGo
  <2>3. CASE \E x \in O!Names : o = oSlot[x] /\ O!StoreVariable(x)
    <3>1. o \in 0 .. Len(oRc) /\ o # 0
      BY <2>1, <2>3 DEF O!StoreVariable, O!Null
    <3>. QED
      BY <2>1, <3>1
  <2>. QED
    BY <2>2, <2>3
<1>3. OwnerTypes'
  BY <1>1, <1>2 DEF RcInv, OwnerTypes
<1>4. ParamServed'
  BY <1>1 DEF RcInv, ParamServed
<1>5. \A q : HeldRefs(q)' = HeldRefs(q)
  BY <1>1 DEF HeldRefs, O!Holders
<1>6. \A q : q # o => Base(q)' = Base(q)
  BY <1>1 DEF Base
<1>7. Exact'
  BY <1>1, <1>5, <1>6, RunningExact DEF Exact
<1>. QED
  BY <1>1, <1>3, <1>4, <1>7, RunningExact, StillExact DEF RcInv, O!Running

\* A fresh value that nothing keeps.
LEMMA DiscardStep ==
    ASSUME O!OwnershipAssumption, RcInv, O!Discard
    PROVE  RcInv'
<1>. PICK n : n = O!New
  OBVIOUS
<1>1. /\ O!Running /\ oRc' = Append(oRc, 1) /\ oExempt' = oExempt \cup {n}
      /\ UNCHANGED <<oSlot, oScope, oElements, oTry, oResult, oControl, oStale>>
  BY DEF O!Discard
<1>2. n = Len(oRc) + 1 /\ Len(oRc) \in Nat
  BY DEF O!New, RcInv, OwnerTypes
<1>3. /\ oRc' \in Seq(Nat) /\ Len(oRc') = n
      /\ \A o \in 1 .. Len(oRc) : oRc'[o] = oRc[o]
  BY <1>1, <1>2 DEF RcInv, OwnerTypes
<1>4. OwnerTypes'
  <2>1. 0 .. Len(oRc) \subseteq 0 .. Len(oRc') /\ 1 .. Len(oRc) \subseteq 1 .. Len(oRc')
        /\ n \in 0 .. Len(oRc')
    BY <1>2, <1>3
  <2>2. oSlot' \in [O!Names -> 0 .. Len(oRc')] /\ oElements' \subseteq 1 .. Len(oRc')
        /\ oExempt' \subseteq 0 .. Len(oRc')
    BY <1>1, <2>1 DEF RcInv, OwnerTypes
  <2>. QED
    BY <1>1, <1>2, <1>3, <2>1, <2>2 DEF RcInv, OwnerTypes
<1>5. ParamServed'
  BY <1>1 DEF RcInv, ParamServed
<1>6. \A o : HeldRefs(o)' = HeldRefs(o) /\ Base(o)' = Base(o)
  BY <1>1 DEF HeldRefs, O!Holders, Base
<1>7. \A o \in (1 .. Len(oRc')) \ oExempt' : o \in (1 .. Len(oRc)) \ oExempt
  BY <1>1, <1>2, <1>3
<1>8. Exact'
  BY <1>1, <1>3, <1>6, <1>7, RunningExact DEF Exact
<1>. QED
  BY <1>1, <1>4, <1>5, <1>8, RunningExact, StillExact DEF RcInv, O!Running

\* An assignment to the parameter changes no local.
LEMMA ParamHeldByNone ==
    ASSUME O!OwnershipAssumption, OwnerTypes, NEW o,
           oSlot' = [oSlot EXCEPT ![Param] = o], oScope' = oScope
    PROVE  \A q : HeldRefs(q)' = HeldRefs(q)
<1>1. \A y \in oScope : oSlot'[y] = oSlot[y]
  BY DEF O!OwnershipAssumption, OwnerTypes, O!Names
<1>. QED
  BY <1>1 DEF HeldRefs, O!Holders

\* x = [...]
LEMMA AssignFreshStep ==
    ASSUME O!OwnershipAssumption, RcInv, NEW x \in O!Names, NEW origin \in O!Origins,
           O!AssignFresh(x, origin)
    PROVE  RcInv'
<1>. PICK n : n = O!New
  OBVIOUS
<1>. PICK p : p = oSlot[x]
  OBVIOUS
<1>. PICK after : after = O!Released(oRc, p)
  OBVIOUS
<1>1. /\ O!Running /\ x \in oScope \cup {Param}
      /\ oRc' = Append(after, O!Fresh(origin))
      /\ oStale' = (oStale \/ O!Stale(oRc, p))
      /\ oSlot' = [oSlot EXCEPT ![x] = n]
      /\ oExempt' = oExempt \cup O!FromTry(origin) \cup O!ByParam(x, n)
      /\ UNCHANGED <<oScope, oElements, oTry, oResult, oControl>>
  BY DEF O!AssignFresh
<1>2. /\ n \in Nat /\ n # O!Null /\ n # O!Caller /\ n \notin oElements /\ n \notin 0 .. Len(oRc)
      /\ HeldRefs(n) = 0
  BY NewUnheld DEF RcInv
<1>3. n = Len(oRc) + 1 /\ Len(oRc) \in Nat /\ O!Fresh(origin) \in Nat
  BY DEF O!New, O!Fresh, RcInv, OwnerTypes
<1>4. n \notin oExempt' => O!Fresh(origin) = 1
  BY <1>1 DEF O!Fresh, O!FromTry
<1>5. /\ O!FromTry(origin) \subseteq {n}
      /\ x # Param => O!ByParam(x, n) = {}
      /\ x = Param => O!ByParam(x, n) = {p, n}
  BY DEF O!FromTry, O!ByParam
<1>6. oRc \in Seq(Nat) /\ p \in 0 .. Len(oRc)
  BY DEF RcInv, OwnerTypes
<1>7. /\ after \in Seq(Nat) /\ Len(after) = Len(oRc)
      /\ \A q \in 1 .. Len(oRc) : q # p => after[q] = oRc[q]
      /\ p # O!Null /\ oRc[p] > 0 => after[p] = oRc[p] - 1
  BY <1>6, ReleasedIs
<1>8. /\ oRc' \in Seq(Nat) /\ Len(oRc') = n /\ oRc'[n] = O!Fresh(origin)
      /\ \A o \in 1 .. Len(oRc) : oRc'[o] = after[o]
  BY <1>1, <1>3, <1>7
<1>9. OwnerTypes'
  <2>1. 0 .. Len(oRc) \subseteq 0 .. Len(oRc') /\ 1 .. Len(oRc) \subseteq 1 .. Len(oRc')
        /\ n \in 0 .. Len(oRc')
    BY <1>3, <1>8
  <2>2. oSlot' \in [O!Names -> 0 .. Len(oRc')]
    BY <1>1, <2>1 DEF RcInv, OwnerTypes
  <2>3. oExempt' \subseteq 0 .. Len(oRc')
    BY <1>1, <1>5, <1>6, <2>1 DEF RcInv, OwnerTypes
  <2>. QED
    BY <1>1, <1>3, <1>8, <2>1, <2>2, <2>3 DEF RcInv, OwnerTypes
<1>10. ParamServed'
  BY <1>1, <1>5 DEF RcInv, OwnerTypes, ParamServed, O!Names
<1>11. ~O!Stale(oRc, p) /\ ~oStale
  BY <1>1, Backed, RunningExact DEF O!Stale
<1>12. \A q : Base(q)' = Base(q) /\ Base(q) \in Nat /\ HeldRefs(q) \in Nat
  BY <1>1, RunningExact DEF Base
<1>13. Base(n) = 0
  BY <1>2 DEF Base
<1>14. CASE x = Param
  <2>1. \A q : HeldRefs(q)' = HeldRefs(q)
    BY <1>1, <1>14, ParamHeldByNone DEF RcInv
  <2>2. p \in oExempt' /\ n \in oExempt'
    BY <1>1, <1>5, <1>14
  <2>3. Exact'
    <3>. SUFFICES ASSUME NEW o \in (1 .. Len(oRc')) \ oExempt'
                  PROVE  oRc'[o] = Base(o)' + HeldRefs(o)'
      BY DEF Exact
    <3>1. o \in (1 .. Len(oRc)) \ oExempt /\ o # p
      BY <1>1, <1>3, <1>8, <2>2
    <3>2. oRc[o] = Base(o) + HeldRefs(o)
      BY <3>1, <1>1, RunningExact DEF Exact
    <3>. QED
      BY <3>1, <3>2, <1>7, <1>8, <1>12, <2>1
  <2>. QED
    BY <1>1, <1>9, <1>10, <1>11, <2>3, StillExact DEF RcInv, O!Running
<1>15. CASE x # Param
  <2>1. x \in oScope /\ p # n
    BY <1>1, <1>2, <1>6, <1>15
  <2>2. /\ \A q : q # n /\ q # p => HeldRefs(q)' = HeldRefs(q)
        /\ HeldRefs(n)' = HeldRefs(n) + 1
        /\ HeldRefs(p)' = HeldRefs(p) - 1
    <3>1. /\ IsFiniteSet(oScope) /\ oScope \subseteq Locals /\ DOMAIN oSlot = O!Names
          /\ oScope' = oScope \cup {x} /\ x \in Locals
      BY <1>1, <2>1, ScopeFinite DEF RcInv, OwnerTypes
    <3>. QED
      <4>1. oSlot' = [oSlot EXCEPT ![x] = n]
        BY <1>1
      <4>2. /\ \A q : q # n /\ (x \in oScope => oSlot[x] # q) => HeldRefs(q)' = HeldRefs(q)
            /\ (x \in oScope => oSlot[x] # n) => HeldRefs(n)' = HeldRefs(n) + 1
            /\ \A q : x \in oScope /\ oSlot[x] = q /\ q # n => HeldRefs(q)' = HeldRefs(q) - 1
        BY ONLY <3>1, <4>1, Repoint
      <4>. QED BY <2>1, <4>2
  <2>3. p # O!Null /\ p \notin oExempt => oRc[p] >= 1
    BY <1>1, Backed
  <2>4. Exact'
    <3>. SUFFICES ASSUME NEW o \in (1 .. Len(oRc')) \ oExempt'
                  PROVE  oRc'[o] = Base(o)' + HeldRefs(o)'
      BY DEF Exact
    <3>1. CASE o = n
      BY <3>1, <1>2, <1>4, <1>8, <1>12, <1>13, <2>2
    <3>2. CASE o # n
      <4>1. o \in (1 .. Len(oRc)) \ oExempt /\ o # O!Null
        BY <3>2, <1>1, <1>3, <1>8 DEF O!Null
      <4>2. oRc[o] = Base(o) + HeldRefs(o) /\ oRc[o] \in Nat
        BY <4>1, <1>1, <1>6, RunningExact DEF Exact
      <4>3. CASE o = p
        <5>1. oRc[p] = Base(p) + HeldRefs(p) /\ oRc[p] \in Nat /\ oRc[p] > 0
          BY <4>1, <4>2, <4>3, <2>3
        <5>2. oRc'[p] = oRc[p] - 1
          <6>1. after[p] = oRc[p] - 1
            BY <4>1, <4>3, <5>1, <1>7
          <6>2. oRc'[p] = after[p]
            BY <4>1, <4>3, <1>8
          <6>. QED BY <6>1, <6>2
        <5>3. Base(p)' = Base(p) /\ HeldRefs(p)' = HeldRefs(p) - 1
          BY <1>12, <2>2
        <5>4. Base(p) \in Nat /\ HeldRefs(p) \in Nat
          BY <1>12
        <5>. QED BY <4>3, <5>1, <5>2, <5>3, <5>4
      <4>4. CASE o # p
        BY <3>2, <4>1, <4>2, <4>4, <1>7, <1>8, <1>12, <2>2
      <4>. QED
        BY <4>3, <4>4
    <3>. QED
      BY <3>1, <3>2
  <2>. QED
    BY <1>1, <1>9, <1>10, <1>11, <2>4, StillExact DEF RcInv, O!Running
<1>. QED
  BY <1>14, <1>15

\* A variable gives up what it refers to, for nothing or for an object that is exempt;
\* what the parameter gives up is exempt too.
LEMMA GiveUpStep ==
    ASSUME O!OwnershipAssumption, RcInv, O!Running, NEW x \in oScope \cup {Param},
           NEW r \in 0 .. Len(oRc),
           oRc' = O!Released(oRc, oSlot[x]),
           oStale' = (oStale \/ O!Stale(oRc, oSlot[x])),
           oSlot' = [oSlot EXCEPT ![x] = r],
           oExempt \subseteq oExempt', oExempt' \subseteq 0 .. Len(oRc),
           r # O!Null => r \in oExempt', x = Param => oSlot[x] \in oExempt',
           UNCHANGED <<oScope, oElements, oTry, oResult, oControl>>
    PROVE  RcInv'
<1>. PICK p : p = oSlot[x]
  OBVIOUS
<1>1. x \in O!Names /\ oRc \in Seq(Nat) /\ p \in 0 .. Len(oRc)
  BY DEF RcInv, OwnerTypes, O!Names
<1>2. /\ oRc' \in Seq(Nat) /\ Len(oRc') = Len(oRc)
      /\ \A q \in 1 .. Len(oRc) : q # p => oRc'[q] = oRc[q]
      /\ p # O!Null /\ oRc[p] > 0 => oRc'[p] = oRc[p] - 1
  BY <1>1, ReleasedIs
<1>3. OwnerTypes'
  BY <1>1, <1>2 DEF RcInv, OwnerTypes
<1>4. ParamServed'
  <2>1. oSlot'[Param] = IF x = Param THEN r ELSE oSlot[Param]
    BY <1>1 DEF RcInv, OwnerTypes, O!Names
  <2>. QED
    BY <2>1 DEF RcInv, ParamServed
<1>5. ~O!Stale(oRc, p) /\ ~oStale
  BY Backed, RunningExact DEF O!Stale
<1>6. \A q : Base(q)' = Base(q) /\ Base(q) \in Nat /\ HeldRefs(q) \in Nat
  BY RunningExact DEF Base
<1>7. \A q : q # O!Null /\ q \notin oExempt' =>
              HeldRefs(q)' = IF q = p THEN HeldRefs(q) - 1 ELSE HeldRefs(q)
  <2>1. CASE x = Param
    <3>1. \A q : HeldRefs(q)' = HeldRefs(q)
      BY <2>1, ParamHeldByNone DEF RcInv
    <3>. QED
      BY <2>1, <3>1
  <2>2. CASE x \in oScope
    <3>1. /\ IsFiniteSet(oScope) /\ oScope \subseteq Locals /\ DOMAIN oSlot = O!Names
          /\ oScope' = oScope \cup {x} /\ x \in Locals
      BY <2>2, ScopeFinite DEF RcInv, OwnerTypes
    <3>2. /\ \A q : q # r /\ (x \in oScope => oSlot[x] # q) => HeldRefs(q)' = HeldRefs(q)
          /\ \A q : x \in oScope /\ oSlot[x] = q /\ q # r => HeldRefs(q)' = HeldRefs(q) - 1
      BY <3>1, Repoint
    <3>. QED
      BY <2>2, <3>2
  <2>. QED
    BY <2>1, <2>2
<1>8. p # O!Null /\ p \notin oExempt => oRc[p] >= 1
  BY Backed
<1>9. Exact'
  <2>. SUFFICES ASSUME NEW o \in (1 .. Len(oRc')) \ oExempt'
                PROVE  oRc'[o] = Base(o)' + HeldRefs(o)'
    BY DEF Exact
  <2>1. o \in (1 .. Len(oRc)) \ oExempt /\ o # O!Null
    BY <1>2 DEF O!Null
  <2>2. oRc[o] = Base(o) + HeldRefs(o) /\ oRc[o] \in Nat
    BY <2>1, <1>1, RunningExact DEF Exact
  <2>3. CASE o = p
    BY <2>1, <2>2, <2>3, <1>2, <1>6, <1>7, <1>8
  <2>4. CASE o # p
    BY <2>1, <2>2, <2>4, <1>2, <1>6, <1>7
  <2>. QED
    BY <2>3, <2>4
<1>. QED
  BY <1>3, <1>4, <1>5, <1>9, StillExact DEF RcInv, O!Running

\* delete x: the variable refers to nothing from there on.
LEMMA DeleteStep ==
    ASSUME O!OwnershipAssumption, RcInv, NEW x \in O!Names, O!Delete(x)
    PROVE  RcInv'
<1>1. /\ O!Running /\ x \in oScope \cup {Param}
      /\ oRc' = O!Released(oRc, oSlot[x]) /\ oStale' = (oStale \/ O!Stale(oRc, oSlot[x]))
      /\ oSlot' = [oSlot EXCEPT ![x] = O!Null]
      /\ oExempt' = oExempt \cup (IF x = Param THEN {oSlot[x], O!Null} ELSE {})
      /\ UNCHANGED <<oScope, oElements, oTry, oResult, oControl>>
  BY DEF O!Delete, O!ByParam
<1>2. O!Null \in 0 .. Len(oRc) /\ oSlot[x] \in 0 .. Len(oRc) /\ oExempt \subseteq 0 .. Len(oRc)
  BY DEF RcInv, OwnerTypes, O!Null
<1>3. oExempt' \subseteq 0 .. Len(oRc) /\ oExempt \subseteq oExempt' /\ (x = Param => oSlot[x] \in oExempt')
  BY <1>1, <1>2
<1>. QED
  BY <1>1, <1>2, <1>3, GiveUpStep

\* x = xs[i], x = null: what x referred to and what it refers to are exempt from there on.
LEMMA AssignUntypedStep ==
    ASSUME O!OwnershipAssumption, RcInv, NEW x \in O!Names, NEW o \in oElements \cup {O!Null},
           O!AssignUntyped(x, o)
    PROVE  RcInv'
<1>1. /\ O!Running /\ x \in oScope \cup {Param}
      /\ oSlot' = [oSlot EXCEPT ![x] = o] /\ oExempt' = oExempt \cup {oSlot[x], o}
      /\ UNCHANGED <<oRc, oScope, oElements, oTry, oResult, oControl, oStale>>
  BY DEF O!AssignUntyped
<1>2. o \in 0 .. Len(oRc) /\ oSlot[x] \in 0 .. Len(oRc) /\ oExempt \subseteq 0 .. Len(oRc)
  BY DEF RcInv, OwnerTypes, O!Null
<1>3. OwnerTypes' /\ Len(oRc') = Len(oRc)
  BY <1>1, <1>2 DEF RcInv, OwnerTypes
<1>4. ParamServed'
  <2>1. oSlot'[Param] = IF x = Param THEN o ELSE oSlot[Param]
    BY <1>1 DEF RcInv, OwnerTypes, O!Names
  <2>. QED
    BY <1>1, <2>1 DEF RcInv, ParamServed
<1>5. \A q : Base(q)' = Base(q)
  BY <1>1 DEF Base
<1>6. \A q : q \notin oExempt' => HeldRefs(q)' = HeldRefs(q)
  <2>1. \A q : q \notin oExempt' => O!Holders(q)' = O!Holders(q)
    BY <1>1 DEF RcInv, OwnerTypes, O!Holders
  <2>. QED
    BY <2>1 DEF HeldRefs
<1>7. Exact'
  BY <1>1, <1>3, <1>5, <1>6, RunningExact DEF Exact
<1>. QED
  BY <1>1, <1>3, <1>4, <1>7, RunningExact, StillExact DEF RcInv, O!Running

\* x = y: the release of x's old value comes first, yet frees nothing that y
\* refers to, unless y is x.
LEMMA AssignCopyStep ==
    ASSUME O!OwnershipAssumption, RcInv, NEW x \in O!Names, NEW y \in O!Names, O!AssignCopy(x, y)
    PROVE  RcInv'
<1>. PICK p : p = oSlot[x]
  OBVIOUS
<1>. PICK o : o = oSlot[y]
  OBVIOUS
<1>. PICK after : after = O!Released(oRc, p)
  OBVIOUS
<1>1. /\ O!Running /\ x \in oScope \cup {Param} /\ y \in oScope \cup {Param}
      /\ oRc' = O!Retained(after, o)
      /\ oExempt' = oExempt \cup O!ByParam(x, o)
                      \cup (IF x = y /\ p # O!Null /\ after[p] = 0 THEN {p} ELSE {})
      /\ oStale' = (oStale \/ O!Stale(oRc, p) \/ (x # y /\ O!Stale(after, o)))
      /\ oSlot' = [oSlot EXCEPT ![x] = o]
      /\ UNCHANGED <<oScope, oElements, oTry, oResult, oControl>>
  BY DEF O!AssignCopy
<1>2. oRc \in Seq(Nat) /\ p \in 0 .. Len(oRc) /\ o \in 0 .. Len(oRc)
  BY DEF RcInv, OwnerTypes
<1>3. /\ after \in Seq(Nat) /\ Len(after) = Len(oRc)
      /\ \A q \in 1 .. Len(oRc) : q # p => after[q] = oRc[q]
      /\ p # O!Null /\ oRc[p] > 0 => after[p] = oRc[p] - 1
  BY <1>2, ReleasedIs
<1>4. /\ oRc' \in Seq(Nat) /\ Len(oRc') = Len(oRc)
      /\ \A q \in 1 .. Len(oRc) : q # o => oRc'[q] = after[q]
      /\ o # O!Null => oRc'[o] = after[o] + 1
  <2>1. after \in Seq(Nat) /\ o \in 0 .. Len(after)
    BY <1>2, <1>3
  <2>2. /\ oRc' \in Seq(Nat) /\ Len(oRc') = Len(after)
        /\ \A q \in 1 .. Len(after) : q # o => oRc'[q] = after[q]
        /\ o # O!Null => oRc'[o] = after[o] + 1
    BY <1>1, <2>1, RetainedIs
  <2>. QED
    BY <1>3, <2>2
<1>5. /\ oExempt \subseteq oExempt' /\ oExempt' \subseteq oExempt \cup {p, o}
      /\ x = Param => p \in oExempt' /\ o \in oExempt'
  BY <1>1 DEF O!ByParam
<1>6. OwnerTypes'
  BY <1>1, <1>2, <1>4, <1>5 DEF RcInv, OwnerTypes
<1>7. ParamServed'
  BY <1>1, <1>5 DEF RcInv, OwnerTypes, ParamServed, O!Names
<1>8. \A q : Base(q)' = Base(q) /\ Base(q) \in Nat /\ HeldRefs(q) \in Nat
  BY <1>1, RunningExact DEF Base
<1>9. p # O!Null /\ p \notin oExempt => oRc[p] >= 1
  BY <1>1, Backed
<1>10. ~oStale'
  <2>1. ~O!Stale(oRc, p) /\ ~oStale
    BY <1>1, <1>9, RunningExact DEF O!Stale
  <2>2. ASSUME x # y, O!Stale(after, o) PROVE FALSE
    <3>1. o # O!Null /\ after[o] = 0 /\ o \notin oExempt /\ o \in 1 .. Len(oRc)
      BY <2>2, <1>2 DEF O!Stale, O!Null
    <3>2. oRc[o] >= 1 /\ oRc[o] \in Nat
      BY <1>1, <1>2, <3>1, Backed
    <3>3. o = p => oRc[o] >= 2
      <4>1. CASE x \in oScope
        BY <1>1, <2>2, <3>1, <4>1, Backed
      <4>2. CASE x \notin oScope
        <5>1. x = Param /\ y \in oScope
          BY <1>1, <2>2, <4>2
        <5>. QED
          BY <1>1, <2>2, <3>1, <5>1, Backed
      <4>. QED
        BY <4>1, <4>2
    <3>. QED
      BY <1>3, <3>1, <3>2, <3>3
  <2>. QED
    BY <1>1, <2>1, <2>2
<1>11. CASE x = Param
  <2>1. \A q : HeldRefs(q)' = HeldRefs(q)
    BY <1>1, <1>11, ParamHeldByNone DEF RcInv
  <2>2. Exact'
    <3>. SUFFICES ASSUME NEW q \in (1 .. Len(oRc')) \ oExempt'
                  PROVE  oRc'[q] = Base(q)' + HeldRefs(q)'
      BY DEF Exact
    <3>1. q \in (1 .. Len(oRc)) \ oExempt /\ q # p /\ q # o
      BY <1>4, <1>5, <1>11
    <3>2. oRc[q] = Base(q) + HeldRefs(q)
      BY <3>1, <1>1, RunningExact DEF Exact
    <3>. QED
      BY <3>1, <3>2, <1>3, <1>4, <1>8, <2>1
  <2>. QED
    BY <1>1, <1>6, <1>7, <1>10, <2>2, StillExact DEF RcInv, O!Running
<1>12. CASE x # Param
  <2>1. x \in oScope
    BY <1>1, <1>12
  <2>2. /\ \A q : q # o /\ q # p => HeldRefs(q)' = HeldRefs(q)
        /\ p # o => HeldRefs(o)' = HeldRefs(o) + 1
        /\ p # o => HeldRefs(p)' = HeldRefs(p) - 1
        /\ p = o => HeldRefs(o)' = HeldRefs(o)
    <3>1. /\ IsFiniteSet(oScope) /\ oScope \subseteq Locals /\ DOMAIN oSlot = O!Names
          /\ oScope' = oScope \cup {x} /\ x \in Locals
          /\ oSlot' = [oSlot EXCEPT ![x] = o]
      BY <1>1, <2>1, ScopeFinite DEF RcInv, OwnerTypes
    <3>2. /\ \A q : q # o /\ (x \in oScope => oSlot[x] # q) => HeldRefs(q)' = HeldRefs(q)
          /\ (x \in oScope => oSlot[x] # o) => HeldRefs(o)' = HeldRefs(o) + 1
          /\ x \in oScope /\ oSlot[x] = o => HeldRefs(o)' = HeldRefs(o)
          /\ \A q : x \in oScope /\ oSlot[x] = q /\ q # o => HeldRefs(q)' = HeldRefs(q) - 1
      BY ONLY <3>1, Repoint
    <3>. QED
      BY <2>1, <3>2
  <2>3. Exact'
    <3>. SUFFICES ASSUME NEW q \in (1 .. Len(oRc')) \ oExempt'
                  PROVE  oRc'[q] = Base(q)' + HeldRefs(q)'
      BY DEF Exact
    <3>1. q \in (1 .. Len(oRc)) \ oExempt /\ q # O!Null
      BY <1>4, <1>5 DEF O!Null
    <3>2. oRc[q] = Base(q) + HeldRefs(q) /\ oRc[q] \in Nat
      BY <3>1, <1>1, <1>2, RunningExact DEF Exact
    <3>3. CASE q = o /\ q = p
      <4>1. oRc'[q] = oRc[q]
        BY <3>1, <3>2, <3>3, <1>3, <1>4, <1>9
      <4>. QED
        BY <3>2, <3>3, <4>1, <1>8, <2>2
    <3>4. CASE q = o /\ q # p
      <4>1. oRc'[q] = oRc[q] + 1
        BY <3>1, <3>2, <3>4, <1>3, <1>4
      <4>. QED
        BY <3>2, <3>4, <4>1, <1>8, <2>2
    <3>5. CASE q # o /\ q = p
      <4>1. oRc'[q] = oRc[q] - 1
        BY <3>1, <3>2, <3>5, <1>3, <1>4, <1>9
      <4>. QED
        BY <3>2, <3>5, <4>1, <1>8, <2>2
    <3>6. CASE q # o /\ q # p
      BY <3>1, <3>2, <3>6, <1>3, <1>4, <1>8, <2>2
    <3>. QED
      BY <3>3, <3>4, <3>5, <3>6
  <2>. QED
    BY <1>1, <1>6, <1>7, <1>10, <2>3, StillExact DEF RcInv, O!Running
<1>. QED
  BY <1>11, <1>12

-----------------------------------------------------------------------------
(* The end of the function                                                 *)

\* The larger of zero and k.
LEMMA AtLeastZero ==
    ASSUME NEW k \in Int
    PROVE  /\ k >= 0 => Max({0, k}) = k
           /\ Max({0, k}) \in Nat
<1>1. CASE k >= 0
  <2>1. k \in {0, k} /\ \A y \in {0, k} : k >= y
    BY <1>1
  <2>2. \A z \in {0, k} : (\A y \in {0, k} : z >= y) => z = k
    BY <1>1
  <2>3. Max({0, k}) \in {0, k} /\ \A y \in {0, k} : Max({0, k}) >= y
    BY <2>1 DEF Max
  <2>. QED
    BY <1>1, <2>2, <2>3
<1>2. CASE k < 0
  <2>1. 0 \in {0, k} /\ \A y \in {0, k} : 0 >= y
    BY <1>2
  <2>2. Max({0, k}) \in {0, k} /\ \A y \in {0, k} : Max({0, k}) >= y
    BY <2>1 DEF Max
  <2>. QED
    BY <1>2, <2>2
<1>. QED
  BY <1>1, <1>2

\* The cleanups of a function release every object once for each local in scope
\* that holds it.
LEMMA CleanedIs ==
    ASSUME O!OwnershipAssumption, OwnerTypes, NEW c \in Seq(Nat)
    PROVE  /\ O!Cleaned(c) \in Seq(Nat) /\ Len(O!Cleaned(c)) = Len(c)
           /\ \A o \in 1 .. Len(c) : c[o] >= HeldRefs(o) => O!Cleaned(c)[o] = c[o] - HeldRefs(o)
<1>1. \A o : HeldRefs(o) \in Nat
  BY ScopeFinite, HeldBy
<1>2. DOMAIN c = 1 .. Len(c) /\ Len(c) \in Nat /\ \A o \in 1 .. Len(c) : c[o] \in Nat
  OBVIOUS
<1>3. O!Cleaned(c) = [o \in 1 .. Len(c) |-> Max({0, c[o] - HeldRefs(o)})]
  BY <1>2, SameSets DEF O!Cleaned, HeldRefs
<1>4. \A o \in 1 .. Len(c) : Max({0, c[o] - HeldRefs(o)}) \in Nat
  BY <1>1, <1>2, AtLeastZero
<1>5. O!Cleaned(c) \in Seq(Nat) /\ Len(O!Cleaned(c)) = Len(c)
  BY <1>2, <1>3, <1>4
<1>6. ASSUME NEW o \in 1 .. Len(c), c[o] >= HeldRefs(o)
      PROVE  O!Cleaned(c)[o] = c[o] - HeldRefs(o)
  <2>1. c[o] - HeldRefs(o) \in Int /\ c[o] - HeldRefs(o) >= 0
    BY <1>1, <1>2, <1>6
  <2>. QED
    BY <1>3, <2>1, AtLeastZero
<1>. QED
  BY <1>5, <1>6

\* The function returns with the value that x refers to, retained before the
\* cleanups, or with nothing: what is left is what the caller, the containers and
\* the result own.
LEMMA Ending ==
    ASSUME O!OwnershipAssumption, RcInv, O!Running,
           NEW o \in 0 .. Len(oRc), ~O!Stale(oRc, o),
           oRc' = O!Cleaned(O!Retained(oRc, o)), oResult' = o, oControl' = "returned",
           oStale' = (oStale \/ O!Overreleased(O!Retained(oRc, o))),
           UNCHANGED <<oSlot, oScope, oElements, oTry, oExempt>>
    PROVE  RcInv'
<1>. PICK c : c = O!Retained(oRc, o)
  OBVIOUS
<1>1. oRc \in Seq(Nat) /\ Len(oRc) \in Nat
  BY DEF RcInv, OwnerTypes
<1>2. /\ c \in Seq(Nat) /\ Len(c) = Len(oRc)
      /\ \A q \in 1 .. Len(oRc) : q # o => c[q] = oRc[q]
      /\ o # O!Null => c[o] = oRc[o] + 1
  BY <1>1, RetainedIs
<1>3. /\ ~oStale
      /\ \A q : Base(q) \in Nat /\ HeldRefs(q) \in Nat
      /\ \A q \in (1 .. Len(oRc)) \ oExempt : oRc[q] = Base(q) + HeldRefs(q)
  BY RunningExact DEF Exact
<1>4. \A q \in (1 .. Len(oRc)) \ oExempt :
         c[q] = Base(q) + HeldRefs(q) + (IF q = o THEN 1 ELSE 0)
  <2>. SUFFICES ASSUME NEW q \in (1 .. Len(oRc)) \ oExempt
                PROVE  c[q] = Base(q) + HeldRefs(q) + (IF q = o THEN 1 ELSE 0)
    OBVIOUS
  <2>1. q # O!Null
    BY DEF O!Null
  <2>2. oRc[q] = Base(q) + HeldRefs(q) /\ Base(q) \in Nat /\ HeldRefs(q) \in Nat
    BY <1>3
  <2>. QED
    BY <1>2, <2>1, <2>2
<1>5. \A q \in (1 .. Len(oRc)) \ oExempt : c[q] >= HeldRefs(q)
  <2>. SUFFICES ASSUME NEW q \in (1 .. Len(oRc)) \ oExempt PROVE c[q] >= HeldRefs(q)
    OBVIOUS
  <2>1. c[q] = Base(q) + HeldRefs(q) + (IF q = o THEN 1 ELSE 0)
    BY <1>4
  <2>2. Base(q) \in Nat /\ HeldRefs(q) \in Nat
    BY <1>3
  <2>. QED
    BY <2>1, <2>2
<1>6. /\ oRc' \in Seq(Nat) /\ Len(oRc') = Len(oRc)
      /\ \A q \in (1 .. Len(oRc)) \ oExempt : oRc'[q] = c[q] - HeldRefs(q)
  <2>1. oRc' = O!Cleaned(c)
    OBVIOUS
  <2>2. /\ O!Cleaned(c) \in Seq(Nat) /\ Len(O!Cleaned(c)) = Len(c)
        /\ \A q \in 1 .. Len(c) : c[q] >= HeldRefs(q) => O!Cleaned(c)[q] = c[q] - HeldRefs(q)
    BY <1>2, CleanedIs DEF RcInv
  <2>. QED
    BY <1>2, <1>5, <2>1, <2>2
<1>7. OwnerTypes'
  BY <1>6 DEF RcInv, OwnerTypes
<1>8. ParamServed'
  BY DEF RcInv, ParamServed
<1>9. ~oStale'
  <2>1. DOMAIN c = 1 .. Len(oRc)
    BY <1>2
  <2>2. \A q \in 1 .. Len(oRc) : c[q] \in Nat
    BY <1>2
  <2>3. \A q \in DOMAIN c \ oExempt : ~(c[q] < HeldRefs(q))
    BY <1>3, <1>5, <2>1, <2>2
  <2>4. ~O!Overreleased(c)
    BY <2>3, SameSets DEF O!Overreleased, HeldRefs
  <2>. QED
    BY <1>3, <2>4
<1>10. \A q \in (1 .. Len(oRc)) \ oExempt : oRc'[q] = O!Owners(q)'
  <2>. SUFFICES ASSUME NEW q \in (1 .. Len(oRc)) \ oExempt PROVE oRc'[q] = O!Owners(q)'
    OBVIOUS
  <2>1. oRc'[q] = Base(q) + (IF q = o THEN 1 ELSE 0)
    <3>1. oRc'[q] = c[q] - HeldRefs(q)
      BY <1>6
    <3>2. c[q] = Base(q) + HeldRefs(q) + (IF q = o THEN 1 ELSE 0)
      BY <1>4
    <3>3. Base(q) \in Nat /\ HeldRefs(q) \in Nat
      BY <1>3
    <3>. QED
      BY <3>1, <3>2, <3>3
  <2>2. O!Owners(q)' = (IF q = O!Caller THEN 1 ELSE 0) + 0
                       + (IF q \in oElements THEN 1 ELSE 0) + (IF o = q THEN 1 ELSE 0)
    BY DEF O!Owners
  <2>. QED
    BY <2>1, <2>2 DEF Base
<1>11. DOMAIN oRc' = 1 .. Len(oRc)
  BY <1>6
<1>. QED
  BY <1>7, <1>8, <1>9, <1>10, <1>11 DEF RcInv, O!CountsExact

\* return x
LEMMA ReturnStep ==
    ASSUME O!OwnershipAssumption, RcInv, NEW x \in O!Names, O!Return(x)
    PROVE  RcInv'
<1>1. /\ O!Running /\ x \in oScope \cup {Param}
      /\ oRc' = O!Cleaned(O!Retained(oRc, oSlot[x])) /\ oResult' = oSlot[x] /\ oControl' = "returned"
      /\ oStale' = (oStale \/ O!Stale(oRc, oSlot[x]) \/ O!Overreleased(O!Retained(oRc, oSlot[x])))
      /\ UNCHANGED <<oSlot, oScope, oElements, oTry, oExempt>>
  BY DEF O!Return
<1>2. oSlot[x] \in 0 .. Len(oRc)
  BY DEF RcInv, OwnerTypes
<1>3. ~O!Stale(oRc, oSlot[x])
  BY <1>1, Backed DEF O!Stale
<1>4. oStale' = (oStale \/ O!Overreleased(O!Retained(oRc, oSlot[x])))
  BY <1>1, <1>3
<1>. QED
  BY <1>1, <1>2, <1>3, <1>4, Ending

\* The end of the function without a value.
LEMMA ReturnNothingStep ==
    ASSUME O!OwnershipAssumption, RcInv, O!ReturnNothing
    PROVE  RcInv'
<1>1. O!Retained(oRc, O!Null) = oRc /\ ~O!Stale(oRc, O!Null)
  BY DEF O!Retained, O!Stale
<1>2. /\ O!Running /\ oRc' = O!Cleaned(oRc) /\ oControl' = "returned"
      /\ oStale' = (oStale \/ O!Overreleased(oRc))
      /\ UNCHANGED <<oSlot, oScope, oElements, oTry, oResult, oExempt>>
  BY DEF O!ReturnNothing
<1>3. oResult' = O!Null /\ O!Null \in 0 .. Len(oRc)
  BY <1>2 DEF RcInv, OwnerTypes, O!Running, O!Null
<1>. QED
  BY <1>1, <1>2, <1>3, Ending

-----------------------------------------------------------------------------
(* The theorems                                                            *)

\* The function starts with the caller's object and nothing else.
LEMMA RcStart ==
    ASSUME O!OwnershipAssumption, O!Init
    PROVE  RcInv
<1>1. /\ oRc = <<1>> /\ oScope = {} /\ oElements = {} /\ oResult = O!Null
      /\ oControl = "running" /\ oExempt = {} /\ oStale = FALSE
      /\ oSlot = [x \in O!Names |-> IF x = Param THEN O!Caller ELSE O!Null]
  BY DEF O!Init
<1>2. oRc \in Seq(Nat) /\ Len(oRc) = 1 /\ oRc[1] = 1
  BY <1>1
<1>3. OwnerTypes
  BY <1>1, <1>2 DEF OwnerTypes, O!Null, O!Caller
<1>4. ParamServed
  BY <1>1 DEF ParamServed, O!Names
<1>5. \A o : O!Holders(o) = {}
  BY <1>1 DEF O!Holders
<1>6. O!Owners(1) = 1
  BY <1>1, <1>5, SameSets, FS_EmptySet DEF O!Owners, O!Caller
<1>7. DOMAIN oRc = {1}
  BY <1>2
<1>. QED
  BY <1>1, <1>2, <1>3, <1>4, <1>6, <1>7 DEF RcInv, O!CountsExact

\* Every statement of the function keeps the counts exact.
LEMMA RcStep ==
    ASSUME O!OwnershipAssumption, RcInv, [O!Next]_(O!vars)
    PROVE  RcInv'
<1>1. ASSUME O!EnterTry \/ UNCHANGED O!vars PROVE RcInv'
  <2>1. UNCHANGED <<oRc, oSlot, oScope, oElements, oResult, oControl, oExempt, oStale>>
    BY <1>1 DEF O!EnterTry, O!vars
  <2>. QED
    BY <2>1 DEF RcInv, OwnerTypes, ParamServed, O!CountsExact, O!Owners, O!Holders
<1>2. ASSUME NEW x \in Locals,
             \/ \E origin \in O!Origins : O!DeclareFresh(x, origin)
             \/ \E y \in O!Names : O!DeclareCopy(x, y)
             \/ \E o \in oElements : O!DeclareElement(x, o)
      PROVE  RcInv'
  BY <1>2, DeclareFreshStep, DeclareCopyStep, DeclareElementStep
<1>3. ASSUME NEW x \in O!Names,
             \/ \E origin \in O!Origins : O!AssignFresh(x, origin)
             \/ \E o \in oElements \cup {O!Null} : O!AssignUntyped(x, o)
             \/ \E y \in O!Names : O!AssignCopy(x, y)
             \/ O!Delete(x) \/ O!Return(x)
      PROVE  RcInv'
  BY <1>3, AssignFreshStep, AssignUntypedStep, AssignCopyStep, DeleteStep, ReturnStep
<1>4. ASSUME \/ \E o \in oElements : O!LetGo(o)
             \/ \E x \in O!Names : O!StoreVariable(x)
      PROVE  RcInv'
  BY <1>4, ContainerStep
<1>. QED
  BY <1>1, <1>2, <1>3, <1>4, StoreFreshStep, DiscardStep, ReturnNothingStep DEF O!Next

\* The inductive invariant: besides the counts, the parameter refers to the
\* caller's object, to nothing, or to an object that an assignment to the
\* parameter has put out of the scheme's reach (gen_assign, maybe_retain_*).
THEOREM OwnershipConsistent ==
    ASSUME O!OwnershipAssumption
    PROVE  O!Spec => []RcInv
<1>1. O!Init => RcInv
  BY RcStart
<1>2. RcInv /\ [O!Next]_(O!vars) => RcInv'
  BY RcStep
<1>. QED
  BY <1>1, <1>2, PTL DEF O!Spec

\* After every statement the count of an object that met none of the forms of `exempt'
\* is the number of its owners, for any locals and any number of objects: it is not
\* freed while it is referred to, not released twice, and not leaked (env_pop,
\* gen_return).  What a container shares with a variable, the elements it lets go and
\* fresh values that nothing keeps are among those forms.
THEOREM ReferenceCountsExact ==
    ASSUME O!OwnershipAssumption
    PROVE  O!Spec => []O!CountsExact
<1>1. RcInv => O!CountsExact
  BY DEF RcInv
<1>. QED
  BY <1>1, OwnershipConsistent, PTL
-----------------------------------------------------------------------------
(* The walk of semantic analysis                                           *)

Kinds == S!Scoping \cup {"while", "switch", "unsafe", "defer", "await", "program"}
FlagSet == [loop : BOOLEAN, await : BOOLEAN, unsafe : BOOLEAN,
            ret : S!Results \cup {"void", "unknown"}]
Constructs == [kind : Kinds, x : S!Variable, result : S!Results \cup {"void"}, saved : FlagSet]
ScopeRecords == [x : S!Variable, this : BOOLEAN]

WalkTypes ==
    /\ sOpen \in Seq(Constructs) /\ Len(sOpen) >= 1
    /\ sFlags \in FlagSet
    /\ sScopes \in Seq(ScopeRecords) /\ Len(sScopes) >= 1

\* Constructs with a scope of their own.
Opening == S!Scoping \cup {"program"}
\* Constructs that set the type of a return.
Returning == S!Functions \cup {"lambda", "program"}

\* The program is outermost, and only constructs with a scope declare x.
Nested ==
    /\ sOpen[1].kind = "program" /\ sOpen[1].result = "void"
    /\ \A i \in 2 .. Len(sOpen) : sOpen[i].kind # "program" /\ sOpen[i].result \in S!Results
    /\ \A i \in 1 .. Len(sOpen) : sOpen[i].x # "none" => sOpen[i].kind \in Opening

\* The flags inside the i-th construct.
FlagsIn(i) == IF i = Len(sOpen) THEN sFlags ELSE sOpen[i + 1].saved

\* The result type that a return in construct c, the innermost of its kind, is held to.
Expected(c) ==
    IF c.kind = "program" THEN "void" ELSE IF c.kind = "lambda" THEN "unknown" ELSE c.result

FlagsRight(i) ==
    /\ FlagsIn(i).loop <=> \E j \in 1 .. i : sOpen[j].kind \in S!Looping
    /\ FlagsIn(i).await <=> \E j \in 1 .. i : sOpen[j].kind = "await"
    /\ FlagsIn(i).unsafe <=> \E j \in 1 .. i : sOpen[j].kind = "unsafe"
    /\ \E j \in 1 .. i : /\ sOpen[j].kind \in Returning
                         /\ \A l \in (j + 1) .. i : sOpen[l].kind \notin Returning
                         /\ FlagsIn(i).ret = Expected(sOpen[j])

\* h[a] is the construct that the a-th scope belongs to.
Homes(h) ==
    /\ h \in [1 .. Len(sScopes) -> 1 .. Len(sOpen)]
    /\ \A a, b \in 1 .. Len(sScopes) : a < b => h[a] < h[b]
    /\ \A i \in 1 .. Len(sOpen) :
           sOpen[i].kind \in Opening <=> \E a \in 1 .. Len(sScopes) : h[a] = i
    /\ \A a \in 1 .. Len(sScopes) :
           /\ sScopes[a].x = sOpen[h[a]].x
           /\ sScopes[a].this <=> sOpen[h[a]].kind = "method"

WalkInv ==
    /\ WalkTypes /\ Nested
    /\ \A i \in 1 .. Len(sOpen) : FlagsRight(i)
    /\ \E h : Homes(h)

LEMMA WalkElements ==
    ASSUME WalkTypes
    PROVE  /\ Len(sOpen) \in Nat /\ Len(sScopes) \in Nat
           /\ DOMAIN sOpen = 1 .. Len(sOpen) /\ DOMAIN sScopes = 1 .. Len(sScopes)
           /\ \A i \in 1 .. Len(sOpen) : sOpen[i] \in Constructs
           /\ \A a \in 1 .. Len(sScopes) : sScopes[a] \in ScopeRecords
BY DEF WalkTypes

LEMMA KindFacts ==
    /\ S!Functions \subseteq S!Scoping /\ S!Binding \subseteq S!Scoping
    /\ "program" \notin S!Scoping /\ "method" \in S!Scoping
    /\ "lambda" \notin S!Functions /\ "program" \notin S!Functions
    /\ "program" \notin S!Looping
BY DEF S!Functions, S!Binding, S!Scoping, S!Looping

\* The innermost construct with a scope is that of the innermost scope.
LEMMA HomeIs ==
    ASSUME WalkTypes, Nested, NEW h, Homes(h)
    PROVE  S!Home = h[Len(sScopes)]
<1>1. PICK n \in Nat, m \in Nat : n = Len(sOpen) /\ m = Len(sScopes) /\ n >= 1 /\ m >= 1
  BY WalkElements DEF WalkTypes
<1>2. h \in [1 .. m -> 1 .. n]
  BY <1>1 DEF Homes
<1>3. h[m] \in 1 .. n
  BY <1>1, <1>2
<1>4. sOpen[h[m]].kind \in Opening
  BY <1>1, <1>3 DEF Homes
<1>5. ASSUME NEW j \in 1 .. n, sOpen[j].kind \in Opening PROVE j <= h[m]
  <2>1. PICK a \in 1 .. m : h[a] = j
    BY <1>1, <1>5 DEF Homes
  <2>2. a < m => h[a] < h[m]
    BY <1>1 DEF Homes
  <2>. QED
    BY <1>1, <1>3, <2>1, <2>2
<1>6. \A j \in h[m] + 1 .. n : sOpen[j].kind \notin S!Scoping
  BY <1>1, <1>3, <1>5 DEF Opening
<1>7. ASSUME NEW i \in 1 .. n, sOpen[i].kind \in Opening,
             \A j \in i + 1 .. n : sOpen[j].kind \notin S!Scoping
      PROVE  i = h[m]
  <2>1. i <= h[m]
    BY <1>5, <1>7
  <2>2. SUFFICES ASSUME i < h[m] PROVE FALSE
    BY <1>3, <2>1
  <2>3. h[m] \in i + 1 .. n /\ h[m] \in 2 .. n
    BY <1>3, <2>2
  <2>4. sOpen[h[m]].kind \notin S!Scoping /\ sOpen[h[m]].kind # "program"
    BY <1>1, <1>7, <2>3 DEF Nested
  <2>. QED
    BY <1>4, <2>4 DEF Opening
<1>8. S!Home = CHOOSE i \in 1 .. n : /\ sOpen[i].kind \in Opening
                                     /\ \A j \in i + 1 .. n : sOpen[j].kind \notin S!Scoping
  BY <1>1, WalkElements DEF S!Home, Opening
<1>. QED
  BY <1>1, <1>3, <1>4, <1>6, <1>7, <1>8

\* The innermost scope that declares x is that of the innermost construct that does.
LEMMA Innermost ==
    ASSUME WalkTypes, Nested, NEW h, Homes(h), S!xKnown
    PROVE  \E a \in 1 .. Len(sScopes) :
              /\ S!xFound = sScopes[a].x
              /\ S!Innermost(LAMBDA c : c.x # "none") = sOpen[h[a]]
<1>1. PICK n \in Nat, m \in Nat : n = Len(sOpen) /\ m = Len(sScopes) /\ n >= 1 /\ m >= 1
  BY WalkElements DEF WalkTypes
<1>2. h \in [1 .. m -> 1 .. n]
  BY <1>1 DEF Homes
<1>3. PICK b \in 1 .. m : sScopes[b].x # "none"
  BY <1>1, WalkElements DEF S!xKnown
<1>. DEFINE Behind == {m - a : a \in {b1 \in 1 .. m : sScopes[b1].x # "none"}}
<1>4. Behind \in SUBSET Nat /\ m - b \in Behind
  BY <1>3
<1>5. Min(Behind) \in Behind /\ \A y \in Behind : Min(Behind) <= y
  <2>. HIDE DEF Behind
  <2>. QED
    BY <1>4, Least
<1>6. PICK a \in 1 .. m : sScopes[a].x # "none" /\ Min(Behind) = m - a
  BY <1>5
<1>7. ASSUME NEW c \in 1 .. m, sScopes[c].x # "none" PROVE c <= a
  <2>1. m - c \in Behind
    BY <1>7
  <2>2. m - a <= m - c
    BY <1>5, <1>6, <2>1
  <2>. QED
    BY <2>2
<1>8. S!xFound = sScopes[a].x
  <2>1. a = CHOOSE i \in 1 .. m : sScopes[i].x # "none" /\ \A j \in i + 1 .. m : sScopes[j].x = "none"
    <3>1. \A j \in a + 1 .. m : sScopes[j].x = "none"
      BY <1>7
    <3>2. ASSUME NEW i \in 1 .. m, sScopes[i].x # "none", \A j \in i + 1 .. m : sScopes[j].x = "none"
          PROVE  i = a
      <4>1. i <= a
        BY <1>7, <3>2
      <4>2. ~(i < a)
        BY <1>6, <3>2
      <4>. QED
        BY <4>1, <4>2
    <3>. QED
      BY <1>6, <3>1, <3>2
  <2>. QED
    BY <1>1, <2>1, WalkElements DEF S!xFound
<1>9. h[a] \in 1 .. n /\ sOpen[h[a]].x # "none"
  BY <1>1, <1>2, <1>6 DEF Homes
<1>10. ASSUME NEW j \in 1 .. n, sOpen[j].x # "none" PROVE j <= h[a]
  <2>1. sOpen[j].kind \in Opening
    BY <1>1, <1>10 DEF Nested
  <2>2. PICK c \in 1 .. m : h[c] = j
    BY <1>1, <2>1 DEF Homes
  <2>3. c <= a
    BY <1>1, <1>7, <1>10, <2>2 DEF Homes
  <2>4. c < a => h[c] < h[a]
    BY <1>1 DEF Homes
  <2>. QED
    BY <1>9, <2>2, <2>3, <2>4
<1>11. S!Innermost(LAMBDA c : c.x # "none") = sOpen[h[a]]
  <2>1. S!Innermost(LAMBDA c : c.x # "none") =
            sOpen[CHOOSE i \in 1 .. n : sOpen[i].x # "none" /\ \A j \in i + 1 .. n : ~(sOpen[j].x # "none")]
    BY <1>1, WalkElements DEF S!Innermost
  <2>2. \A j \in h[a] + 1 .. n : ~(sOpen[j].x # "none")
    BY <1>9, <1>10
  <2>3. ASSUME NEW i \in 1 .. n, sOpen[i].x # "none", \A j \in i + 1 .. n : ~(sOpen[j].x # "none")
        PROVE  i = h[a]
    <3>1. i <= h[a]
      BY <1>10, <2>3
    <3>2. ~(i < h[a])
      BY <1>9, <2>3
    <3>. QED
      BY <1>9, <3>1, <3>2
  <2>. QED
    BY <1>9, <2>1, <2>2, <2>3
<1>. QED
  BY <1>1, <1>8, <1>11

\* With the invariant, each verdict is the one the text calls for.
LEMMA VerdictsRight == WalkInv => S!JudgedByContext
<1>. SUFFICES ASSUME WalkInv PROVE S!JudgedByContext
  OBVIOUS
<1>. USE DEF WalkInv
<1>1. PICK n \in Nat, m \in Nat : n = Len(sOpen) /\ m = Len(sScopes) /\ n >= 1 /\ m >= 1
  BY WalkElements DEF WalkTypes
<1>2. PICK h : Homes(h)
  OBVIOUS
<1>3. h \in [1 .. m -> 1 .. n]
  BY <1>1, <1>2 DEF Homes
<1>4. FlagsRight(n) /\ FlagsIn(n) = sFlags
  BY <1>1 DEF FlagsIn
<1>5. /\ sFlags.loop <=> \E j \in 1 .. n : sOpen[j].kind \in S!Looping
      /\ sFlags.await <=> \E j \in 1 .. n : sOpen[j].kind = "await"
      /\ sFlags.unsafe <=> \E j \in 1 .. n : sOpen[j].kind = "unsafe"
  BY <1>4 DEF FlagsRight
<1>6. DOMAIN sOpen = 1 .. n /\ DOMAIN sScopes = 1 .. m
  BY <1>1, WalkElements
<1>7. S!xKnown <=> \E i \in 1 .. n : sOpen[i].x # "none"
  <2>1. ASSUME S!xKnown PROVE \E i \in 1 .. n : sOpen[i].x # "none"
    <3>1. PICK a \in 1 .. m : sScopes[a].x # "none"
      BY <1>6, <2>1 DEF S!xKnown
    <3>2. h[a] \in 1 .. n /\ sOpen[h[a]].x # "none"
      BY <1>1, <1>2, <1>3, <3>1 DEF Homes
    <3>. QED
      BY <3>2
  <2>2. ASSUME NEW i \in 1 .. n, sOpen[i].x # "none" PROVE S!xKnown
    <3>1. PICK a \in 1 .. m : h[a] = i
      BY <1>1, <1>2, <2>2 DEF Homes, Nested
    <3>. QED
      BY <1>1, <1>2, <1>6, <2>2, <3>1 DEF Homes, S!xKnown
  <2>. QED
    BY <2>1, <2>2
<1>8. S!Free <=> sOpen[S!Home].x = "none"
  <2>1. S!Last(sScopes) = sScopes[m]
    BY <1>1 DEF S!Last
  <2>2. S!Home = h[m]
    BY <1>1, <1>2, HomeIs
  <2>3. sScopes[m].x = sOpen[h[m]].x
    BY <1>1, <1>2 DEF Homes
  <2>. QED
    BY <2>1, <2>2, <2>3 DEF S!Free
<1>9. S!thisKnown <=> \E i \in 1 .. n : sOpen[i].kind = "method"
  <2>1. ASSUME S!thisKnown PROVE \E i \in 1 .. n : sOpen[i].kind = "method"
    <3>1. PICK a \in 1 .. m : sScopes[a].this
      BY <1>6, <2>1 DEF S!thisKnown
    <3>2. h[a] \in 1 .. n /\ sOpen[h[a]].kind = "method"
      BY <1>1, <1>2, <1>3, <3>1 DEF Homes
    <3>. QED
      BY <3>2
  <2>2. ASSUME NEW i \in 1 .. n, sOpen[i].kind = "method" PROVE S!thisKnown
    <3>1. PICK a \in 1 .. m : h[a] = i
      BY <1>1, <1>2, <2>2, KindFacts DEF Homes, Opening
    <3>. QED
      BY <1>1, <1>2, <1>6, <2>2, <3>1 DEF Homes, S!thisKnown
  <2>. QED
    BY <2>1, <2>2
<1>10. m = 1 <=> ~\E i \in 1 .. n : sOpen[i].kind \in S!Scoping
  <2>1. ASSUME m # 1 PROVE \E i \in 1 .. n : sOpen[i].kind \in S!Scoping
    <3>1. h[1] < h[2] /\ h[1] \in 1 .. n /\ h[2] \in 1 .. n
      BY <1>1, <1>2, <1>3, <2>1 DEF Homes
    <3>2. sOpen[h[2]].kind \in Opening /\ h[2] \in 2 .. n
      BY <1>1, <1>2, <2>1, <3>1 DEF Homes
    <3>3. sOpen[h[2]].kind \in S!Scoping
      BY <1>1, <3>2 DEF Nested, Opening
    <3>. QED
      BY <3>1, <3>3
  <2>2. ASSUME NEW i \in 1 .. n, sOpen[i].kind \in S!Scoping PROVE m # 1
    <3>1. i # 1 /\ sOpen[1].kind \in Opening
      BY <2>2, KindFacts DEF Nested, Opening
    <3>2. PICK a \in 1 .. m : h[a] = i
      BY <1>1, <1>2, <2>2 DEF Homes, Opening
    <3>3. PICK b \in 1 .. m : h[b] = 1
      BY <1>1, <1>2, <3>1 DEF Homes
    <3>. QED
      BY <3>1, <3>2, <3>3
  <2>. QED
    BY <2>1, <2>2
<1>11. S!Accepts("break") <=> S!Allowed("break")
  <2>1. S!Accepts("break") <=> sFlags.loop
    BY DEF S!Accepts
  <2>2. S!Allowed("break") <=> \E i \in DOMAIN sOpen : sOpen[i].kind \in S!Looping
    BY DEF S!Allowed, S!Within
  <2>. QED
    BY <1>5, <1>6, <2>1, <2>2
<1>12. S!Accepts("async call") <=> S!Allowed("async call")
  <2>1. S!Accepts("async call") <=> sFlags.await
    BY DEF S!Accepts
  <2>2. S!Allowed("async call") <=> \E i \in DOMAIN sOpen : sOpen[i].kind \in {"await"}
    BY DEF S!Allowed, S!Within
  <2>. QED
    BY <1>5, <1>6, <2>1, <2>2
<1>13. S!Accepts("reinterpret") <=> S!Allowed("reinterpret")
  <2>1. S!Accepts("reinterpret") <=> sFlags.unsafe
    BY DEF S!Accepts
  <2>2. S!Allowed("reinterpret") <=> \E i \in DOMAIN sOpen : sOpen[i].kind \in {"unsafe"}
    BY DEF S!Allowed, S!Within
  <2>. QED
    BY <1>5, <1>6, <2>1, <2>2
<1>14. S!Accepts("return int") <=> S!Allowed("return int")
  <2>. DEFINE Frame == S!Innermost(LAMBDA c : c.kind \in S!Functions \union {"lambda", "program"})
  <2>1. S!Accepts("return int") <=> sFlags.ret \in {"int", "unknown"}
    BY DEF S!Accepts
  <2>2. S!Allowed("return int") <=> Frame.kind = "lambda" \/ Frame.result = "int"
    BY DEF S!Allowed
  <2>3. PICK j \in 1 .. n : /\ sOpen[j].kind \in Returning
                            /\ \A l \in (j + 1) .. n : sOpen[l].kind \notin Returning
                            /\ sFlags.ret = Expected(sOpen[j])
    BY <1>4 DEF FlagsRight
  <2>4. Frame = sOpen[j]
    <3>1. Frame = sOpen[CHOOSE i \in 1 .. n : /\ sOpen[i].kind \in Returning
                                              /\ \A l \in i + 1 .. n : ~(sOpen[l].kind \in Returning)]
      BY <1>1, <1>6 DEF S!Innermost, Returning
    <3>2. ASSUME NEW i \in 1 .. n, sOpen[i].kind \in Returning,
                 \A l \in i + 1 .. n : ~(sOpen[l].kind \in Returning)
          PROVE  i = j
      <4>1. ~(i < j)
        BY <2>3, <3>2
      <4>2. ~(j < i)
        BY <2>3, <3>2
      <4>. QED
        BY <4>1, <4>2
    <3>. QED
      BY <2>3, <3>1, <3>2
  <2>. HIDE DEF Frame
  <2>5. CASE sOpen[j].kind = "program"
    <3>1. j = 1
      BY <1>1, <2>5 DEF Nested
    <3>2. Expected(sOpen[j]) = "void" /\ sOpen[j].result = "void"
      BY <2>5, <3>1 DEF Expected, Nested
    <3>. QED
      BY <2>1, <2>2, <2>3, <2>4, <2>5, <3>2
  <2>6. CASE sOpen[j].kind = "lambda"
    <3>1. Expected(sOpen[j]) = "unknown"
      BY <2>6 DEF Expected
    <3>. QED
      BY <2>1, <2>2, <2>3, <2>4, <2>6, <3>1
  <2>7. CASE sOpen[j].kind \notin {"program", "lambda"}
    <3>1. Expected(sOpen[j]) = sOpen[j].result
      BY <2>7 DEF Expected
    <3>2. j # 1
      BY <2>7 DEF Nested
    <3>3. sOpen[j].result \in {"int", "str"}
      BY <1>1, <3>2 DEF Nested, S!Results
    <3>. QED
      BY <2>1, <2>2, <2>3, <2>4, <2>7, <3>1, <3>3
  <2>. QED
    BY <2>5, <2>6, <2>7
<1>15. S!Accepts("this") <=> S!Allowed("this")
  <2>1. S!Accepts("this") <=> S!thisKnown
    BY DEF S!Accepts
  <2>2. S!Allowed("this") <=> \E i \in DOMAIN sOpen : sOpen[i].kind \in {"method"}
    BY DEF S!Allowed, S!Within
  <2>. QED
    BY <1>6, <1>9, <2>1, <2>2
<1>16. S!Accepts("use") <=> S!Allowed("use")
  <2>1. S!Accepts("use") <=> S!xKnown
    BY DEF S!Accepts
  <2>2. S!Allowed("use") <=> \E i \in DOMAIN sOpen : sOpen[i].x # "none"
    BY DEF S!Allowed
  <2>. QED
    BY <1>6, <1>7, <2>1, <2>2
<1>17. S!Accepts("assign") <=> S!Allowed("assign")
  <2>. DEFINE Declared == S!Innermost(LAMBDA c : c.x # "none")
  <2>1. S!Accepts("assign") <=> (S!xKnown => S!xFound # "const")
    BY DEF S!Accepts
  <2>2. S!Allowed("assign") <=> ((\E i \in DOMAIN sOpen : sOpen[i].x # "none") => Declared.x # "const")
    BY DEF S!Allowed
  <2>3. ASSUME S!xKnown PROVE S!xFound = Declared.x
    <3>1. PICK a \in 1 .. m : S!xFound = sScopes[a].x /\ Declared = sOpen[h[a]]
      BY <1>1, <1>2, <2>3, Innermost
    <3>. HIDE DEF Declared
    <3>. QED
      BY <1>1, <1>2, <3>1 DEF Homes
  <2>. HIDE DEF Declared
  <2>. QED
    BY <1>6, <1>7, <2>1, <2>2, <2>3
<1>18. S!Accepts("declare") <=> S!Allowed("declare")
  <2>1. S!Accepts("declare") <=> S!Free
    BY DEF S!Accepts
  <2>2. S!Allowed("declare") <=> sOpen[S!Home].x = "none"
    BY DEF S!Allowed
  <2>. QED
    BY <1>8, <2>1, <2>2
<1>19. S!Accepts("thread_local") <=> S!Allowed("thread_local")
  <2>1. S!Accepts("thread_local") <=> S!Free /\ Len(sScopes) = 1
    BY DEF S!Accepts
  <2>2. S!Allowed("thread_local") <=>
            sOpen[S!Home].x = "none" /\ ~\E i \in DOMAIN sOpen : sOpen[i].kind \in S!Scoping
    BY DEF S!Allowed, S!Within
  <2>. QED
    BY <1>1, <1>6, <1>8, <1>10, <2>1, <2>2
<1>20. S!Leaves \union {"assign", "declare", "thread_local"} =
           {"break", "async call", "reinterpret", "return int", "this", "use", "assign", "declare", "thread_local"}
  BY DEF S!Leaves, S!Expressions
<1>. QED
  BY <1>11, <1>12, <1>13, <1>14, <1>15, <1>16, <1>17, <1>18, <1>19, <1>20 DEF S!JudgedByContext

\* At the start the walk is in the program.
LEMMA WalkStart == S!Init => WalkInv
<1>. SUFFICES ASSUME S!Init PROVE WalkInv
  OBVIOUS
<1>1. sFlags = [loop |-> FALSE, await |-> FALSE, unsafe |-> FALSE, ret |-> "void"] /\ sFlags \in FlagSet
  BY DEF S!Init, FlagSet
<1>2. PICK c : c = [kind |-> "program", x |-> "none", result |-> "void", saved |-> sFlags]
  OBVIOUS
<1>3. c \in Constructs
  BY <1>1, <1>2 DEF Constructs, Kinds, S!Variable
<1>4. PICK s : s = [x |-> "none", this |-> FALSE]
  OBVIOUS
<1>5. s \in ScopeRecords
  BY <1>4 DEF ScopeRecords, S!Variable
<1>6. sOpen = <<c>> /\ sScopes = <<s>>
  BY <1>2, <1>4 DEF S!Init
<1>7. Len(sOpen) = 1 /\ sOpen[1] = c /\ Len(sScopes) = 1 /\ sScopes[1] = s
  BY <1>6
<1>8. WalkTypes
  BY <1>1, <1>3, <1>5, <1>6 DEF WalkTypes
<1>9. c.kind = "program" /\ c.x = "none" /\ c.result = "void"
  BY <1>2
<1>10. Nested
  BY <1>7, <1>9 DEF Nested
<1>11. FlagsRight(1)
  <2>1. FlagsIn(1) = sFlags
    BY <1>7 DEF FlagsIn
  <2>2. Expected(c) = "void"
    BY <1>9 DEF Expected
  <2>. QED
    BY <1>1, <1>7, <1>9, <2>1, <2>2, KindFacts DEF FlagsRight, Returning
<1>12. Homes([a \in 1 .. 1 |-> 1])
  <2>1. s.x = "none" /\ ~s.this
    BY <1>4
  <2>. QED
    BY <1>7, <1>9, <2>1 DEF Homes, Opening
<1>. QED
  BY <1>7, <1>8, <1>10, <1>11, <1>12 DEF WalkInv

\* What an entry does, in plain terms.
LEMMA EnterIs ==
    ASSUME WalkTypes, S!Enter
    PROVE  \E k \in Kinds \ {"program"}, x \in S!Variable, r \in S!Results :
              /\ x # "none" => k \in S!Scoping
              /\ sOpen' = Append(sOpen, [kind |-> k, x |-> x, result |-> r, saved |-> sFlags])
              /\ sFlags' = S!Inside(k, r)
              /\ IF k \in S!Scoping
                 THEN sScopes' = Append(sScopes, [x |-> x, this |-> k = "method"])
                 ELSE sScopes' = sScopes
<1>1. PICK k \in S!MayHold(S!Here), x \in {"none", "variable"}, r \in S!Results :
         /\ x # "none" => k \in S!Binding
         /\ sOpen' = Append(sOpen, [kind |-> k, x |-> x, result |-> r, saved |-> sFlags])
         /\ sFlags' = S!Inside(k, r)
         /\ IF k \in S!Scoping THEN S!push(x, k = "method") ELSE UNCHANGED sScopes
  BY DEF S!Enter
<1>2. k \in Kinds \ {"program"}
  BY DEF S!MayHold, Kinds, S!Scoping, S!Functions, S!Statements
<1>3. x \in S!Variable
  BY DEF S!Variable
<1>4. x # "none" => k \in S!Scoping
  BY <1>1, KindFacts
<1>. QED
  BY <1>1, <1>2, <1>3, <1>4 DEF S!push

\* Entering a construct.
LEMMA EnterStep == WalkInv /\ S!Enter => WalkInv'
<1>. SUFFICES ASSUME WalkInv, S!Enter PROVE WalkInv'
  OBVIOUS
<1>1. PICK n \in Nat, m \in Nat : n = Len(sOpen) /\ m = Len(sScopes) /\ n >= 1 /\ m >= 1
  BY WalkElements DEF WalkTypes, WalkInv
<1>2. PICK k \in Kinds \ {"program"}, x \in S!Variable, r \in S!Results :
              /\ x # "none" => k \in S!Scoping
              /\ sOpen' = Append(sOpen, [kind |-> k, x |-> x, result |-> r, saved |-> sFlags])
              /\ sFlags' = S!Inside(k, r)
              /\ IF k \in S!Scoping
                 THEN sScopes' = Append(sScopes, [x |-> x, this |-> k = "method"])
                 ELSE sScopes' = sScopes
  BY EnterIs DEF WalkInv
<1>3. PICK c : c = [kind |-> k, x |-> x, result |-> r, saved |-> sFlags]
  OBVIOUS
<1>4. c.kind = k /\ c.x = x /\ c.result = r /\ c.saved = sFlags
  BY <1>3
<1>5. sFlags \in FlagSet /\ sOpen \in Seq(Constructs) /\ sScopes \in Seq(ScopeRecords)
  BY DEF WalkInv, WalkTypes
<1>6. c \in Constructs
  BY <1>3, <1>5 DEF Constructs
<1>7. /\ sOpen' \in Seq(Constructs) /\ Len(sOpen') = n + 1
      /\ \A i \in 1 .. n : sOpen'[i] = sOpen[i]
      /\ sOpen'[n + 1] = c
  BY <1>1, <1>2, <1>3, <1>5, <1>6
<1>8. /\ sFlags'.loop <=> sFlags.loop \/ k \in S!Looping
      /\ sFlags'.await <=> sFlags.await \/ k = "await"
      /\ sFlags'.unsafe <=> sFlags.unsafe \/ k = "unsafe"
      /\ sFlags'.ret = IF k \in S!Functions THEN r ELSE IF k = "lambda" THEN "unknown" ELSE sFlags.ret
  BY <1>2 DEF S!Inside
<1>9. sFlags' \in FlagSet
  <2>1. sFlags.loop \in BOOLEAN /\ sFlags.await \in BOOLEAN /\ sFlags.unsafe \in BOOLEAN
        /\ sFlags.ret \in S!Results \cup {"void", "unknown"}
    BY <1>5 DEF FlagSet
  <2>. QED
    BY <1>2, <2>1 DEF S!Inside, FlagSet
<1>10. PICK s : s = [x |-> x, this |-> k = "method"]
  OBVIOUS
<1>11. s \in ScopeRecords /\ s.x = x /\ (s.this <=> k = "method")
  BY <1>10 DEF ScopeRecords
<1>12. WalkTypes'
  <2>1. sScopes' = Append(sScopes, s) \/ sScopes' = sScopes
    BY <1>2, <1>10
  <2>2. sScopes' \in Seq(ScopeRecords) /\ Len(sScopes') >= 1
    BY <1>1, <1>5, <1>11, <2>1
  <2>. QED
    BY <1>1, <1>7, <1>9, <2>2 DEF WalkTypes
<1>13. Nested'
  <2>1. Nested
    BY DEF WalkInv
  <2>2. sOpen'[1].kind = "program" /\ sOpen'[1].result = "void"
    BY <1>1, <1>7, <2>1 DEF Nested
  <2>3. ASSUME NEW i \in 2 .. n + 1 PROVE sOpen'[i].kind # "program" /\ sOpen'[i].result \in S!Results
    <3>1. CASE i = n + 1
      BY <1>2, <1>4, <1>7, <3>1
    <3>2. CASE i # n + 1
      <4>1. i \in 2 .. n /\ i \in 1 .. n
        BY <1>1, <3>2
      <4>. QED
        BY <1>1, <1>7, <2>1, <4>1 DEF Nested
    <3>. QED
      BY <3>1, <3>2
  <2>4. ASSUME NEW i \in 1 .. n + 1, sOpen'[i].x # "none" PROVE sOpen'[i].kind \in Opening
    <3>1. CASE i = n + 1
      BY <1>2, <1>4, <1>7, <2>4, <3>1 DEF Opening
    <3>2. CASE i # n + 1
      <4>1. i \in 1 .. n
        BY <1>1, <3>2
      <4>. QED
        BY <1>1, <1>7, <2>1, <2>4, <4>1 DEF Nested
    <3>. QED
      BY <3>1, <3>2
  <2>. QED
    BY <1>7, <2>2, <2>3, <2>4 DEF Nested
<1>14. ASSUME NEW i \in 1 .. n PROVE FlagsRight(i)'
  <2>1. FlagsIn(i)' = FlagsIn(i)
    <3>1. CASE i = n
      <4>1. FlagsIn(i)' = sOpen'[n + 1].saved /\ FlagsIn(i) = sFlags
        BY <1>1, <1>7, <3>1 DEF FlagsIn
      <4>. QED
        BY <1>4, <1>7, <4>1
    <3>2. CASE i # n
      <4>1. i + 1 \in 1 .. n
        BY <1>1, <3>2
      <4>2. FlagsIn(i)' = sOpen'[i + 1].saved /\ FlagsIn(i) = sOpen[i + 1].saved
        BY <1>1, <1>7, <3>2 DEF FlagsIn
      <4>. QED
        BY <1>7, <4>1, <4>2
    <3>. QED
      BY <3>1, <3>2
  <2>2. \A j \in 1 .. i : sOpen'[j] = sOpen[j]
    BY <1>1, <1>7
  <2>3. FlagsRight(i)
    BY <1>1 DEF WalkInv
  <2>4. PICK j \in 1 .. i : /\ sOpen[j].kind \in Returning
                            /\ \A l \in (j + 1) .. i : sOpen[l].kind \notin Returning
                            /\ FlagsIn(i).ret = Expected(sOpen[j])
    BY <2>3 DEF FlagsRight
  <2>5. /\ sOpen'[j].kind \in Returning
        /\ \A l \in (j + 1) .. i : sOpen'[l].kind \notin Returning
        /\ FlagsIn(i)'.ret = Expected(sOpen'[j])
    BY <2>1, <2>2, <2>4
  <2>6. /\ FlagsIn(i)'.loop <=> \E l \in 1 .. i : sOpen'[l].kind \in S!Looping
        /\ FlagsIn(i)'.await <=> \E l \in 1 .. i : sOpen'[l].kind = "await"
        /\ FlagsIn(i)'.unsafe <=> \E l \in 1 .. i : sOpen'[l].kind = "unsafe"
    BY <2>1, <2>2, <2>3 DEF FlagsRight
  <2>. QED
    BY <2>5, <2>6 DEF FlagsRight, Expected
<1>15. FlagsRight(n + 1)'
  <2>1. FlagsIn(n + 1)' = sFlags'
    BY <1>7 DEF FlagsIn
  <2>2. FlagsRight(n) /\ FlagsIn(n) = sFlags
    BY <1>1 DEF WalkInv, FlagsIn
  <2>3. \A P : (\E j \in 1 .. n + 1 : sOpen'[j].kind \in P) <=> (\E j \in 1 .. n : sOpen[j].kind \in P) \/ k \in P
    <3>1. n + 1 \in 1 .. n + 1 /\ \A j \in 1 .. n + 1 : j = n + 1 \/ j \in 1 .. n
      BY <1>1
    <3>2. \A j \in 1 .. n : j \in 1 .. n + 1
      BY <1>1
    <3>. QED
      BY <1>4, <1>7, <3>1, <3>2
  <2>4. sFlags'.loop <=> \E j \in 1 .. n + 1 : sOpen'[j].kind \in S!Looping
    BY <1>8, <2>2, <2>3 DEF FlagsRight
  <2>5. sFlags'.await <=> \E j \in 1 .. n + 1 : sOpen'[j].kind = "await"
    <3>1. (\E j \in 1 .. n + 1 : sOpen'[j].kind \in {"await"}) <=> (\E j \in 1 .. n : sOpen[j].kind \in {"await"}) \/ k \in {"await"}
      BY <2>3
    <3>. QED
      BY <1>8, <2>2, <3>1 DEF FlagsRight
  <2>6. sFlags'.unsafe <=> \E j \in 1 .. n + 1 : sOpen'[j].kind = "unsafe"
    <3>1. (\E j \in 1 .. n + 1 : sOpen'[j].kind \in {"unsafe"}) <=> (\E j \in 1 .. n : sOpen[j].kind \in {"unsafe"}) \/ k \in {"unsafe"}
      BY <2>3
    <3>. QED
      BY <1>8, <2>2, <3>1 DEF FlagsRight
  <2>7. \E j \in 1 .. n + 1 : /\ sOpen'[j].kind \in Returning
                              /\ \A l \in (j + 1) .. n + 1 : sOpen'[l].kind \notin Returning
                              /\ sFlags'.ret = Expected(sOpen'[j])
    <3>1. CASE k \in Returning
      <4>1. sFlags'.ret = Expected(c)
        BY <1>2, <1>4, <1>8, <3>1, KindFacts DEF Returning, Expected
      <4>2. \A l \in (n + 1) + 1 .. n + 1 : FALSE
        BY <1>1
      <4>3. n + 1 \in 1 .. n + 1
        BY <1>1
      <4>. QED
        BY <1>4, <1>7, <3>1, <4>1, <4>2, <4>3
    <3>2. CASE k \notin Returning
      <4>1. PICK j \in 1 .. n : /\ sOpen[j].kind \in Returning
                                /\ \A l \in (j + 1) .. n : sOpen[l].kind \notin Returning
                                /\ sFlags.ret = Expected(sOpen[j])
        BY <2>2 DEF FlagsRight
      <4>2. sFlags'.ret = sFlags.ret
        BY <1>8, <3>2 DEF Returning
      <4>3. ASSUME NEW l \in (j + 1) .. n + 1 PROVE sOpen'[l].kind \notin Returning
        <5>1. CASE l = n + 1
          BY <1>4, <1>7, <3>2, <5>1
        <5>2. CASE l # n + 1
          <6>1. l \in (j + 1) .. n /\ l \in 1 .. n
            BY <1>1, <5>2
          <6>. QED
            BY <1>7, <4>1, <6>1
        <5>. QED
          BY <5>1, <5>2
      <4>4. j \in 1 .. n + 1 /\ sOpen'[j] = sOpen[j]
        BY <1>1, <1>7
      <4>. QED
        BY <4>1, <4>2, <4>3, <4>4
    <3>. QED
      BY <3>1, <3>2
  <2>. QED
    BY <2>1, <2>4, <2>5, <2>6, <2>7 DEF FlagsRight, Expected
<1>16. \E h : Homes(h)'
  <2>1. PICK h : Homes(h)
    BY DEF WalkInv
  <2>2. h \in [1 .. m -> 1 .. n]
    BY <1>1, <2>1 DEF Homes
  <2>3. CASE k \in S!Scoping
    <3>1. /\ Len(sScopes') = m + 1 /\ sScopes'[m + 1] = s
          /\ \A a \in 1 .. m : sScopes'[a] = sScopes[a]
      BY <1>1, <1>2, <1>5, <1>10, <1>11, <2>3
    <3>2. PICK g : g = [a \in 1 .. m + 1 |-> IF a = m + 1 THEN n + 1 ELSE h[a]]
      OBVIOUS
    <3>3. g[m + 1] = n + 1 /\ \A a \in 1 .. m : g[a] = h[a] /\ h[a] \in 1 .. n
      BY <1>1, <2>2, <3>2
    <3>4. g \in [1 .. m + 1 -> 1 .. n + 1]
      <4>1. ASSUME NEW a \in 1 .. m + 1 PROVE (IF a = m + 1 THEN n + 1 ELSE h[a]) \in 1 .. n + 1
        <5>1. a # m + 1 => a \in 1 .. m
          BY <1>1
        <5>. QED
          BY <1>1, <3>3, <5>1
      <4>. QED
        BY <3>2, <4>1
    <3>5. ASSUME NEW a \in 1 .. m + 1, NEW b \in 1 .. m + 1, a < b PROVE g[a] < g[b]
      <4>1. a \in 1 .. m
        BY <1>1, <3>5
      <4>2. CASE b = m + 1
        BY <1>1, <3>3, <4>1, <4>2
      <4>3. CASE b # m + 1
        <5>1. b \in 1 .. m
          BY <1>1, <4>3
        <5>. QED
          BY <1>1, <2>1, <3>3, <3>5, <4>1, <5>1 DEF Homes
      <4>. QED
        BY <4>2, <4>3
    <3>6. ASSUME NEW i \in 1 .. n + 1
          PROVE  sOpen'[i].kind \in Opening <=> \E a \in 1 .. m + 1 : g[a] = i
      <4>1. CASE i = n + 1
        <5>1. m + 1 \in 1 .. m + 1
          BY <1>1
        <5>. QED
          BY <1>4, <1>7, <2>3, <3>3, <4>1, <5>1 DEF Opening
      <4>2. CASE i # n + 1
        <5>1. i \in 1 .. n
          BY <1>1, <4>2
        <5>2. sOpen'[i].kind \in Opening <=> \E a \in 1 .. m : h[a] = i
          BY <1>1, <1>7, <2>1, <5>1 DEF Homes
        <5>3. \A a \in 1 .. m + 1 : a = m + 1 \/ a \in 1 .. m
          BY <1>1
        <5>4. \A a \in 1 .. m : a \in 1 .. m + 1
          BY <1>1
        <5>. QED
          BY <3>3, <4>2, <5>2, <5>3, <5>4
      <4>. QED
        BY <4>1, <4>2
    <3>7. ASSUME NEW a \in 1 .. m + 1
          PROVE  /\ sScopes'[a].x = sOpen'[g[a]].x
                 /\ sScopes'[a].this <=> sOpen'[g[a]].kind = "method"
      <4>1. CASE a = m + 1
        BY <1>4, <1>7, <1>11, <3>1, <3>3, <4>1
      <4>2. CASE a # m + 1
        <5>1. a \in 1 .. m
          BY <1>1, <4>2
        <5>2. /\ sScopes[a].x = sOpen[h[a]].x
              /\ sScopes[a].this <=> sOpen[h[a]].kind = "method"
          BY <1>1, <2>1, <5>1 DEF Homes
        <5>. QED
          BY <1>7, <3>1, <3>3, <5>1, <5>2
      <4>. QED
        BY <4>1, <4>2
    <3>8. Homes(g)'
      BY <1>7, <3>1, <3>4, <3>5, <3>6, <3>7 DEF Homes
    <3>. QED
      BY <3>8
  <2>4. CASE k \notin S!Scoping
    <3>1. sScopes' = sScopes
      BY <1>2, <2>4
    <3>2. \A a \in 1 .. m : h[a] \in 1 .. n
      BY <2>2
    <3>3. h \in [1 .. m -> 1 .. n + 1]
      <4>1. \A i \in 1 .. n : i \in 1 .. n + 1
        BY <1>1
      <4>. QED
        BY <2>2, <4>1
    <3>4. ASSUME NEW i \in 1 .. n + 1
          PROVE  sOpen'[i].kind \in Opening <=> \E a \in 1 .. m : h[a] = i
      <4>1. CASE i = n + 1
        <5>1. \A a \in 1 .. m : h[a] # n + 1
          BY <1>1, <3>2
        <5>. QED
          BY <1>2, <1>4, <1>7, <2>4, <4>1, <5>1 DEF Opening
      <4>2. CASE i # n + 1
        <5>1. i \in 1 .. n
          BY <1>1, <4>2
        <5>. QED
          BY <1>1, <1>7, <2>1, <5>1 DEF Homes
      <4>. QED
        BY <4>1, <4>2
    <3>5. ASSUME NEW a \in 1 .. m
          PROVE  /\ sScopes[a].x = sOpen'[h[a]].x
                 /\ sScopes[a].this <=> sOpen'[h[a]].kind = "method"
      <4>1. /\ sScopes[a].x = sOpen[h[a]].x
            /\ sScopes[a].this <=> sOpen[h[a]].kind = "method"
        BY <1>1, <2>1 DEF Homes
      <4>. QED
        BY <1>7, <3>2, <4>1
    <3>6. \A a, b \in 1 .. m : a < b => h[a] < h[b]
      BY <1>1, <2>1 DEF Homes
    <3>7. Homes(h)'
      BY <1>1, <1>7, <3>1, <3>3, <3>4, <3>5, <3>6 DEF Homes
    <3>. QED
      BY <3>7
  <2>. QED
    BY <2>3, <2>4
<1>17. \A i \in 1 .. n + 1 : i = n + 1 \/ i \in 1 .. n
  BY <1>1
<1>. QED
  BY <1>7, <1>12, <1>13, <1>14, <1>15, <1>16, <1>17 DEF WalkInv

\* Leaving the innermost construct.
LEMMA LeaveStep == WalkInv /\ S!Leave => WalkInv'
<1>. SUFFICES ASSUME WalkInv, S!Leave PROVE WalkInv'
  OBVIOUS
<1>1. PICK n \in Nat, m \in Nat : n = Len(sOpen) /\ m = Len(sScopes) /\ n >= 1 /\ m >= 1
  BY WalkElements DEF WalkTypes, WalkInv
<1>2. sFlags \in FlagSet /\ sOpen \in Seq(Constructs) /\ sScopes \in Seq(ScopeRecords) /\ Nested
  BY DEF WalkInv, WalkTypes
<1>3. n > 1 /\ n \in 1 .. n /\ n \in 2 .. n
  BY <1>1 DEF S!Leave
<1>4. sOpen' = SubSeq(sOpen, 1, n - 1)
  BY <1>1 DEF S!Leave, S!Front
<1>5. /\ sOpen' \in Seq(Constructs) /\ Len(sOpen') = n - 1
      /\ \A i \in 1 .. n - 1 : sOpen'[i] = sOpen[i] /\ i \in 1 .. n /\ i # n
  BY <1>1, <1>2, <1>3, <1>4
<1>6. sFlags' = sOpen[n].saved
  BY <1>1 DEF S!Leave, S!Last
<1>7. sFlags' \in FlagSet
  <2>1. sOpen[n] \in Constructs
    BY <1>1, <1>2, <1>3
  <2>. QED
    BY <1>6, <2>1 DEF Constructs
<1>8. ASSUME NEW i \in 1 .. n - 1 PROVE FlagsRight(i)'
  <2>1. FlagsIn(i)' = FlagsIn(i)
    <3>1. FlagsIn(i) = sOpen[i + 1].saved
      BY <1>1, <1>5 DEF FlagsIn
    <3>2. CASE i = n - 1
      <4>1. FlagsIn(i)' = sFlags' /\ i + 1 = n
        BY <1>1, <1>5, <3>2 DEF FlagsIn
      <4>. QED
        BY <1>6, <3>1, <4>1
    <3>3. CASE i # n - 1
      <4>1. FlagsIn(i)' = sOpen'[i + 1].saved
        BY <1>5, <3>3 DEF FlagsIn
      <4>2. i + 1 \in 1 .. n - 1
        BY <1>1, <3>3
      <4>. QED
        BY <1>5, <3>1, <4>1, <4>2
    <3>. QED
      BY <3>2, <3>3
  <2>2. \A j \in 1 .. i : sOpen'[j] = sOpen[j]
    BY <1>1, <1>5
  <2>3. FlagsRight(i)
    BY <1>1, <1>5 DEF WalkInv
  <2>4. PICK j \in 1 .. i : /\ sOpen[j].kind \in Returning
                            /\ \A l \in (j + 1) .. i : sOpen[l].kind \notin Returning
                            /\ FlagsIn(i).ret = Expected(sOpen[j])
    BY <2>3 DEF FlagsRight
  <2>5. /\ sOpen'[j].kind \in Returning
        /\ \A l \in (j + 1) .. i : sOpen'[l].kind \notin Returning
        /\ FlagsIn(i)'.ret = Expected(sOpen'[j])
    BY <2>1, <2>2, <2>4
  <2>6. /\ FlagsIn(i)'.loop <=> \E l \in 1 .. i : sOpen'[l].kind \in S!Looping
        /\ FlagsIn(i)'.await <=> \E l \in 1 .. i : sOpen'[l].kind = "await"
        /\ FlagsIn(i)'.unsafe <=> \E l \in 1 .. i : sOpen'[l].kind = "unsafe"
    BY <2>1, <2>2, <2>3 DEF FlagsRight
  <2>. QED
    BY <2>5, <2>6 DEF FlagsRight, Expected
<1>9. Nested'
  <2>1. 1 \in 1 .. n - 1
    BY <1>1, <1>3
  <2>2. sOpen'[1].kind = "program" /\ sOpen'[1].result = "void"
    BY <1>2, <1>5, <2>1 DEF Nested
  <2>3. ASSUME NEW i \in 2 .. n - 1 PROVE sOpen'[i].kind # "program" /\ sOpen'[i].result \in S!Results
    <3>1. i \in 1 .. n - 1 /\ i \in 2 .. n
      BY <1>1
    <3>. QED
      BY <1>1, <1>2, <1>5, <3>1 DEF Nested
  <2>4. ASSUME NEW i \in 1 .. n - 1, sOpen'[i].x # "none" PROVE sOpen'[i].kind \in Opening
    BY <1>1, <1>2, <1>5, <2>4 DEF Nested
  <2>. QED
    BY <1>5, <2>2, <2>3, <2>4 DEF Nested
<1>10. PICK h : Homes(h)
  BY DEF WalkInv
<1>11. h \in [1 .. m -> 1 .. n] /\ m \in 1 .. m /\ \A a \in 1 .. m : h[a] \in 1 .. n
  BY <1>1, <1>10 DEF Homes
<1>12. sOpen[n].kind # "program"
  BY <1>1, <1>2, <1>3 DEF Nested
<1>13. CASE sOpen[n].kind \in S!Scoping
  <2>1. sScopes' = SubSeq(sScopes, 1, m - 1)
    <3>1. S!Here \in S!Scoping
      BY <1>1, <1>13 DEF S!Here, S!Last
    <3>. QED
      BY <1>1, <3>1 DEF S!Leave, S!pop, S!Front
  <2>2. h[m] = n
    <3>1. PICK a \in 1 .. m : h[a] = n
      BY <1>1, <1>3, <1>10, <1>13 DEF Homes, Opening
    <3>2. a < m => h[a] < h[m]
      BY <1>1, <1>10, <1>11 DEF Homes
    <3>3. h[m] \in 1 .. n
      BY <1>11
    <3>. QED
      BY <1>1, <3>1, <3>2, <3>3
  <2>3. m > 1
    <3>1. sOpen[1].kind \in Opening /\ 1 \in 1 .. n
      BY <1>1, <1>2 DEF Nested, Opening
    <3>2. PICK a \in 1 .. m : h[a] = 1
      BY <1>1, <1>10, <3>1 DEF Homes
    <3>. QED
      BY <1>1, <1>3, <2>2, <3>2
  <2>4. /\ sScopes' \in Seq(ScopeRecords) /\ Len(sScopes') = m - 1
        /\ \A a \in 1 .. m - 1 : sScopes'[a] = sScopes[a] /\ a \in 1 .. m /\ a < m
    BY <1>1, <1>2, <2>1, <2>3
  <2>5. WalkTypes'
    BY <1>1, <1>3, <1>5, <1>7, <2>3, <2>4 DEF WalkTypes
  <2>6. PICK g : g = [a \in 1 .. m - 1 |-> h[a]]
    OBVIOUS
  <2>7. \A a \in 1 .. m - 1 : g[a] = h[a] /\ h[a] \in 1 .. n - 1
    <3>1. ASSUME NEW a \in 1 .. m - 1 PROVE h[a] \in 1 .. n - 1
      <4>1. h[a] < h[m] /\ h[a] \in 1 .. n
        BY <1>1, <1>10, <1>11, <2>4 DEF Homes
      <4>. QED
        BY <1>1, <2>2, <4>1
    <3>. QED
      BY <2>6, <3>1
  <2>8. g \in [1 .. m - 1 -> 1 .. n - 1]
    BY <2>6, <2>7
  <2>9. \A a, b \in 1 .. m - 1 : a < b => g[a] < g[b]
    BY <1>1, <1>10, <2>4, <2>7 DEF Homes
  <2>10. ASSUME NEW i \in 1 .. n - 1
         PROVE  sOpen'[i].kind \in Opening <=> \E a \in 1 .. m - 1 : g[a] = i
    <3>1. sOpen'[i].kind \in Opening <=> \E a \in 1 .. m : h[a] = i
      BY <1>1, <1>5, <1>10 DEF Homes
    <3>2. \A a \in 1 .. m : a = m \/ a \in 1 .. m - 1
      BY <1>1
    <3>3. i # n
      BY <1>5
    <3>. QED
      BY <2>2, <2>4, <2>7, <3>1, <3>2, <3>3
  <2>11. ASSUME NEW a \in 1 .. m - 1
         PROVE  /\ sScopes'[a].x = sOpen'[g[a]].x
                /\ sScopes'[a].this <=> sOpen'[g[a]].kind = "method"
    <3>1. /\ sScopes[a].x = sOpen[h[a]].x
          /\ sScopes[a].this <=> sOpen[h[a]].kind = "method"
      BY <1>1, <1>10, <2>4 DEF Homes
    <3>. QED
      BY <1>5, <2>4, <2>7, <3>1
  <2>12. Homes(g)'
    BY <1>5, <2>4, <2>8, <2>9, <2>10, <2>11 DEF Homes
  <2>. QED
    BY <1>5, <1>8, <1>9, <2>5, <2>12 DEF WalkInv
<1>14. CASE sOpen[n].kind \notin S!Scoping
  <2>1. sScopes' = sScopes
    <3>1. S!Here \notin S!Scoping
      BY <1>1, <1>14 DEF S!Here, S!Last
    <3>. QED
      BY <3>1 DEF S!Leave
  <2>2. WalkTypes'
    BY <1>1, <1>2, <1>3, <1>5, <1>7, <2>1 DEF WalkTypes
  <2>3. \A a \in 1 .. m : h[a] # n
    BY <1>1, <1>3, <1>10, <1>12, <1>14 DEF Homes, Opening
  <2>4. \A a \in 1 .. m : h[a] \in 1 .. n - 1
    BY <1>1, <1>11, <2>3
  <2>5. h \in [1 .. m -> 1 .. n - 1]
    BY <1>11, <2>4
  <2>6. \A a, b \in 1 .. m : a < b => h[a] < h[b]
    BY <1>1, <1>10 DEF Homes
  <2>7. \A i \in 1 .. n - 1 : sOpen'[i].kind \in Opening <=> \E a \in 1 .. m : h[a] = i
    BY <1>1, <1>5, <1>10 DEF Homes
  <2>8. ASSUME NEW a \in 1 .. m
        PROVE  /\ sScopes[a].x = sOpen'[h[a]].x
               /\ sScopes[a].this <=> sOpen'[h[a]].kind = "method"
    <3>1. /\ sScopes[a].x = sOpen[h[a]].x
          /\ sScopes[a].this <=> sOpen[h[a]].kind = "method"
      BY <1>1, <1>10 DEF Homes
    <3>. QED
      BY <1>5, <2>4, <3>1
  <2>9. Homes(h)'
    BY <1>1, <1>5, <2>1, <2>5, <2>6, <2>7, <2>8 DEF Homes
  <2>. QED
    BY <1>5, <1>8, <1>9, <2>2, <2>9 DEF WalkInv
<1>. QED
  BY <1>13, <1>14

\* A declaration of x is put into the innermost scope, and stands in its construct.
LEMMA DeclareKeeps ==
    ASSUME WalkInv, NEW x \in S!Variable,
           sScopes' = [sScopes EXCEPT ![Len(sScopes)].x = x],
           sOpen' = [sOpen EXCEPT ![S!Home].x = x], sFlags' = sFlags
    PROVE  WalkInv'
<1>1. PICK n \in Nat, m \in Nat : n = Len(sOpen) /\ m = Len(sScopes) /\ n >= 1 /\ m >= 1
  BY WalkElements DEF WalkTypes, WalkInv
<1>2. /\ sFlags \in FlagSet /\ sOpen \in Seq(Constructs) /\ sScopes \in Seq(ScopeRecords)
      /\ Nested /\ WalkTypes
  BY DEF WalkInv, WalkTypes
<1>3. PICK h : Homes(h)
  BY DEF WalkInv
<1>4. h \in [1 .. m -> 1 .. n] /\ m \in 1 .. m /\ \A a \in 1 .. m : h[a] \in 1 .. n
  BY <1>1, <1>3 DEF Homes
<1>5. PICK home \in 1 .. n : home = h[m] /\ S!Home = home
  BY <1>1, <1>2, <1>3, <1>4, HomeIs
<1>6. PICK c : c = [sOpen[home] EXCEPT !.x = x]
  OBVIOUS
<1>7. c \in Constructs /\ c.x = x /\ c.kind = sOpen[home].kind /\ c.result = sOpen[home].result
      /\ c.saved = sOpen[home].saved
  <2>1. sOpen[home] \in Constructs
    BY <1>1, <1>2
  <2>. QED
    BY <1>6, <2>1 DEF Constructs
<1>8. sOpen' = [sOpen EXCEPT ![home] = c]
  BY <1>5, <1>6
<1>9. /\ sOpen' \in Seq(Constructs) /\ Len(sOpen') = n /\ sOpen'[home] = c
      /\ \A i \in 1 .. n : i # home => sOpen'[i] = sOpen[i]
  BY <1>1, <1>2, <1>5, <1>7, <1>8, SMTT(30)
<1>10. /\ \A i \in 1 .. n : /\ sOpen'[i].kind = sOpen[i].kind /\ sOpen'[i].result = sOpen[i].result
                            /\ sOpen'[i].saved = sOpen[i].saved
  BY <1>7, <1>9
<1>11. PICK s : s = [sScopes[m] EXCEPT !.x = x]
  OBVIOUS
<1>12. s \in ScopeRecords /\ s.x = x /\ s.this = sScopes[m].this
  <2>1. sScopes[m] \in ScopeRecords
    BY <1>1, <1>2, <1>4
  <2>. QED
    BY <1>11, <2>1 DEF ScopeRecords
<1>13. sScopes' = [sScopes EXCEPT ![m] = s]
  BY <1>1, <1>11
<1>14. /\ sScopes' \in Seq(ScopeRecords) /\ Len(sScopes') = m /\ sScopes'[m] = s
       /\ \A a \in 1 .. m : a # m => sScopes'[a] = sScopes[a]
  BY <1>1, <1>2, <1>4, <1>12, <1>13, SMTT(30)
<1>15. WalkTypes'
  BY <1>1, <1>2, <1>9, <1>14 DEF WalkTypes
<1>16. sOpen[home].kind \in Opening
  BY <1>1, <1>3, <1>4, <1>5 DEF Homes
<1>17. Nested'
  <2>1. ASSUME NEW i \in 1 .. n, sOpen'[i].x # "none" PROVE sOpen'[i].kind \in Opening
    <3>1. CASE i = home
      BY <1>10, <1>16, <3>1
    <3>2. CASE i # home
      BY <1>1, <1>2, <1>9, <2>1, <3>2 DEF Nested
    <3>. QED
      BY <3>1, <3>2
  <2>2. 1 \in 1 .. n /\ \A i \in 2 .. n : i \in 1 .. n
    BY <1>1
  <2>. QED
    BY <1>1, <1>2, <1>9, <1>10, <2>1, <2>2 DEF Nested
<1>18. ASSUME NEW i \in 1 .. n PROVE FlagsRight(i)'
  <2>1. FlagsIn(i)' = FlagsIn(i)
    <3>1. CASE i = n
      BY <1>1, <1>9, <3>1 DEF FlagsIn
    <3>2. CASE i # n
      <4>1. i + 1 \in 1 .. n
        BY <1>1, <3>2
      <4>2. FlagsIn(i)' = sOpen'[i + 1].saved /\ FlagsIn(i) = sOpen[i + 1].saved
        BY <1>1, <1>9, <3>2 DEF FlagsIn
      <4>. QED
        BY <1>10, <4>1, <4>2
    <3>. QED
      BY <3>1, <3>2
  <2>2. \A j \in 1 .. i : sOpen'[j].kind = sOpen[j].kind /\ sOpen'[j].result = sOpen[j].result
    BY <1>1, <1>10
  <2>3. FlagsRight(i)
    BY <1>1 DEF WalkInv
  <2>4. PICK j \in 1 .. i : /\ sOpen[j].kind \in Returning
                            /\ \A l \in (j + 1) .. i : sOpen[l].kind \notin Returning
                            /\ FlagsIn(i).ret = Expected(sOpen[j])
    BY <2>3 DEF FlagsRight
  <2>5. \A l \in (j + 1) .. i : l \in 1 .. i
    BY <2>4
  <2>6. /\ sOpen'[j].kind \in Returning
        /\ \A l \in (j + 1) .. i : sOpen'[l].kind \notin Returning
        /\ FlagsIn(i)'.ret = Expected(sOpen'[j])
    BY <2>1, <2>2, <2>4, <2>5 DEF Expected
  <2>7. /\ FlagsIn(i)'.loop <=> \E l \in 1 .. i : sOpen'[l].kind \in S!Looping
        /\ FlagsIn(i)'.await <=> \E l \in 1 .. i : sOpen'[l].kind = "await"
        /\ FlagsIn(i)'.unsafe <=> \E l \in 1 .. i : sOpen'[l].kind = "unsafe"
    BY <2>1, <2>2, <2>3 DEF FlagsRight
  <2>. QED
    BY <2>6, <2>7 DEF FlagsRight, Expected
<1>19. Homes(h)'
  <2>1. ASSUME NEW a \in 1 .. m
        PROVE  /\ sScopes'[a].x = sOpen'[h[a]].x
               /\ sScopes'[a].this <=> sOpen'[h[a]].kind = "method"
    <3>1. /\ sScopes[a].x = sOpen[h[a]].x
          /\ sScopes[a].this <=> sOpen[h[a]].kind = "method"
          /\ h[a] \in 1 .. n
      BY <1>1, <1>3, <1>4 DEF Homes
    <3>2. CASE a = m
      BY <1>5, <1>7, <1>9, <1>12, <1>14, <3>1, <3>2
    <3>3. CASE a # m
      <4>1. h[a] < h[m]
        BY <1>1, <1>3, <1>4, <3>3 DEF Homes
      <4>2. h[a] # home
        BY <1>5, <3>1, <4>1
      <4>. QED
        BY <1>9, <1>14, <3>1, <3>3, <4>2
    <3>. QED
      BY <3>2, <3>3
  <2>2. \A a, b \in 1 .. m : a < b => h[a] < h[b]
    BY <1>1, <1>3 DEF Homes
  <2>3. \A i \in 1 .. n : sOpen'[i].kind \in Opening <=> \E a \in 1 .. m : h[a] = i
    BY <1>1, <1>3, <1>10 DEF Homes
  <2>. QED
    BY <1>4, <1>9, <1>14, <2>1, <2>2, <2>3 DEF Homes
<1>. QED
  BY <1>9, <1>15, <1>17, <1>18, <1>19 DEF WalkInv

\* The invariant rests on the walk alone, not on what has been reported.
LEMMA WalkSame ==
    ASSUME WalkInv, sOpen' = sOpen, sFlags' = sFlags, sScopes' = sScopes
    PROVE  WalkInv'
<1>1. WalkTypes' /\ Nested'
  BY DEF WalkInv, WalkTypes, Nested
<1>2. \A i : FlagsIn(i)' = FlagsIn(i)
  BY DEF FlagsIn
<1>3. \A i \in 1 .. Len(sOpen') : FlagsRight(i)'
  BY <1>2 DEF WalkInv, FlagsRight, Expected
<1>4. PICK h : Homes(h)
  BY DEF WalkInv
<1>5. Homes(h)'
  BY <1>4 DEF Homes
<1>. QED
  BY <1>1, <1>3, <1>5 DEF WalkInv

\* Every step of the walk.
LEMMA WalkStep == WalkInv /\ [S!Next]_(S!vars) => WalkInv'
<1>. SUFFICES ASSUME WalkInv, [S!Next]_(S!vars) PROVE WalkInv'
  OBVIOUS
<1>1. S!JudgedByContext
  BY VerdictsRight
<1>2. CASE S!Enter
  BY <1>2, EnterStep
<1>3. CASE S!Leave
  BY <1>3, LeaveStep
<1>4. CASE S!Check
  <2>1. sOpen' = sOpen /\ sFlags' = sFlags /\ sScopes' = sScopes
    BY <1>4 DEF S!Check
  <2>. QED
    BY <2>1, WalkSame
<1>5. CASE S!Assign
  <2>1. S!xKnown <=> \E i \in DOMAIN sOpen : sOpen[i].x # "none"
    <3>1. S!Accepts("use") <=> S!xKnown
      BY DEF S!Accepts
    <3>2. S!Allowed("use") <=> \E i \in DOMAIN sOpen : sOpen[i].x # "none"
      BY DEF S!Allowed
    <3>3. S!Accepts("use") <=> S!Allowed("use")
      BY <1>1 DEF S!JudgedByContext, S!Leaves, S!Expressions
    <3>. QED
      BY <3>1, <3>2, <3>3
  <2>2. sFlags' = sFlags
    BY <1>5 DEF S!Assign
  <2>3. CASE S!xKnown
    <3>1. sOpen' = sOpen /\ sScopes' = sScopes
      BY <1>5, <2>1, <2>3 DEF S!Assign
    <3>. QED
      BY <2>2, <3>1, WalkSame
  <2>4. CASE ~S!xKnown
    <3>1. /\ sScopes' = [sScopes EXCEPT ![Len(sScopes)].x = "variable"]
          /\ sOpen' = [sOpen EXCEPT ![S!Home].x = "variable"]
      BY <1>5, <2>1, <2>4 DEF S!Assign, S!define, S!Says
    <3>2. "variable" \in S!Variable
      BY DEF S!Variable
    <3>. QED
      BY <2>2, <3>1, <3>2, DeclareKeeps
  <2>. QED
    BY <2>3, <2>4
<1>6. CASE S!Declare
  <2>1. S!Free <=> sOpen[S!Home].x = "none"
    <3>1. S!Accepts("declare") <=> S!Free
      BY DEF S!Accepts
    <3>2. S!Allowed("declare") <=> sOpen[S!Home].x = "none"
      BY DEF S!Allowed
    <3>3. S!Accepts("declare") <=> S!Allowed("declare")
      BY <1>1 DEF S!JudgedByContext
    <3>. QED
      BY <3>1, <3>2, <3>3
  <2>2. PICK x \in S!Variable : /\ IF S!Free THEN S!define(x) ELSE UNCHANGED sScopes
                                /\ IF sOpen[S!Home].x = "none" THEN S!Says(x) ELSE UNCHANGED sOpen
    BY <1>6 DEF S!Declare, S!Variable
  <2>3. sFlags' = sFlags
    BY <1>6 DEF S!Declare
  <2>4. CASE S!Free
    <3>1. /\ sScopes' = [sScopes EXCEPT ![Len(sScopes)].x = x]
          /\ sOpen' = [sOpen EXCEPT ![S!Home].x = x]
      BY <2>1, <2>2, <2>4 DEF S!define, S!Says
    <3>. QED
      BY <2>3, <3>1, DeclareKeeps
  <2>5. CASE ~S!Free
    <3>1. sOpen' = sOpen /\ sScopes' = sScopes
      BY <2>1, <2>2, <2>5
    <3>. QED
      BY <2>3, <3>1, WalkSame
  <2>. QED
    BY <2>4, <2>5
<1>7. CASE UNCHANGED S!vars
  <2>1. sOpen' = sOpen /\ sFlags' = sFlags /\ sScopes' = sScopes
    BY <1>7 DEF S!vars
  <2>. QED
    BY <2>1, WalkSame
<1>. QED
  BY <1>2, <1>3, <1>4, <1>5, <1>6, <1>7 DEF S!Next

\* The inductive invariant of the second pass: the flags inside every open construct
\* are those its text calls for, and each scope belongs to one of the constructs.
THEOREM WalkConsistent == S!Spec => []WalkInv
<1>. QED
  BY WalkStart, WalkStep, PTL DEF S!Spec

-----------------------------------------------------------------------------
(* The two representations of a list                                       *)

Zero == <<"zero">>
HalfWords == {Zero} \cup {L!Low(v) : v \in L!Values} \cup {L!High(v) : v \in L!Values}

\* The array a of a list of kind k has n elements.
Sized(k, a, n) == Len(a) = IF k = L!I32 THEN n ELSE 2 * n

\* The i-th element of the array a of a list of kind k is v.
Reads(k, a, i, v) ==
    IF k = L!I32 THEN a[i] = L!Low(v) /\ L!High(v) = Zero
    ELSE a[2 * i - 1] = L!Low(v) /\ a[2 * i] = L!High(v)

ListTypes ==
    /\ kKind \in Seq({L!PTR, L!I32}) /\ kData \in Seq(Seq(HalfWords))
    /\ kPushed \in Seq(Seq(L!Values))
    /\ Len(kData) = Len(kKind) /\ Len(kPushed) = Len(kKind)
    /\ \A l \in 1 .. Len(kKind) : Sized(kKind[l], kData[l], Len(kPushed[l]))

\* A list in which nothing was cut holds what was pushed.
Stored ==
    \A l \in 1 .. Len(kKind) : l \notin kCut =>
        \A i \in 1 .. Len(kPushed[l]) : Reads(kKind[l], kData[l], i, kPushed[l][i])

\* What the names of the inner scopes hide.
HiddenTypes(n) == kHidden \in Seq([name : Vars, list : 0 .. n])

\* A name that is typed and was not recast holds a list of integers.
NamesRight ==
    /\ kVar \in [Vars -> 0 .. Len(kKind)]
    /\ \A x \in Vars : x \in kTyped /\ x \notin kRecast /\ kVar[x] # 0 => kKind[kVar[x]] = L!I32
    /\ HiddenTypes(Len(kKind))

ListInv == ListTypes /\ Stored /\ NamesRight

\* What duxrt_list_get returns is the element when the array has it.
LEMMA GetReads ==
    ASSUME NEW l, NEW i, NEW v, Reads(kKind[l], kData[l], i, v)
    PROVE  L!RtGet(l, i) = L!WordOf(v)
BY DEF Reads, L!RtGet, L!WordOf, Zero

\* And the direct read of gen_for_in returns the same for a list of integers.
LEMMA DirectReads ==
    ASSUME NEW l, NEW i, NEW v, kKind[l] = L!I32, Reads(kKind[l], kData[l], i, v)
    PROVE  L!DirectGet(l, i) = L!WordOf(v)
BY DEF Reads, L!DirectGet, L!WordOf, Zero

\* An array of words.
LEMMA HalvesAre ==
    ASSUME NEW n \in Nat, NEW words, words = [i \in 1 .. n |-> words[i]],
           \A i \in 1 .. n : words[i][1] \in HalfWords /\ words[i][2] \in HalfWords
    PROVE  /\ L!Halves(words) \in Seq(HalfWords) /\ Len(L!Halves(words)) = 2 * n
           /\ \A i \in 1 .. n : /\ L!Halves(words)[2 * i - 1] = words[i][1]
                                /\ L!Halves(words)[2 * i] = words[i][2]
<1>1. Len(words) = n
  OBVIOUS
<1>2. PICK m \in Nat : m = 2 * n
  OBVIOUS
<1>3. L!Halves(words) = [h \in 1 .. m |-> words[(h + 1) \div 2][2 - (h % 2)]]
  BY <1>1, <1>2 DEF L!Halves
<1>4. ASSUME NEW h \in 1 .. m
      PROVE  /\ (h + 1) \div 2 \in 1 .. n /\ 2 - (h % 2) \in {1, 2}
             /\ words[(h + 1) \div 2][2 - (h % 2)] \in HalfWords
  <2>1. (h + 1) \div 2 \in 1 .. n
    BY <1>2
  <2>2. 2 - (h % 2) \in {1, 2}
    OBVIOUS
  <2>3. PICK i \in 1 .. n : i = (h + 1) \div 2
    BY <2>1
  <2>4. PICK j \in {1, 2} : j = 2 - (h % 2)
    BY <2>2
  <2>5. words[i][j] \in HalfWords
    BY <2>3, <2>4
  <2>. QED
    BY <2>1, <2>2, <2>3, <2>4, <2>5
<1>5. ASSUME NEW i \in 1 .. n
      PROVE  /\ 2 * i - 1 \in 1 .. m /\ 2 * i \in 1 .. m
             /\ ((2 * i - 1) + 1) \div 2 = i /\ (2 * i + 1) \div 2 = i
             /\ (2 * i - 1) % 2 = 1 /\ (2 * i) % 2 = 0
  <2>1. i \in Int /\ 1 <= i /\ i <= n
    OBVIOUS
  <2>2. ((2 * i - 1) + 1) \div 2 = i /\ (2 * i + 1) \div 2 = i
    BY <2>1
  <2>3. (2 * i - 1) % 2 = 1 /\ (2 * i) % 2 = 0
    BY <2>1
  <2>4. 2 * i - 1 \in 1 .. m /\ 2 * i \in 1 .. m
    BY <1>2, <2>1
  <2>. QED
    BY <2>2, <2>3, <2>4
<1>6. L!Halves(words) \in [1 .. m -> HalfWords]
  BY <1>3, <1>4
<1>7. L!Halves(words) \in Seq(HalfWords) /\ Len(L!Halves(words)) = m
  BY <1>6
<1>8. ASSUME NEW i \in 1 .. n
      PROVE  /\ L!Halves(words)[2 * i - 1] = words[i][1]
             /\ L!Halves(words)[2 * i] = words[i][2]
  <2>1. PICK a \in 1 .. m, b \in 1 .. m : a = 2 * i - 1 /\ b = 2 * i
    BY <1>5
  <2>2. (a + 1) \div 2 = i /\ a % 2 = 1 /\ (b + 1) \div 2 = i /\ b % 2 = 0
    BY <1>5, <2>1
  <2>3. /\ L!Halves(words)[a] = words[(a + 1) \div 2][2 - (a % 2)]
        /\ L!Halves(words)[b] = words[(b + 1) \div 2][2 - (b % 2)]
    BY <1>3
  <2>4. 2 - (a % 2) = 1 /\ 2 - (b % 2) = 2
    BY <2>2, SMTT(30)
  <2>5. L!Halves(words)[a] = words[i][1] /\ L!Halves(words)[b] = words[i][2]
    BY <2>2, <2>3, <2>4
  <2>. QED
    BY <2>1, <2>5
<1>. QED
  BY <1>2, <1>7, <1>8

\* One more element at the end of a sequence.
LEMMA Appended ==
    ASSUME NEW T, NEW s \in Seq(T), NEW e \in T
    PROVE  /\ Append(s, e) \in Seq(T) /\ Len(Append(s, e)) = Len(s) + 1
           /\ Append(s, e)[Len(s) + 1] = e /\ \A l \in 1 .. Len(s) : Append(s, e)[l] = s[l]
OBVIOUS

\* The array of a literal.
LEMMA ArrayIs ==
    ASSUME NEW k \in {L!PTR, L!I32}, NEW elems \in Seq(L!Values),
           k = L!I32 => \A i \in 1 .. Len(elems) : elems[i] \in Ints
    PROVE  /\ L!Array(k, elems) \in Seq(HalfWords)
           /\ Sized(k, L!Array(k, elems), Len(elems))
           /\ \A i \in 1 .. Len(elems) : Reads(k, L!Array(k, elems), i, elems[i])
<1>1. PICK n \in Nat : n = Len(elems) /\ DOMAIN elems = 1 .. n /\ \A i \in 1 .. n : elems[i] \in L!Values
  OBVIOUS
<1>2. \A v \in L!Values : L!Low(v) \in HalfWords /\ L!High(v) \in HalfWords
  BY DEF HalfWords
<1>3. CASE k = L!I32
  <2>1. L!Array(k, elems) = [i \in 1 .. n |-> L!Low(elems[i])]
    BY <1>1, <1>3 DEF L!Array
  <2>2. L!Array(k, elems) \in [1 .. n -> HalfWords]
    BY <1>1, <1>2, <2>1
  <2>3. L!Array(k, elems) \in Seq(HalfWords) /\ Len(L!Array(k, elems)) = n
    BY <2>2
  <2>4. \A i \in 1 .. n : L!Array(k, elems)[i] = L!Low(elems[i])
    BY <2>1
  <2>5. \A i \in 1 .. n : L!High(elems[i]) = Zero
    BY <1>1, <1>3 DEF L!High, Zero
  <2>. QED
    BY <1>1, <1>3, <2>3, <2>4, <2>5 DEF Sized, Reads
<1>4. CASE k # L!I32
  <2>1. PICK words : words = [i \in 1 .. n |-> L!WordOf(elems[i])]
    OBVIOUS
  <2>2. \A i \in 1 .. n : words[i][1] = L!Low(elems[i]) /\ words[i][2] = L!High(elems[i])
    BY <2>1 DEF L!WordOf
  <2>3. \A i \in 1 .. n : words[i][1] \in HalfWords /\ words[i][2] \in HalfWords
    BY <1>1, <1>2, <2>2
  <2>4. words = [i \in 1 .. n |-> words[i]]
    BY <2>1
  <2>5. L!Array(k, elems) = L!Halves(words)
    BY <1>1, <1>4, <2>1 DEF L!Array
  <2>6. /\ L!Halves(words) \in Seq(HalfWords) /\ Len(L!Halves(words)) = 2 * n
        /\ \A i \in 1 .. n : /\ L!Halves(words)[2 * i - 1] = words[i][1]
                             /\ L!Halves(words)[2 * i] = words[i][2]
    BY <2>3, <2>4, HalvesAre
  <2>7. /\ L!Array(k, elems) \in Seq(HalfWords) /\ Len(L!Array(k, elems)) = 2 * n
        /\ \A i \in 1 .. n : /\ L!Array(k, elems)[2 * i - 1] = L!Low(elems[i])
                             /\ L!Array(k, elems)[2 * i] = L!High(elems[i])
    BY <2>2, <2>5, <2>6
  <2>. QED
    BY <1>1, <1>4, <2>7 DEF Sized, Reads
<1>. QED
  BY <1>3, <1>4

\* The words that get returns for a list.
LEMMA WordsAre ==
    ASSUME ListTypes, Stored, NEW l \in 1 .. Len(kKind)
    PROVE  /\ L!Words(l) \in Seq(HalfWords) /\ Len(L!Words(l)) = 2 * Len(kPushed[l])
           /\ l \notin kCut => \A i \in 1 .. Len(kPushed[l]) :
                 /\ L!Words(l)[2 * i - 1] = L!Low(kPushed[l][i])
                 /\ L!Words(l)[2 * i] = L!High(kPushed[l][i])
<1>1. PICK n \in Nat : n = Len(kPushed[l]) /\ DOMAIN kPushed[l] = 1 .. n
  <2>1. kPushed[l] \in Seq(L!Values)
    BY DEF ListTypes
  <2>. QED
    BY <2>1
<1>2. PICK words : words = [i \in 1 .. n |-> L!RtGet(l, i)]
  OBVIOUS
<1>3. L!Words(l) = L!Halves(words)
  BY <1>1, <1>2 DEF L!Words
<1>4. ASSUME NEW i \in 1 .. n PROVE words[i][1] \in HalfWords /\ words[i][2] \in HalfWords
  <2>1. kData[l] \in Seq(HalfWords) /\ Sized(kKind[l], kData[l], n)
    BY <1>1 DEF ListTypes
  <2>2. words[i] = L!RtGet(l, i)
    BY <1>2
  <2>3. CASE kKind[l] = L!I32
    <3>1. kData[l][i] \in HalfWords /\ Zero \in HalfWords
      BY <2>1, <2>3 DEF Sized, HalfWords
    <3>2. words[i] = <<kData[l][i], Zero>>
      BY <2>2, <2>3 DEF L!RtGet, Zero
    <3>. QED
      BY <3>1, <3>2
  <2>4. CASE kKind[l] # L!I32
    <3>1. Len(kData[l]) = 2 * n
      BY <2>1, <2>4 DEF Sized
    <3>2. kData[l][2 * i - 1] \in HalfWords /\ kData[l][2 * i] \in HalfWords
      BY <2>1, <3>1
    <3>3. words[i] = <<kData[l][2 * i - 1], kData[l][2 * i]>>
      BY <2>2, <2>4 DEF L!RtGet
    <3>. QED
      BY <3>2, <3>3
  <2>. QED
    BY <2>3, <2>4
<1>5. words = [i \in 1 .. n |-> words[i]]
  BY <1>2
<1>6. /\ L!Halves(words) \in Seq(HalfWords) /\ Len(L!Halves(words)) = 2 * n
      /\ \A i \in 1 .. n : /\ L!Halves(words)[2 * i - 1] = words[i][1]
                           /\ L!Halves(words)[2 * i] = words[i][2]
  BY <1>4, <1>5, HalvesAre
<1>7. ASSUME l \notin kCut, NEW i \in 1 .. n
      PROVE  words[i][1] = L!Low(kPushed[l][i]) /\ words[i][2] = L!High(kPushed[l][i])
  <2>1. Reads(kKind[l], kData[l], i, kPushed[l][i])
    BY <1>1, <1>7 DEF Stored
  <2>2. words[i] = L!WordOf(kPushed[l][i])
    BY <1>2, <2>1, GetReads
  <2>. QED
    BY <2>2 DEF L!WordOf
<1>. QED
  BY <1>1, <1>3, <1>6, <1>7

\* A list is allocated: the others stay as they are, and it holds its elements unless
\* something it was made of was cut.
LEMMA AllocateStep ==
    ASSUME ListTypes, Stored, NEW k \in {L!PTR, L!I32}, NEW a \in Seq(HalfWords),
           NEW elems \in Seq(L!Values), L!Allocate(k, a, elems),
           Sized(k, a, Len(elems)), kCut \subseteq kCut',
           L!New \notin kCut' => \A i \in 1 .. Len(elems) : Reads(k, a, i, elems[i])
    PROVE  /\ ListTypes' /\ Stored' /\ L!New = Len(kKind') /\ Len(kKind') = Len(kKind) + 1
           /\ kKind'[L!New] = k /\ \A l \in 1 .. Len(kKind) : kKind'[l] = kKind[l]
<1>1. PICK n \in Nat : n = Len(kKind)
  BY DEF ListTypes
<1>2. /\ kKind \in Seq({L!PTR, L!I32}) /\ kData \in Seq(Seq(HalfWords)) /\ kPushed \in Seq(Seq(L!Values))
      /\ Len(kData) = n /\ Len(kPushed) = n
  BY <1>1 DEF ListTypes
<1>3. kKind' = Append(kKind, k) /\ kData' = Append(kData, a) /\ kPushed' = Append(kPushed, elems)
  BY DEF L!Allocate
<1>4. PICK new \in Nat : new = n + 1 /\ L!New = new
  BY <1>1 DEF L!New
<1>5. /\ kKind' \in Seq({L!PTR, L!I32}) /\ Len(kKind') = new /\ kKind'[new] = k
      /\ \A l \in 1 .. n : kKind'[l] = kKind[l]
  BY <1>1, <1>2, <1>3, <1>4
<1>6. /\ kData' \in Seq(Seq(HalfWords)) /\ Len(kData') = new /\ kData'[new] = a
      /\ \A l \in 1 .. n : kData'[l] = kData[l]
  <2>. DEFINE Arrays == Seq(HalfWords)
  <2>1. kData \in Seq(Arrays) /\ a \in Arrays
    BY <1>2
  <2>. HIDE DEF Arrays
  <2>2. /\ Append(kData, a) \in Seq(Arrays) /\ Len(Append(kData, a)) = Len(kData) + 1
        /\ Append(kData, a)[Len(kData) + 1] = a
        /\ \A l \in 1 .. Len(kData) : Append(kData, a)[l] = kData[l]
    BY <2>1, Appended
  <2>3. /\ kData' \in Seq(Arrays) /\ Len(kData') = new /\ kData'[new] = a
        /\ \A l \in 1 .. n : kData'[l] = kData[l]
    BY <1>2, <1>3, <1>4, <2>2
  <2>. QED
    BY <2>3 DEF Arrays
<1>7. /\ kPushed' \in Seq(Seq(L!Values)) /\ Len(kPushed') = new /\ kPushed'[new] = elems
      /\ \A l \in 1 .. n : kPushed'[l] = kPushed[l]
  <2>. DEFINE Contents == Seq(L!Values)
  <2>1. kPushed \in Seq(Contents) /\ elems \in Contents
    BY <1>2
  <2>. HIDE DEF Contents
  <2>2. /\ Append(kPushed, elems) \in Seq(Contents) /\ Len(Append(kPushed, elems)) = Len(kPushed) + 1
        /\ Append(kPushed, elems)[Len(kPushed) + 1] = elems
        /\ \A l \in 1 .. Len(kPushed) : Append(kPushed, elems)[l] = kPushed[l]
    BY <2>1, Appended
  <2>3. /\ kPushed' \in Seq(Contents) /\ Len(kPushed') = new /\ kPushed'[new] = elems
        /\ \A l \in 1 .. n : kPushed'[l] = kPushed[l]
    BY <1>2, <1>3, <1>4, <2>2
  <2>. QED
    BY <2>3 DEF Contents
<1>8. \A l \in 1 .. new : l = new \/ l \in 1 .. n
  BY <1>4
<1>9. \A l \in 1 .. new : Sized(kKind'[l], kData'[l], Len(kPushed'[l]))
  <2>1. \A l \in 1 .. n : Sized(kKind[l], kData[l], Len(kPushed[l]))
    BY <1>1 DEF ListTypes
  <2>. QED
    BY <1>5, <1>6, <1>7, <1>8, <2>1
<1>10. ListTypes'
  BY <1>5, <1>6, <1>7, <1>9 DEF ListTypes, Sized
<1>11. ASSUME NEW l \in 1 .. new, l \notin kCut', NEW i \in 1 .. Len(kPushed'[l])
       PROVE  Reads(kKind'[l], kData'[l], i, kPushed'[l][i])
  <2>1. CASE l = new
    BY <1>4, <1>5, <1>6, <1>7, <1>11, <2>1
  <2>2. CASE l \in 1 .. n
    <3>1. l \notin kCut /\ i \in 1 .. Len(kPushed[l])
      BY <1>7, <1>11, <2>2
    <3>2. Reads(kKind[l], kData[l], i, kPushed[l][i])
      BY <1>1, <2>2, <3>1 DEF Stored
    <3>. QED
      BY <1>5, <1>6, <1>7, <2>2, <3>2
  <2>. QED
    BY <1>8, <2>1, <2>2
<1>12. Stored'
  BY <1>5, <1>11 DEF Stored, Reads
<1>. QED
  BY <1>1, <1>4, <1>5, <1>10, <1>12

\* The elements of a literal.
LEMMA LiteralIs ==
    ASSUME NEW elems \in L!BoundedSeq(L!Values, 2)
    PROVE  /\ elems \in Seq(L!Values) /\ L!LiteralKind(elems) \in {L!PTR, L!I32}
           /\ L!LiteralKind(elems) = L!I32 => \A i \in 1 .. Len(elems) : elems[i] \in Ints
<1>1. elems \in Seq(L!Values)
  <2>1. PICK m \in 0 .. 2 : elems \in [1 .. m -> L!Values]
    BY DEF L!BoundedSeq, L!SeqOf
  <2>. QED
    BY <2>1
<1>2. L!LiteralKind(elems) = L!I32 => \A i \in 1 .. Len(elems) : elems[i] \in Ints
  BY <1>1 DEF L!LiteralKind, L!ToSet, L!PTR, L!I32
<1>. QED
  BY <1>1, <1>2 DEF L!LiteralKind

\* A list from a literal.
LEMMA LiteralStep ==
    ASSUME ListTypes, Stored, NEW elems \in L!BoundedSeq(L!Values, 2), L!AllocateLiteral(elems),
           kCut' = kCut
    PROVE  /\ ListTypes' /\ Stored' /\ L!New = Len(kKind') /\ Len(kKind') = Len(kKind) + 1
           /\ kKind'[L!New] = L!LiteralKind(elems) /\ \A l \in 1 .. Len(kKind) : kKind'[l] = kKind[l]
<1>1. PICK k \in {L!PTR, L!I32} : k = L!LiteralKind(elems)
  BY LiteralIs
<1>2. elems \in Seq(L!Values) /\ (k = L!I32 => \A i \in 1 .. Len(elems) : elems[i] \in Ints)
  BY <1>1, LiteralIs
<1>3. PICK a : a = L!Array(k, elems)
  OBVIOUS
<1>4. /\ a \in Seq(HalfWords) /\ Sized(k, a, Len(elems))
      /\ \A i \in 1 .. Len(elems) : Reads(k, a, i, elems[i])
  BY <1>2, <1>3, ArrayIs
<1>5. L!Allocate(k, a, elems)
  BY <1>1, <1>3 DEF L!AllocateLiteral
<1>6. /\ ListTypes' /\ Stored' /\ L!New = Len(kKind') /\ Len(kKind') = Len(kKind) + 1
      /\ kKind'[L!New] = k /\ \A l \in 1 .. Len(kKind) : kKind'[l] = kKind[l]
  BY <1>2, <1>4, <1>5, AllocateStep
<1>. QED
  BY <1>1, <1>6

\* u holds s, then t.
EndToEnd(u, s, t) ==
    /\ Len(u) = Len(s) + Len(t)
    /\ \A i \in 1 .. Len(s) : u[i] = s[i]
    /\ \A i \in 1 .. Len(t) : u[Len(s) + i] = t[i]

\* What two sequences hold end to end.
LEMMA Concatenation ==
    ASSUME NEW E, NEW s, s \in Seq(E), NEW t, t \in Seq(E), NEW u, u = s \o t
    PROVE  u \in Seq(E) /\ EndToEnd(u, s, t)
BY DEF EndToEnd

\* Two arrays of words, one after the other, hold the elements of both.
LEMMA JoinedReads ==
    ASSUME NEW p \in Seq(L!Values), NEW q \in Seq(L!Values),
           NEW a \in Seq(HalfWords), NEW b \in Seq(HalfWords),
           Len(a) = 2 * Len(p), Len(b) = 2 * Len(q)
    PROVE  /\ a \o b \in Seq(HalfWords) /\ p \o q \in Seq(L!Values)
           /\ Sized(L!PTR, a \o b, Len(p \o q))
           /\ (/\ \A i \in 1 .. Len(p) : a[2 * i - 1] = L!Low(p[i]) /\ a[2 * i] = L!High(p[i])
               /\ \A i \in 1 .. Len(q) : b[2 * i - 1] = L!Low(q[i]) /\ b[2 * i] = L!High(q[i]))
              => \A i \in 1 .. Len(p \o q) : Reads(L!PTR, a \o b, i, (p \o q)[i])
<1>1. PICK n \in Nat, m \in Nat : n = Len(p) /\ m = Len(q)
  OBVIOUS
<1>2. PICK c : c = a \o b
  OBVIOUS
<1>3. PICK r : r = p \o q
  OBVIOUS
<1>4. PICK nn \in Nat, mm \in Nat : nn = 2 * n /\ mm = 2 * m
  OBVIOUS
<1>5. Len(a) = nn /\ Len(b) = mm
  BY <1>1, <1>4
<1>6. /\ c \in Seq(HalfWords) /\ Len(c) = nn + mm
      /\ \A i \in 1 .. nn : c[i] = a[i]
      /\ \A i \in 1 .. mm : c[nn + i] = b[i]
  <2>1. a \in Seq(HalfWords) /\ b \in Seq(HalfWords)
    OBVIOUS
  <2>2. c \in Seq(HalfWords) /\ EndToEnd(c, a, b)
    BY <1>2, <2>1, Concatenation
  <2>. QED
    BY <1>5, <2>2 DEF EndToEnd
<1>7. /\ r \in Seq(L!Values) /\ Len(r) = n + m
      /\ \A i \in 1 .. n : r[i] = p[i]
      /\ \A i \in 1 .. m : r[n + i] = q[i]
  <2>1. p \in Seq(L!Values) /\ q \in Seq(L!Values)
    OBVIOUS
  <2>2. r \in Seq(L!Values) /\ EndToEnd(r, p, q)
    BY <1>3, <2>1, Concatenation
  <2>. QED
    BY <1>1, <2>2 DEF EndToEnd
<1>8. L!PTR # L!I32
  BY DEF L!PTR, L!I32
<1>9. Sized(L!PTR, c, Len(r))
  <2>1. 2 * (n + m) = nn + mm
    BY <1>4
  <2>. QED
    BY <1>6, <1>7, <1>8, <2>1 DEF Sized
<1>10. ASSUME \A i \in 1 .. n : a[2 * i - 1] = L!Low(p[i]) /\ a[2 * i] = L!High(p[i]),
              \A i \in 1 .. m : b[2 * i - 1] = L!Low(q[i]) /\ b[2 * i] = L!High(q[i]),
              NEW i \in 1 .. n + m
       PROVE  c[2 * i - 1] = L!Low(r[i]) /\ c[2 * i] = L!High(r[i])
  <2>1. CASE i \in 1 .. n
    <3>1. 2 * i - 1 \in 1 .. nn /\ 2 * i \in 1 .. nn
      BY <1>4, <2>1
    <3>. QED
      BY <1>6, <1>7, <1>10, <2>1, <3>1
  <2>2. CASE i \notin 1 .. n
    <3>1. PICK j \in 1 .. m : i = n + j
      BY <2>2
    <3>2. /\ 2 * j - 1 \in 1 .. mm /\ 2 * j \in 1 .. mm
          /\ 2 * i - 1 = nn + (2 * j - 1) /\ 2 * i = nn + 2 * j
      BY <1>4, <3>1
    <3>3. c[2 * i - 1] = b[2 * j - 1] /\ c[2 * i] = b[2 * j] /\ r[i] = q[j]
      BY <1>6, <1>7, <3>1, <3>2
    <3>. QED
      BY <1>10, <3>1, <3>3
  <2>. QED
    BY <2>1, <2>2
<1>. QED
  BY <1>1, <1>2, <1>3, <1>6, <1>7, <1>8, <1>9, <1>10 DEF Reads

\* A sequence over a smaller set.
LEMMA Widened == ASSUME NEW A, NEW B, A \subseteq B, NEW s \in Seq(A) PROVE s \in Seq(B)
OBVIOUS

\* One more name is hidden, or none.
LEMMA Hiding ==
    ASSUME NEW n \in Nat, NEW m \in Nat, n <= m, HiddenTypes(n), NEW x \in Vars, NEW l \in 0 .. n,
           kHidden' = kHidden \/ kHidden' = Append(kHidden, [name |-> x, list |-> l])
    PROVE  HiddenTypes(m)'
<1>. DEFINE Narrow == [name : Vars, list : 0 .. n]
            Wide == [name : Vars, list : 0 .. m]
<1>1. Narrow \subseteq Wide /\ kHidden \in Seq(Narrow)
  BY DEF HiddenTypes
<1>2. [name |-> x, list |-> l] \in Wide
  OBVIOUS
<1>. HIDE DEF Narrow, Wide
<1>3. kHidden \in Seq(Wide)
  BY <1>1, Widened
<1>4. kHidden' \in Seq(Wide)
  BY <1>2, <1>3
<1>. QED
  BY <1>4 DEF HiddenTypes, Wide

\* A name is defined: the others keep what they hold, which stays of the same kind.
LEMMA NamesStep ==
    ASSUME NamesRight, NEW n \in Nat, n = Len(kKind), NEW m \in Nat, m = Len(kKind'), n <= m,
           \A k \in 1 .. n : kKind'[k] = kKind[k],
           NEW x \in Vars, NEW l \in 0 .. m, L!Define(x, l),
           \A y \in Vars \ {x} : y \in kTyped' /\ y \notin kRecast' => y \in kTyped /\ y \notin kRecast,
           x \in kTyped' /\ x \notin kRecast' /\ l # 0 => kKind'[l] = L!I32
    PROVE  NamesRight'
<1>1. /\ kVar \in [Vars -> 0 .. n] /\ kVar' = [kVar EXCEPT ![x] = l]
      /\ kHidden' = kHidden \/ kHidden' = Append(kHidden, [name |-> x, list |-> kVar[x]])
  BY DEF NamesRight, L!Define
<1>2. kVar' \in [Vars -> 0 .. m] /\ kVar'[x] = l
  BY <1>1
<1>3. ASSUME NEW y \in Vars, y \in kTyped', y \notin kRecast', kVar'[y] # 0
      PROVE  kKind'[kVar'[y]] = L!I32
  <2>1. CASE y = x
    BY <1>2, <1>3, <2>1
  <2>2. CASE y # x
    <3>1. y \in kTyped /\ y \notin kRecast /\ kVar'[y] = kVar[y]
      BY <1>1, <1>3, <2>2
    <3>2. kKind[kVar[y]] = L!I32 /\ kVar[y] \in 1 .. n
      BY <1>1, <1>3, <3>1 DEF NamesRight
    <3>. QED
      BY <3>1, <3>2
  <2>. QED
    BY <2>1, <2>2
<1>4. HiddenTypes(m)'
  <2>1. HiddenTypes(n) /\ kVar[x] \in 0 .. n
    BY <1>1 DEF NamesRight
  <2>. QED
    BY <1>1, <2>1, Hiding
<1>. QED
  BY <1>2, <1>3, <1>4 DEF NamesRight, HiddenTypes

\* Two lists of words, joined.
LEMMA JoinStep ==
    ASSUME ListTypes, Stored, NEW p \in Seq(L!Values), NEW q \in Seq(L!Values),
           NEW a \in Seq(HalfWords), NEW b \in Seq(HalfWords),
           Len(a) = 2 * Len(p), Len(b) = 2 * Len(q),
           L!Allocate(L!PTR, a \o b, p \o q), kCut \subseteq kCut',
           L!New \notin kCut' =>
               /\ \A i \in 1 .. Len(p) : a[2 * i - 1] = L!Low(p[i]) /\ a[2 * i] = L!High(p[i])
               /\ \A i \in 1 .. Len(q) : b[2 * i - 1] = L!Low(q[i]) /\ b[2 * i] = L!High(q[i])
    PROVE  /\ ListTypes' /\ Stored' /\ L!New = Len(kKind') /\ Len(kKind') = Len(kKind) + 1
           /\ \A l \in 1 .. Len(kKind) : kKind'[l] = kKind[l]
<1>1. PICK c : c = a \o b
  OBVIOUS
<1>2. PICK r : r = p \o q
  OBVIOUS
<1>3. /\ c \in Seq(HalfWords) /\ r \in Seq(L!Values) /\ Sized(L!PTR, c, Len(r))
      /\ L!New \notin kCut' => \A i \in 1 .. Len(r) : Reads(L!PTR, c, i, r[i])
  BY <1>1, <1>2, JoinedReads
<1>4. L!Allocate(L!PTR, c, r)
  BY <1>1, <1>2
<1>. QED
  BY <1>3, <1>4, AllocateStep

\* A name that has been declared holds a list.
LEMMA Declared ==
    ASSUME ListTypes, NamesRight, NEW x \in Vars, kVar[x] # 0
    PROVE  kVar[x] \in 1 .. Len(kKind)
<1>1. PICK n \in Nat : n = Len(kKind)
  BY DEF ListTypes
<1>2. kVar[x] \in 0 .. n
  BY <1>1 DEF NamesRight
<1>. QED
  BY <1>1, <1>2

\* The length of the lists.
LEMMA Allocated == ASSUME ListTypes PROVE Len(kKind) \in Nat
BY DEF ListTypes

\* The name that a declaration or an assignment leaves recast, or not.
LEMMA Recast ==
    ASSUME NEW x \in Vars, NEW b, L!Recasting(x, b)
    PROVE  /\ x \notin kRecast' => ~b
           /\ \A y \in Vars \ {x} : y \notin kRecast' => y \notin kRecast
BY DEF L!Recasting

\* A declaration types its name, and no other.
LEMMA Typed ==
    ASSUME NEW x \in Vars, NEW l, NEW lit, NEW from, L!Bind(x, l, lit, from)
    PROVE  /\ L!Define(x, l)
           /\ x \in kTyped' => lit = L!I32 \/ from \cap kTyped # {}
           /\ \A y \in Vars \ {x} : y \in kTyped' => y \in kTyped
BY DEF L!Bind

\* list x = [...] and x = [...]
LEMMA LiteralsStep ==
    ASSUME ListInv, NEW x \in Vars, NEW elems \in L!BoundedSeq(L!Values, 2),
           NEW lit \in L!LastLiteral(elems),
           L!DeclareLiteral(x, elems, lit) \/ L!Assign(x, elems, lit)
    PROVE  ListInv'
<1>1. L!AllocateLiteral(elems) /\ kCut' = kCut
  BY DEF L!DeclareLiteral, L!Assign
<1>2. ListTypes /\ Stored /\ NamesRight
  BY DEF ListInv
<1>3. /\ ListTypes' /\ Stored' /\ L!New = Len(kKind') /\ Len(kKind') = Len(kKind) + 1
      /\ kKind'[L!New] = L!LiteralKind(elems) /\ \A l \in 1 .. Len(kKind) : kKind'[l] = kKind[l]
  BY <1>1, <1>2, LiteralStep
<1>4. PICK n \in Nat, m \in Nat : n = Len(kKind) /\ m = Len(kKind') /\ m = n + 1 /\ L!New = m
  BY <1>2, <1>3, Allocated
<1>5. /\ L!Define(x, m)
      /\ \A y \in Vars \ {x} : y \in kTyped' /\ y \notin kRecast' => y \in kTyped /\ y \notin kRecast
      /\ x \in kTyped' /\ x \notin kRecast' => L!LiteralKind(elems) = L!I32
  <2>1. CASE L!DeclareLiteral(x, elems, lit)
    <3>1. L!Bind(x, m, lit, {}) /\ L!Recasting(x, lit # L!LiteralKind(elems))
      BY <1>4, <2>1 DEF L!DeclareLiteral
    <3>2. /\ L!Define(x, m) /\ (x \in kTyped' => lit = L!I32)
          /\ \A y \in Vars \ {x} : y \in kTyped' => y \in kTyped
      BY <3>1, Typed
    <3>3. /\ x \notin kRecast' => lit = L!LiteralKind(elems)
          /\ \A y \in Vars \ {x} : y \notin kRecast' => y \notin kRecast
      BY <3>1, Recast
    <3>. QED
      BY <3>2, <3>3
  <2>2. CASE L!Assign(x, elems, lit)
    <3>1. L!Define(x, m) /\ kTyped' = kTyped /\ L!Recasting(x, TRUE)
      BY <1>4, <2>2 DEF L!Assign
    <3>2. x \in kRecast' /\ \A y \in Vars \ {x} : y \notin kRecast' => y \notin kRecast
      BY <3>1, Recast
    <3>. QED
      BY <3>1, <3>2
  <2>. QED
    BY <2>1, <2>2
<1>6. NamesRight'
  <2>1. n <= m /\ m \in 0 .. m /\ \A k \in 1 .. n : kKind'[k] = kKind[k]
    BY <1>3, <1>4
  <2>2. x \in kTyped' /\ x \notin kRecast' /\ m # 0 => kKind'[m] = L!I32
    BY <1>3, <1>4, <1>5
  <2>. QED
    BY <1>2, <1>4, <1>5, <2>1, <2>2, NamesStep
<1>. QED
  BY <1>3, <1>6 DEF ListInv

\* A copy, the value of a call, a parameter and null: no list is made.
LEMMA ShareStep ==
    ASSUME ListInv, NEW x \in Vars,
           \/ L!DeclareNull(x)
           \/ \E y \in Vars : L!DeclareCopy(x, y) \/ L!BindUntyped(x, y)
           \/ \E r \in DOMAIN kKind, lit \in {L!PTR, L!I32} : L!DeclareCall(x, r, lit)
    PROVE  ListInv'
<1>1. ListTypes /\ Stored /\ NamesRight /\ UNCHANGED <<kKind, kData, kPushed, kCut>>
  BY DEF ListInv, L!DeclareNull, L!DeclareCopy, L!BindUntyped, L!DeclareCall
<1>2. PICK n \in Nat : n = Len(kKind) /\ n = Len(kKind') /\ DOMAIN kKind = 1 .. n
  BY <1>1 DEF ListTypes
<1>3. SUFFICES ASSUME NEW l \in 0 .. n, L!Define(x, l),
                      \A y \in Vars \ {x} : y \in kTyped' /\ y \notin kRecast'
                                              => y \in kTyped /\ y \notin kRecast,
                      x \in kTyped' /\ x \notin kRecast' /\ l # 0 => kKind[l] = L!I32
               PROVE  NamesRight'
  <2>1. ASSUME L!DeclareNull(x) PROVE NamesRight'
    <3>1. L!Bind(x, 0, kLast, {}) /\ kRecast' = kRecast /\ 0 \in 0 .. n
      BY <2>1 DEF L!DeclareNull
    <3>2. L!Define(x, 0) /\ \A y \in Vars \ {x} : y \in kTyped' => y \in kTyped
      BY <3>1, Typed
    <3>. QED
      BY <1>3, <3>1, <3>2
  <2>2. ASSUME NEW y \in Vars, L!DeclareCopy(x, y) PROVE NamesRight'
    <3>1. L!Bind(x, kVar[y], L!PTR, {y}) /\ L!Recasting(x, y \in kRecast) /\ kVar[y] # 0
      BY <2>2 DEF L!DeclareCopy
    <3>2. /\ L!Define(x, kVar[y])
          /\ x \in kTyped' => y \in kTyped
          /\ \A z \in Vars \ {x} : z \in kTyped' => z \in kTyped
      BY <3>1, Typed DEF L!PTR, L!I32
    <3>3. (x \notin kRecast' => y \notin kRecast) /\ \A z \in Vars \ {x} : z \notin kRecast' => z \notin kRecast
      BY <3>1, Recast
    <3>4. /\ kVar[y] \in 0 .. n
          /\ y \in kTyped /\ y \notin kRecast => kKind[kVar[y]] = L!I32
      BY <1>1, <1>2, <3>1 DEF NamesRight
    <3>. QED
      BY <1>3, <3>2, <3>3, <3>4
  <2>3. ASSUME NEW y \in Vars, L!BindUntyped(x, y) PROVE NamesRight'
    <3>1. L!Define(x, kVar[y]) /\ L!Recasting(x, TRUE) /\ kTyped' = kTyped
      BY <2>3 DEF L!BindUntyped
    <3>2. x \in kRecast' /\ \A z \in Vars \ {x} : z \notin kRecast' => z \notin kRecast
      BY <3>1, Recast
    <3>3. kVar[y] \in 0 .. n
      BY <1>1, <1>2 DEF NamesRight
    <3>. QED
      BY <1>3, <3>1, <3>2, <3>3
  <2>4. ASSUME NEW r \in DOMAIN kKind, NEW lit \in {L!PTR, L!I32}, L!DeclareCall(x, r, lit)
        PROVE  NamesRight'
    <3>1. L!Bind(x, r, lit, {}) /\ L!Recasting(x, lit = L!I32) /\ r \in 0 .. n
      BY <1>2, <2>4 DEF L!DeclareCall
    <3>2. /\ L!Define(x, r) /\ (x \in kTyped' => lit = L!I32)
          /\ \A y \in Vars \ {x} : y \in kTyped' => y \in kTyped
      BY <3>1, Typed
    <3>3. (x \notin kRecast' => lit # L!I32) /\ \A z \in Vars \ {x} : z \notin kRecast' => z \notin kRecast
      BY <3>1, Recast
    <3>. QED
      BY <1>3, <3>1, <3>2, <3>3
  <2>5. NamesRight'
    BY <2>1, <2>2, <2>3, <2>4
  <2>. QED
    BY <1>1, <2>5 DEF ListInv, ListTypes, Stored
<1>4. n <= n /\ \A k \in 1 .. n : kKind'[k] = kKind[k]
  BY <1>1
<1>. QED
  BY <1>1, <1>2, <1>3, <1>4, NamesStep

\* The end of an inner scope.
LEMMA LeaveScopeStep ==
    ASSUME ListInv, L!LeaveScope
    PROVE  ListInv'
<1>1. ListTypes /\ Stored /\ NamesRight
  BY DEF ListInv
<1>2. PICK n \in Nat : n = Len(kKind)
  BY <1>1 DEF ListTypes
<1>3. kHidden \in Seq([name : Vars, list : 0 .. n]) /\ kHidden # <<>> /\ kVar \in [Vars -> 0 .. n]
  BY <1>1, <1>2 DEF NamesRight, HiddenTypes, L!LeaveScope
<1>4. PICK outer \in [name : Vars, list : 0 .. n] : outer = kHidden[Len(kHidden)]
  <2>. DEFINE Shadows == [name : Vars, list : 0 .. n]
  <2>1. kHidden \in Seq(Shadows) /\ kHidden # <<>>
    BY <1>3
  <2>. HIDE DEF Shadows
  <2>2. kHidden[Len(kHidden)] \in Shadows
    BY <2>1
  <2>. QED
    BY <2>2 DEF Shadows
<1>5. /\ kVar' = [kVar EXCEPT ![outer.name] = outer.list] /\ L!Recasting(outer.name, TRUE)
      /\ kHidden' = L!Front(kHidden) /\ UNCHANGED <<kKind, kData, kPushed, kTyped, kCut>>
  BY <1>4 DEF L!LeaveScope, L!Last
<1>6. outer.name \in Vars /\ outer.list \in 0 .. n
  BY <1>4
<1>7. kVar' \in [Vars -> 0 .. n] /\ \A y \in Vars \ {outer.name} : kVar'[y] = kVar[y]
  BY <1>3, <1>5, <1>6
<1>8. outer.name \in kRecast' /\ \A y \in Vars \ {outer.name} : y \notin kRecast' => y \notin kRecast
  BY <1>5, <1>6, Recast
<1>9. HiddenTypes(n)'
  <2>. DEFINE Shadows == [name : Vars, list : 0 .. n]
  <2>1. kHidden \in Seq(Shadows) /\ kHidden # <<>>
    BY <1>3
  <2>. HIDE DEF Shadows
  <2>2. L!Front(kHidden) \in Seq(Shadows)
    BY <2>1 DEF L!Front
  <2>. QED
    BY <1>5, <2>2 DEF HiddenTypes, Shadows
<1>10. NamesRight'
  BY <1>1, <1>2, <1>5, <1>7, <1>8, <1>9 DEF NamesRight, HiddenTypes
<1>. QED
  BY <1>1, <1>5, <1>10 DEF ListInv, ListTypes, Stored

\* The words of a list, and those of a literal in a PTR list.
LEMMA LiteralWords ==
    ASSUME NEW elems \in Seq(L!Values)
    PROVE  /\ L!Array(L!PTR, elems) \in Seq(HalfWords)
           /\ Len(L!Array(L!PTR, elems)) = 2 * Len(elems)
           /\ \A i \in 1 .. Len(elems) :
                 /\ L!Array(L!PTR, elems)[2 * i - 1] = L!Low(elems[i])
                 /\ L!Array(L!PTR, elems)[2 * i] = L!High(elems[i])
<1>1. PICK k \in {L!PTR, L!I32} : k = L!PTR /\ k # L!I32
  BY DEF L!PTR, L!I32
<1>2. /\ L!Array(k, elems) \in Seq(HalfWords)
      /\ Sized(k, L!Array(k, elems), Len(elems))
      /\ \A i \in 1 .. Len(elems) : Reads(k, L!Array(k, elems), i, elems[i])
  BY <1>1, ArrayIs
<1>. QED
  BY <1>1, <1>2 DEF Sized, Reads

LEMMA DeclareConcatStep ==
    ASSUME ListInv, NEW x \in Vars, NEW y \in Vars, NEW elems \in L!BoundedSeq(L!Values, 2),
           NEW lit, L!DeclareConcat(x, y, elems, lit)
    PROVE  ListInv'
<1>1. ListTypes /\ Stored /\ NamesRight
  BY DEF ListInv
<1>2. PICK l \in 1 .. Len(kKind) : l = kVar[y]
  BY <1>1, Declared DEF L!DeclareConcat
<1>3. /\ L!Allocate(L!PTR, L!Words(l) \o L!Array(L!PTR, elems), kPushed[l] \o elems)
      /\ L!Bind(x, L!New, lit, {}) /\ L!Recasting(x, TRUE)
      /\ kCut' = IF {l} \cap kCut # {} THEN kCut \cup {L!New} ELSE kCut
  BY <1>2 DEF L!DeclareConcat, L!CutBy
<1>4. PICK a, b, p : a = L!Words(l) /\ b = L!Array(L!PTR, elems) /\ p = kPushed[l]
  OBVIOUS
<1>5. /\ a \in Seq(HalfWords) /\ Len(a) = 2 * Len(p)
      /\ l \notin kCut => \A i \in 1 .. Len(p) : a[2 * i - 1] = L!Low(p[i]) /\ a[2 * i] = L!High(p[i])
  BY <1>1, <1>4, WordsAre
<1>6. elems \in Seq(L!Values)
  BY LiteralIs
<1>7. /\ b \in Seq(HalfWords) /\ Len(b) = 2 * Len(elems)
      /\ \A i \in 1 .. Len(elems) : b[2 * i - 1] = L!Low(elems[i]) /\ b[2 * i] = L!High(elems[i])
  BY <1>4, <1>6, LiteralWords
<1>8. p \in Seq(L!Values)
  BY <1>1, <1>4 DEF ListTypes
<1>9. kCut \subseteq kCut' /\ (L!New \notin kCut' => l \notin kCut)
  BY <1>3
<1>10. L!Allocate(L!PTR, a \o b, p \o elems)
  BY <1>3, <1>4
<1>11. /\ ListTypes' /\ Stored' /\ L!New = Len(kKind') /\ Len(kKind') = Len(kKind) + 1
       /\ \A k \in 1 .. Len(kKind) : kKind'[k] = kKind[k]
  BY <1>1, <1>5, <1>6, <1>7, <1>8, <1>9, <1>10, JoinStep
<1>12. PICK n \in Nat, m \in Nat : n = Len(kKind) /\ m = Len(kKind') /\ m = n + 1 /\ L!New = m
  BY <1>1, <1>11, Allocated
<1>13. L!Define(x, m) /\ \A z \in Vars \ {x} : z \in kTyped' => z \in kTyped
  BY <1>3, <1>12, Typed
<1>14. x \in kRecast' /\ \A z \in Vars \ {x} : z \notin kRecast' => z \notin kRecast
  BY <1>3, Recast
<1>15. NamesRight'
  <2>1. n <= m /\ m \in 0 .. m /\ \A k \in 1 .. n : kKind'[k] = kKind[k]
    BY <1>11, <1>12
  <2>2. x \in kTyped' /\ x \notin kRecast' /\ m # 0 => kKind'[m] = L!I32
    BY <1>14
  <2>3. \A z \in Vars \ {x} : z \in kTyped' /\ z \notin kRecast' => z \in kTyped /\ z \notin kRecast
    BY <1>13, <1>14
  <2>. QED
    BY <1>1, <1>12, <1>13, <2>1, <2>2, <2>3, NamesStep
<1>. QED
  BY <1>11, <1>15 DEF ListInv

LEMMA DeclareSumStep ==
    ASSUME ListInv, NEW x \in Vars, NEW y \in Vars, NEW z \in Vars, L!DeclareSum(x, y, z)
    PROVE  ListInv'
<1>1. ListTypes /\ Stored /\ NamesRight
  BY DEF ListInv
<1>2. PICK l \in 1 .. Len(kKind) : l = kVar[y]
  BY <1>1, Declared DEF L!DeclareSum
<1>3. PICK r \in 1 .. Len(kKind) : r = kVar[z]
  BY <1>1, Declared DEF L!DeclareSum
<1>4. /\ L!Allocate(L!PTR, L!Words(l) \o L!Words(r), kPushed[l] \o kPushed[r])
      /\ L!Bind(x, L!New, L!PTR, {}) /\ L!Recasting(x, FALSE)
      /\ kCut' = IF {l, r} \cap kCut # {} THEN kCut \cup {L!New} ELSE kCut
  BY <1>2, <1>3 DEF L!DeclareSum, L!CutBy
<1>5. PICK a, b, p, q : a = L!Words(l) /\ b = L!Words(r) /\ p = kPushed[l] /\ q = kPushed[r]
  OBVIOUS
<1>6. /\ a \in Seq(HalfWords) /\ Len(a) = 2 * Len(p)
      /\ l \notin kCut => \A i \in 1 .. Len(p) : a[2 * i - 1] = L!Low(p[i]) /\ a[2 * i] = L!High(p[i])
  BY <1>1, <1>5, WordsAre
<1>7. /\ b \in Seq(HalfWords) /\ Len(b) = 2 * Len(q)
      /\ r \notin kCut => \A i \in 1 .. Len(q) : b[2 * i - 1] = L!Low(q[i]) /\ b[2 * i] = L!High(q[i])
  BY <1>1, <1>5, WordsAre
<1>8. p \in Seq(L!Values) /\ q \in Seq(L!Values)
  BY <1>1, <1>5 DEF ListTypes
<1>9. kCut \subseteq kCut' /\ (L!New \notin kCut' => l \notin kCut /\ r \notin kCut)
  BY <1>4
<1>10. L!Allocate(L!PTR, a \o b, p \o q)
  BY <1>4, <1>5
<1>11. /\ ListTypes' /\ Stored' /\ L!New = Len(kKind') /\ Len(kKind') = Len(kKind) + 1
       /\ \A k \in 1 .. Len(kKind) : kKind'[k] = kKind[k]
  BY <1>1, <1>6, <1>7, <1>8, <1>9, <1>10, JoinStep
<1>12. PICK n \in Nat, m \in Nat : n = Len(kKind) /\ m = Len(kKind') /\ m = n + 1 /\ L!New = m
  BY <1>1, <1>11, Allocated
<1>13. L!Define(x, m) /\ x \notin kTyped' /\ \A w \in Vars \ {x} : w \in kTyped' => w \in kTyped
  BY <1>4, <1>12, Typed DEF L!PTR, L!I32
<1>14. \A w \in Vars \ {x} : w \notin kRecast' => w \notin kRecast
  BY <1>4, Recast
<1>15. NamesRight'
  <2>1. n <= m /\ m \in 0 .. m /\ \A k \in 1 .. n : kKind'[k] = kKind[k]
    BY <1>11, <1>12
  <2>2. x \in kTyped' /\ x \notin kRecast' /\ m # 0 => kKind'[m] = L!I32
    BY <1>13
  <2>3. \A w \in Vars \ {x} : w \in kTyped' /\ w \notin kRecast' => w \in kTyped /\ w \notin kRecast
    BY <1>13, <1>14
  <2>. QED
    BY <1>1, <1>12, <1>13, <2>1, <2>2, <2>3, NamesStep
<1>. QED
  BY <1>11, <1>15 DEF ListInv

\* One element of a sequence is replaced.
LEMMA Replaced ==
    ASSUME NEW T, NEW s \in Seq(T), NEW j \in 1 .. Len(s), NEW e \in T,
           NEW r, r = [s EXCEPT ![j] = e]
    PROVE  /\ r \in Seq(T) /\ Len(r) = Len(s) /\ r[j] = e
           /\ \A n \in 1 .. Len(s) : n # j => r[n] = s[n]
OBVIOUS

\* duxrt_list_set writes the halves of one element: an I32 list keeps the low one, which
\* is the whole of an integer.
LEMMA SetReads ==
    ASSUME ListTypes, Stored, NEW l \in 1 .. Len(kKind), NEW i \in Nat, i < Len(kPushed[l]),
           NEW v \in L!Values, NEW a, a = L!RtSet(l, i, v),
           NEW p, p = [kPushed[l] EXCEPT ![i + 1] = v]
    PROVE  /\ a \in Seq(HalfWords) /\ p \in Seq(L!Values) /\ Sized(kKind[l], a, Len(p))
           /\ l \notin kCut /\ (kKind[l] = L!I32 => v \in Ints) =>
                 \A n \in 1 .. Len(p) : Reads(kKind[l], a, n, p[n])
<1>1. kData[l] \in Seq(HalfWords) /\ kPushed[l] \in Seq(L!Values)
  BY DEF ListTypes
<1>2. PICK len \in Nat, j \in Nat : len = Len(kPushed[l]) /\ j = i + 1 /\ j \in 1 .. len
  BY <1>1
<1>3. PICK old : old = kData[l]
  OBVIOUS
<1>4. PICK held : held = kPushed[l]
  OBVIOUS
<1>5. /\ p \in Seq(L!Values) /\ Len(p) = len /\ p[j] = v
      /\ \A n \in 1 .. len : n # j => p[n] = held[n]
  <2>1. held \in Seq(L!Values) /\ Len(held) = len /\ p = [held EXCEPT ![j] = v]
    BY <1>1, <1>2, <1>4
  <2>2. j \in 1 .. Len(held)
    BY <1>2, <2>1
  <2>3. PICK r : r = [held EXCEPT ![j] = v]
    OBVIOUS
  <2>4. /\ r \in Seq(L!Values) /\ Len(r) = Len(held) /\ r[j] = v
        /\ \A n \in 1 .. Len(held) : n # j => r[n] = held[n]
    BY <2>1, <2>2, <2>3, Replaced
  <2>. QED
    BY <2>1, <2>3, <2>4
<1>6. L!Low(v) \in HalfWords /\ L!High(v) \in HalfWords
  BY DEF HalfWords
<1>7. Sized(kKind[l], old, len)
  BY <1>2, <1>3 DEF ListTypes
<1>8. ASSUME l \notin kCut, NEW n \in 1 .. len PROVE Reads(kKind[l], old, n, held[n])
  BY <1>2, <1>3, <1>4, <1>8 DEF Stored
<1>9. CASE kKind[l] = L!I32
  <2>1. a = [old EXCEPT ![j] = L!Low(v)] /\ old \in Seq(HalfWords) /\ Len(old) = len
    BY <1>1, <1>2, <1>3, <1>7, <1>9 DEF L!RtSet, Sized
  <2>2. /\ a \in Seq(HalfWords) /\ Len(a) = len /\ a[j] = L!Low(v)
        /\ \A n \in 1 .. len : n # j => a[n] = old[n]
    BY <1>2, <1>6, <2>1
  <2>3. ASSUME l \notin kCut, v \in Ints, NEW n \in 1 .. len
        PROVE  a[n] = L!Low(p[n]) /\ L!High(p[n]) = Zero
    <3>1. CASE n = j
      BY <1>5, <2>2, <2>3, <3>1 DEF L!High, Zero
    <3>2. CASE n # j
      <4>1. old[n] = L!Low(held[n]) /\ L!High(held[n]) = Zero
        BY <1>8, <1>9, <2>3 DEF Reads
      <4>. QED
        BY <1>5, <2>2, <3>2, <4>1
    <3>. QED
      BY <3>1, <3>2
  <2>. QED
    BY <1>5, <1>9, <2>2, <2>3 DEF Sized, Reads
<1>10. CASE kKind[l] # L!I32
  <2>1. PICK m \in Nat : m = 2 * len
    OBVIOUS
  <2>2. PICK lo \in 1 .. m, hi \in 1 .. m : lo = 2 * i + 1 /\ hi = 2 * i + 2 /\ lo # hi
    BY <1>2, <2>1
  <2>3. a = [old EXCEPT ![lo] = L!Low(v), ![hi] = L!High(v)]
    BY <1>3, <1>10, <2>2 DEF L!RtSet
  <2>4. old \in Seq(HalfWords) /\ Len(old) = m
    BY <1>1, <1>3, <1>7, <1>10, <2>1 DEF Sized
  <2>5. /\ a \in Seq(HalfWords) /\ Len(a) = m /\ a[lo] = L!Low(v) /\ a[hi] = L!High(v)
        /\ \A h \in 1 .. m : h # lo /\ h # hi => a[h] = old[h]
    BY <1>6, <2>2, <2>3, <2>4
  <2>6. ASSUME l \notin kCut, NEW n \in 1 .. len
        PROVE  a[2 * n - 1] = L!Low(p[n]) /\ a[2 * n] = L!High(p[n])
    <3>1. PICK b \in 1 .. m, c \in 1 .. m : b = 2 * n - 1 /\ c = 2 * n
      BY <2>1
    <3>2. CASE n = j
      <4>1. b = lo /\ c = hi
        BY <1>2, <2>2, <3>1, <3>2
      <4>. QED
        BY <1>5, <2>5, <3>1, <3>2, <4>1
    <3>3. CASE n # j
      <4>1. b # lo /\ b # hi /\ c # lo /\ c # hi
        BY <1>2, <2>2, <3>1, <3>3
      <4>2. old[b] = L!Low(held[n]) /\ old[c] = L!High(held[n])
        BY <1>8, <1>10, <2>6, <3>1 DEF Reads
      <4>3. a[b] = L!Low(p[n]) /\ a[c] = L!High(p[n])
        BY <1>5, <2>5, <3>3, <4>1, <4>2
      <4>. QED
        BY <3>1, <4>3
    <3>. QED
      BY <3>2, <3>3
  <2>7. Len(a) = 2 * Len(p)
    BY <1>5, <2>1, <2>5
  <2>. QED
    BY <1>5, <1>10, <2>5, <2>6, <2>7 DEF Sized, Reads
<1>. QED
  BY <1>9, <1>10

\* The elements of one list are replaced.
LEMMA ReplaceStep ==
    ASSUME ListTypes, Stored, NEW l \in 1 .. Len(kKind), NEW a \in Seq(HalfWords),
           NEW p \in Seq(L!Values), Sized(kKind[l], a, Len(p)), kKind' = kKind,
           kData' = [kData EXCEPT ![l] = a], kPushed' = [kPushed EXCEPT ![l] = p],
           kCut \subseteq kCut',
           l \notin kCut' => \A i \in 1 .. Len(p) : Reads(kKind[l], a, i, p[i])
    PROVE  ListTypes' /\ Stored'
<1>. DEFINE Arrays == Seq(HalfWords)
            Contents == Seq(L!Values)
<1>1. PICK n \in Nat : n = Len(kKind) /\ n = Len(kKind')
  BY DEF ListTypes
<1>2. /\ kData \in Seq(Arrays) /\ Len(kData) = n /\ a \in Arrays
      /\ kPushed \in Seq(Contents) /\ Len(kPushed) = n /\ p \in Contents /\ l \in 1 .. n
  BY <1>1 DEF ListTypes
<1>. HIDE DEF Arrays, Contents
<1>3. /\ kData' \in Seq(Arrays) /\ Len(kData') = n /\ kData'[l] = a
      /\ \A k \in 1 .. n : k # l => kData'[k] = kData[k]
  BY <1>2
<1>4. /\ kPushed' \in Seq(Contents) /\ Len(kPushed') = n /\ kPushed'[l] = p
      /\ \A k \in 1 .. n : k # l => kPushed'[k] = kPushed[k]
  BY <1>2
<1>5. ASSUME NEW k \in 1 .. n PROVE Sized(kKind'[k], kData'[k], Len(kPushed'[k]))
  <2>1. Sized(kKind[k], kData[k], Len(kPushed[k]))
    BY <1>1 DEF ListTypes
  <2>. QED
    BY <1>3, <1>4, <2>1
<1>6. ListTypes'
  <2>1. kKind' \in Seq({L!PTR, L!I32})
    BY DEF ListTypes
  <2>2. kData' \in Seq(Seq(HalfWords)) /\ kPushed' \in Seq(Seq(L!Values))
    BY <1>3, <1>4 DEF Arrays, Contents
  <2>. QED
    BY <1>1, <1>3, <1>4, <1>5, <2>1, <2>2 DEF ListTypes, Sized
<1>7. ASSUME NEW k \in 1 .. n, k \notin kCut', NEW i \in 1 .. Len(kPushed'[k])
      PROVE  Reads(kKind'[k], kData'[k], i, kPushed'[k][i])
  <2>1. CASE k = l
    BY <1>3, <1>4, <1>7, <2>1
  <2>2. CASE k # l
    <3>1. k \notin kCut /\ i \in 1 .. Len(kPushed[k])
      BY <1>4, <1>7, <2>2
    <3>2. Reads(kKind[k], kData[k], i, kPushed[k][i])
      BY <1>1, <3>1 DEF Stored
    <3>. QED
      BY <1>3, <1>4, <2>2, <3>2
  <2>. QED
    BY <2>1, <2>2
<1>8. Stored'
  BY <1>1, <1>7 DEF Stored, Reads
<1>. QED
  BY <1>6, <1>8

LEMMA AssignIndexStep ==
    ASSUME ListInv, NEW x \in Vars, NEW i \in Int, NEW v \in L!Values, L!AssignIndex(x, i, v)
    PROVE  ListInv'
<1>1. ListTypes /\ Stored /\ NamesRight
  BY DEF ListInv
<1>2. PICK l \in 1 .. Len(kKind) : l = kVar[x]
  BY <1>1, Declared DEF L!AssignIndex
<1>3. UNCHANGED <<kKind, kVar, kTyped, kHidden, kRecast>>
  BY DEF L!AssignIndex
<1>4. NamesRight'
  BY <1>1, <1>3 DEF NamesRight, HiddenTypes
<1>5. CASE ~ L!InRange(l, i)
  <2>1. UNCHANGED <<kData, kPushed, kCut>>
    BY <1>2, <1>5 DEF L!AssignIndex
  <2>. QED
    BY <1>1, <1>3, <1>4, <2>1 DEF ListInv, ListTypes, Stored
<1>6. CASE L!InRange(l, i)
  <2>1. PICK n : n = L!Index(l, i)
    OBVIOUS
  <2>2. Len(kPushed[l]) \in Nat
    BY <1>1 DEF ListTypes
  <2>3. n \in Nat /\ n < Len(kPushed[l])
    BY <1>6, <2>1, <2>2 DEF L!InRange
  <2>4. PICK a : a = L!RtSet(l, n, v)
    OBVIOUS
  <2>5. PICK p : p = [kPushed[l] EXCEPT ![n + 1] = v]
    OBVIOUS
  <2>6. /\ kData' = [kData EXCEPT ![l] = a]
        /\ kPushed' = [kPushed EXCEPT ![l][n + 1] = v]
        /\ kCut' = IF kKind[l] = L!I32 /\ v \notin Ints THEN kCut \cup {l} ELSE kCut
    BY <1>2, <1>6, <2>1, <2>4 DEF L!AssignIndex
  <2>7. kPushed' = [kPushed EXCEPT ![l] = p]
    BY <2>5, <2>6
  <2>8. /\ a \in Seq(HalfWords) /\ p \in Seq(L!Values) /\ Sized(kKind[l], a, Len(p))
        /\ l \notin kCut /\ (kKind[l] = L!I32 => v \in Ints) =>
              \A m \in 1 .. Len(p) : Reads(kKind[l], a, m, p[m])
    BY <1>1, <2>3, <2>4, <2>5, SetReads
  <2>9. kCut \subseteq kCut'
    BY <2>6
  <2>10. l \notin kCut' => l \notin kCut /\ (kKind[l] = L!I32 => v \in Ints)
    BY <2>6
  <2>11. l \notin kCut' => \A m \in 1 .. Len(p) : Reads(kKind[l], a, m, p[m])
    BY <2>8, <2>10
  <2>12. ListTypes' /\ Stored'
    BY <1>1, <1>3, <2>6, <2>7, <2>8, <2>9, <2>11, ReplaceStep
  <2>. QED
    BY <1>4, <2>12 DEF ListInv
<1>. QED
  BY <1>5, <1>6

\* The reads by index and in a for loop.
LEMMA ReadsRight ==
    ASSUME ListInv
    PROVE  L!ReadsElement
<1>. SUFFICES ASSUME NEW x \in Vars, kVar[x] # 0, kVar[x] \notin kCut, NEW i \in DOMAIN kPushed[kVar[x]]
              PROVE  L!IndexedRight(x, i) /\ (x \in kRecast \/ L!LoopRight(x, i))
  BY DEF L!ReadsElement
<1>1. ListTypes /\ Stored /\ NamesRight
  BY DEF ListInv
<1>2. PICK l \in 1 .. Len(kKind) : l = kVar[x]
  BY <1>1, Declared
<1>3. i \in 1 .. Len(kPushed[l])
  BY <1>1, <1>2 DEF ListTypes
<1>4. Reads(kKind[l], kData[l], i, kPushed[l][i])
  BY <1>1, <1>2, <1>3 DEF Stored
<1>5. L!RtGet(l, i) = L!WordOf(kPushed[l][i])
  BY <1>4, GetReads
<1>6. ASSUME x \in kTyped, x \notin kRecast PROVE L!DirectGet(l, i) = L!WordOf(kPushed[l][i])
  <2>1. kKind[l] = L!I32
    BY <1>1, <1>2, <1>6 DEF NamesRight
  <2>. QED
    BY <1>4, <2>1, DirectReads
<1>. QED
  BY <1>2, <1>5, <1>6 DEF L!IndexedRight, L!LoopRight, L!ForGet

\* One statement compiled and executed.
LEMMA ListNext == ASSUME ListInv, L!Next PROVE ListInv'
<1>1. CASE L!LeaveScope
  BY <1>1, LeaveScopeStep
<1>2. ASSUME NEW x \in Vars, NEW elems \in L!BoundedSeq(L!Values, 2), NEW lit \in L!LastLiteral(elems),
             \/ L!DeclareLiteral(x, elems, lit) \/ L!Assign(x, elems, lit)
             \/ \E y \in Vars : L!DeclareConcat(x, y, elems, lit)
      PROVE  ListInv'
  BY <1>2, LiteralsStep, DeclareConcatStep
<1>3. ASSUME NEW x \in Vars, NEW y \in Vars,
             L!DeclareCopy(x, y) \/ L!BindUntyped(x, y) \/ \E z \in Vars : L!DeclareSum(x, y, z)
      PROVE  ListInv'
  BY <1>3, ShareStep, DeclareSumStep
<1>4. ASSUME NEW x \in Vars,
             \/ \E l \in DOMAIN kKind, lit \in {L!PTR, L!I32} : L!DeclareCall(x, l, lit)
             \/ L!DeclareNull(x)
      PROVE  ListInv'
  BY <1>4, ShareStep
<1>5. ASSUME NEW x \in Vars, NEW i \in -MaxLen..(MaxLen - 1), NEW v \in L!Values, L!AssignIndex(x, i, v)
      PROVE  ListInv'
  BY <1>5, AssignIndexStep
<1>. QED
  BY <1>1, <1>2, <1>3, <1>4, <1>5 DEF L!Next

\* No list yet.
LEMMA ListStart == ASSUME L!Init PROVE ListInv
<1>1. /\ kKind = <<>> /\ kData = <<>> /\ kPushed = <<>> /\ kVar = [x \in Vars |-> 0]
      /\ kTyped = {} /\ kHidden = <<>>
  BY DEF L!Init
<1>2. Len(kKind) = 0 /\ Len(kData) = 0 /\ Len(kPushed) = 0
  BY <1>1
<1>3. kKind \in Seq({L!PTR, L!I32}) /\ kData \in Seq(Seq(HalfWords)) /\ kPushed \in Seq(Seq(L!Values))
  BY <1>1
<1>4. ListTypes /\ Stored
  BY <1>2, <1>3 DEF ListTypes, Stored
<1>5. NamesRight
  BY <1>1, <1>2 DEF NamesRight, HiddenTypes
<1>. QED
  BY <1>4, <1>5 DEF ListInv

\* A list outside `cut' holds what was stored in it, and a name outside `recast' that
\* gen_var_decl typed holds a list of integers, through literals within elements and
\* arguments, shadowing and the ends of scopes.
THEOREM ListConsistent == L!Spec => []ListInv
<1>1. ListInv /\ [L!Next]_(L!vars) => ListInv'
  <2>1. ASSUME ListInv, UNCHANGED L!vars PROVE ListInv'
    BY <2>1 DEF ListInv, ListTypes, Stored, NamesRight, HiddenTypes, L!vars
  <2>. QED
    BY <2>1, ListNext
<1>. QED
  BY <1>1, ListStart, PTL DEF L!Spec

-----------------------------------------------------------------------------
(* The parts of MCSequential                                               *)

\* Each part, whatever the others do, is its component.
LEMMA PartsAre == SequentialSpec => Spec /\ L!Spec /\ O!Spec /\ S!Spec
<1>1. SequentialInit => Init /\ L!Init /\ O!Init /\ S!Init
  BY DEF SequentialInit
<1>2. [SequentialNext]_allVars => [Next]_vars /\ [O!Next]_(O!vars) /\ [S!Next]_(S!vars)
  BY DEF SequentialNext, DictPart, ListPart, OwnerPart, WalkPart, allVars, vars, oVars, O!vars, sVars, S!vars
<1>3. [SequentialNext]_allVars => [L!Next]_(L!vars)
  BY DEF SequentialNext, DictPart, ListPart, OwnerPart, WalkPart, allVars, kVars, L!vars
<1>. QED
  BY <1>1, <1>2, <1>3, PTL DEF SequentialSpec, Spec, L!Spec, O!Spec, S!Spec

\* In a program that uses dicts among other things: no call on a dict searches for
\* ever, each key in the table has one copy, and lookups answer as a map would (dict.c).
THEOREM DictServes == SequentialSpec => []ProbeEnds /\ []KeysOwned /\ Implements
BY SequentialAssumption, PartsAre, DictProbesEnd, DictOwnsKeys, DictIsMap

\* After any sequence of declarations, copies, sums, calls, scopes and assignments, in
\* both representations, the direct read of a for loop and the reads by index find the
\* element that was stored, except in a list of `cut', and the loop through a name of
\* `recast' (gen_for_in with typed_list_vars_, duxrt_list_get and duxrt_list_set of list.c).
THEOREM ElementsRead == SequentialSpec => []ReadsElement
<1>1. ListInv => ReadsElement
  BY ReadsRight DEF ReadsElement
<1>. QED
  BY <1>1, PartsAre, ListConsistent, PTL

\* At every point of the walk of semantic analysis the verdict on each statement is
\* the one the constructs around it call for, at any depth: what was entered and left
\* before leaves no trace (check_stmt, check_expr, check_var_decl of sema.cpp).
THEOREM VerdictsByContext == SequentialSpec => []JudgedByContext
<1>1. WalkInv => JudgedByContext
  BY VerdictsRight DEF JudgedByContext
<1>. QED
  BY <1>1, PartsAre, WalkConsistent, PTL

\* And the count of every object outside `exempt' is the number of its owners (str.c,
\* list.c, dict.c, codegen.cpp).
THEOREM OwnersCounted == SequentialSpec => []CountsExact
<1>1. O!CountsExact <=> CountsExact
  BY DEF CountsExact
<1>. QED
  BY <1>1, SequentialAssumption, PartsAre, ReferenceCountsExact, PTL
=============================================================================

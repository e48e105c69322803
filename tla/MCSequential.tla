---------------------------- MODULE MCSequential ----------------------------
(***************************************************************************)
(* What runs alone: the dict, the two representations of a list, the       *)
(* references a function holds, and the second pass of semantic analysis.  *)
(* `part' says which one a behaviour is about; the others stay where they  *)
(* start.  Functions end, so deadlock is not checked.                      *)
(***************************************************************************)
EXTENDS Dict

CONSTANTS
    Parts,                              \* of "dict", "list", "owner", "walk"
    Vars, Ints, Ptrs, MaxLen, MaxLists, MaxHidden, \* of ListKinds
    Locals, Param, MaxObjects,          \* of Ownership
    MaxDepth,                           \* of SemaWalk
    k1, k2, k3, k4

\* k1 and k2 collide until the table has grown; k3 follows them, k4 is the last slot.
Hashes == (k1 :> 0) @@ (k2 :> 4) @@ (k3 :> 1) @@ (k4 :> 3)

VARIABLES
    part,
    kKind, kData, kPushed, kVar, kTyped, kLast, kHidden, kRecast, kCut,
    oRc, oSlot, oScope, oElements, oTry, oResult, oControl, oExempt, oStale,
    sOpen, sFlags, sScopes, sOk

L == INSTANCE ListKinds WITH
        kind <- kKind, data <- kData, pushed <- kPushed, var <- kVar, typed <- kTyped,
        last <- kLast, hidden <- kHidden, recast <- kRecast, cut <- kCut
O == INSTANCE Ownership WITH
        rc <- oRc, slot <- oSlot, scope <- oScope, elements <- oElements, in_try <- oTry,
        result <- oResult, control <- oControl, exempt <- oExempt, stale <- oStale
S == INSTANCE SemaWalk WITH
        open <- sOpen, flags <- sFlags, scopes <- sScopes, ok <- sOk

ASSUME SequentialAssumption == DictAssumption /\ O!OwnershipAssumption

-----------------------------------------------------------------------------
kVars == <<kKind, kData, kPushed, kVar, kTyped, kLast, kHidden, kRecast, kCut>>
oVars == <<oRc, oSlot, oScope, oElements, oTry, oResult, oControl, oExempt, oStale>>
sVars == <<sOpen, sFlags, sScopes, sOk>>
allVars == <<part, vars, kVars, oVars, sVars>>

SequentialInit ==
    /\ part \in Parts
    /\ Init /\ L!Init /\ O!Init /\ S!Init

DictPart == part = "dict" /\ Next /\ UNCHANGED <<part, kVars, oVars, sVars>>
ListPart == part = "list" /\ L!Next /\ UNCHANGED <<part, vars, oVars, sVars>>
OwnerPart == part = "owner" /\ O!Next /\ UNCHANGED <<part, vars, kVars, sVars>>
WalkPart == part = "walk" /\ S!Next /\ UNCHANGED <<part, vars, kVars, oVars>>

SequentialNext == DictPart \/ ListPart \/ OwnerPart \/ WalkPart

SequentialSpec == SequentialInit /\ [][SequentialNext]_allVars

-----------------------------------------------------------------------------
(* The properties of the parts; those of Dict come with EXTENDS.           *)

\* ListKinds: what is read is the element, with the exceptions and without.
ReadsElement == L!ReadsElement
ElementsKept == L!ElementsKept
\* Ownership: every count is the number of owners.
CountsExact == O!CountsExact
\* Ownership: the caller keeps its argument.
CallerKeeps == O!CallerKeeps
\* Ownership: a container refers to nothing that is freed.
ElementsAlive == O!ElementsAlive
\* SemaWalk: a verdict depends on the constructs around.
JudgedByContext == S!JudgedByContext

=============================================================================

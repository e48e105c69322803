----------------------------- MODULE Ownership ------------------------------
(***************************************************************************)
(* Who owns a str, a list or a dict: the reference counts of the runtime   *)
(* (src/src/runtime/str.c, list.c, dict.c) and the retains and releases    *)
(* that src/src/codegen/codegen.cpp emits for declarations, assignments,   *)
(* delete, return and the end of a function.  The three types follow one   *)
(* scheme, and the model has one type.                                     *)
(*                                                                         *)
(* One function executes, statement by statement.  Its parameter refers to *)
(* an object of its caller.  A container is known by what it refers to: it *)
(* neither retains what is stored in it nor releases what it lets go.      *)
(***************************************************************************)
EXTENDS Integers, Sequences, FiniteSetsExt

CONSTANTS
    Locals,       \* names of local variables
    Param,        \* the name of the parameter
    MaxObjects,   \* bound: objects allocated
    MaxRefs       \* bound: the count of an object of which a reference is lost

Null == 0
Caller == 1      \* the object of the caller
Names == Locals \cup {Param}

\* A function has finitely many locals; a local hides no parameter of the model.
OwnershipAssumption == IsFiniteSet(Locals) /\ Param \notin Locals

VARIABLES
    rc,        \* rc[o]: the reference count of object o; 0 when it is freed
    slot,      \* slot[x]: what variable x refers to
    scope,     \* the locals declared so far: env_define has registered them
    elements,  \* the objects that containers refer to
    in_try,    \* the code that executes is in a try block
    result,    \* what the function has returned
    control,   \* "running" | "returned"
    exempt,    \* objects that met one of the forms the scheme does not serve (history):
               \* a call in a try block, a variable stored in a container, an element
               \* read from one or let go by it, a fresh value that nothing keeps, a
               \* variable assigned an element or null, the parameter assigned to or
               \* deleted, the last reference assigned to itself
    stale      \* a freed object not in exempt has been retained or released (history)

vars == <<rc, slot, scope, elements, in_try, result, control, exempt, stale>>

Init ==
    /\ rc = <<1>>
    /\ slot = [x \in Names |-> IF x = Param THEN Caller ELSE Null]
    /\ scope = {}
    /\ elements = {}
    /\ in_try = FALSE
    /\ result = Null
    /\ control = "running"
    /\ exempt = {} /\ stale = FALSE

Stale(counts, o) == o # Null /\ counts[o] = 0 /\ o \notin exempt

\* duxrt_*_retain and duxrt_*_release, which accept null.
Retained(counts, o) == IF o = Null THEN counts ELSE [counts EXCEPT ![o] = @ + 1]
Released(counts, o) ==
    IF o = Null \/ counts[o] = 0 THEN counts ELSE [counts EXCEPT ![o] = @ - 1]

New == Len(rc) + 1
Running == control = "running"

\* Mutant: the value of a call is retained like that of a variable.
FreshRetained(origin) == 2

\* maybe_retain_*: the value of a call instruction is consumed with the count it
\* has.  Inside a try block the call of a function is an invoke, which is not one.
Fresh(origin) == IF origin = "call" /\ in_try THEN 2 ELSE 1

Origins == {"literal", "call"}

FromTry(origin) == IF origin = "call" /\ in_try THEN {New} ELSE {}

EnterTry ==
    /\ Running /\ ~in_try
    /\ in_try' = TRUE
    /\ UNCHANGED <<rc, slot, scope, elements, result, control, exempt, stale>>

Declare(x, o) ==
    /\ slot' = [slot EXCEPT ![x] = o]
    /\ scope' = scope \cup {x}

\* list x = [...]  or  list x = f()
DeclareFresh(x, origin) ==
    /\ Running /\ x \notin scope /\ New <= MaxObjects
    /\ rc' = Append(rc, Fresh(origin))
    /\ Declare(x, New)
    /\ exempt' = exempt \cup FromTry(origin)
    /\ UNCHANGED <<elements, in_try, result, control, stale>>

\* Mutant: the reference is copied without a retain.
DeclareAlias(x, y) ==
    /\ Running /\ x \notin scope /\ y \in scope \cup {Param}
    /\ Declare(x, slot[y])
    /\ UNCHANGED <<rc, elements, in_try, result, control, exempt, stale>>

\* list x = y
DeclareCopy(x, y) ==
    /\ Running /\ x \notin scope /\ y \in scope \cup {Param}
    /\ rc' = Retained(rc, slot[y])
    /\ stale' = (stale \/ Stale(rc, slot[y]))
    /\ Declare(x, slot[y])
    /\ UNCHANGED <<elements, in_try, result, control, exempt>>

\* xs[i] = [...], d[k] = f(), [..., [...]]: the container keeps the only reference.
StoreFresh ==
    /\ Running /\ New <= MaxObjects
    /\ rc' = Append(rc, 1)
    /\ elements' = elements \cup {New}
    /\ UNCHANGED <<slot, scope, in_try, result, control, exempt, stale>>

\* xs[i] = x, d[k] = x, [..., x]: no reference is counted for the container.
StoreVariable(x) ==
    /\ Running /\ x \in scope \cup {Param} /\ slot[x] # Null
    /\ elements' = elements \cup {slot[x]}
    /\ exempt' = exempt \cup {slot[x]}
    /\ UNCHANGED <<rc, slot, scope, in_try, result, control, stale>>

\* An element is overwritten, or its container freed: it is not released.
LetGo(o) ==
    /\ Running /\ o \in elements
    /\ elements' = elements \ {o}
    /\ exempt' = exempt \cup {o}
    /\ UNCHANGED <<rc, slot, scope, in_try, result, control, stale>>

\* f(), g([...]), [...][i]: a fresh value that no variable and no container keeps is
\* released by nobody.
Discard ==
    /\ Running /\ New <= MaxObjects
    /\ rc' = Append(rc, 1)
    /\ exempt' = exempt \cup {New}
    /\ UNCHANGED <<slot, scope, elements, in_try, result, control, stale>>

\* str x = xs[i]: the value of the call of duxrt_list_get, taken for a fresh one.
DeclareElement(x, o) ==
    /\ Running /\ x \notin scope /\ o \in elements
    /\ Declare(x, o)
    /\ exempt' = exempt \cup {o}
    /\ UNCHANGED <<rc, elements, in_try, result, control, stale>>

\* What x = o puts out of the scheme's reach: the parameter releases what the caller
\* owns, and is not released itself.
ByParam(x, o) == IF x = Param THEN {slot[x], o} ELSE {}

\* x = [...]  or  x = f(): the old value is released.
AssignFresh(x, origin) ==
    /\ Running /\ x \in scope \cup {Param} /\ New <= MaxObjects
    /\ rc' = Append(Released(rc, slot[x]), Fresh(origin))
    /\ stale' = (stale \/ Stale(rc, slot[x]))
    /\ slot' = [slot EXCEPT ![x] = New]
    /\ exempt' = exempt \cup FromTry(origin) \cup ByParam(x, New)
    /\ UNCHANGED <<scope, elements, in_try, result, control>>

\* x = xs[i]  or  x = null: a value that has none of the three types when gen_assign
\* looks, so the old value is not released and the new one not retained.
AssignUntyped(x, o) ==
    /\ Running /\ x \in scope \cup {Param} /\ o \in elements \cup {Null}
    /\ slot[x] # Null => rc[slot[x]] <= MaxRefs
    /\ slot' = [slot EXCEPT ![x] = o]
    /\ exempt' = exempt \cup {slot[x], o}
    /\ UNCHANGED <<rc, scope, elements, in_try, result, control, stale>>

\* x = y: y is loaded, the old value of x released, and then y's retained.
AssignCopy(x, y) ==
    /\ Running /\ {x, y} \subseteq scope \cup {Param}
    /\ LET after == Released(rc, slot[x])
       IN  /\ rc' = Retained(after, slot[y])
           /\ exempt' = exempt \cup ByParam(x, slot[y])
                          \cup (IF x = y /\ slot[x] # Null /\ after[slot[x]] = 0
                                THEN {slot[x]} ELSE {})
           /\ stale' = (stale \/ Stale(rc, slot[x]) \/ (x # y /\ Stale(after, slot[y])))
    /\ slot' = [slot EXCEPT ![x] = slot[y]]
    /\ UNCHANGED <<scope, elements, in_try, result, control>>

\* Mutant: the slot keeps the pointer, and the end of the scope releases it again.
DeleteDangling(x) ==
    /\ Running /\ x \in scope \cup {Param}
    /\ rc' = Released(rc, slot[x])
    /\ stale' = (stale \/ Stale(rc, slot[x]))
    /\ exempt' = exempt \cup ByParam(x, Null)
    /\ UNCHANGED <<slot, scope, elements, in_try, result, control>>

\* delete x: released, and the slot is null from there on.
Delete(x) ==
    /\ Running /\ x \in scope \cup {Param}
    /\ rc' = Released(rc, slot[x])
    /\ stale' = (stale \/ Stale(rc, slot[x]))
    /\ slot' = [slot EXCEPT ![x] = Null]
    /\ exempt' = exempt \cup ByParam(x, Null)
    /\ UNCHANGED <<scope, elements, in_try, result, control>>

\* The cleanups of the function: every local releases what it holds.
Holders(o) == {x \in scope : slot[x] = o}

Cleaned(counts) ==
    [o \in DOMAIN counts |-> Max({0, counts[o] - Cardinality(Holders(o))})]

Overreleased(counts) ==
    \E o \in DOMAIN counts \ exempt : counts[o] < Cardinality(Holders(o))

\* Mutant: the value is retained after the cleanups.
ReturnLate(x) ==
    /\ Running /\ x \in scope \cup {Param}
    /\ LET counts == Cleaned(rc)
       IN  /\ rc' = Retained(counts, slot[x])
           /\ stale' = (stale \/ Overreleased(rc) \/ Stale(counts, slot[x]))
    /\ result' = slot[x]
    /\ control' = "returned"
    /\ UNCHANGED <<slot, scope, elements, in_try, exempt>>

\* return x: the value is retained before the cleanups.
Return(x) ==
    /\ Running /\ x \in scope \cup {Param}
    /\ LET counts == Retained(rc, slot[x])
       IN  /\ rc' = Cleaned(counts)
           /\ stale' = (stale \/ Stale(rc, slot[x]) \/ Overreleased(counts))
    /\ result' = slot[x]
    /\ control' = "returned"
    /\ UNCHANGED <<slot, scope, elements, in_try, exempt>>

\* The end of the function without a value.
ReturnNothing ==
    /\ Running
    /\ rc' = Cleaned(rc)
    /\ stale' = (stale \/ Overreleased(rc))
    /\ control' = "returned"
    /\ UNCHANGED <<slot, scope, elements, in_try, result, exempt>>

Next ==
    \/ EnterTry \/ StoreFresh \/ Discard \/ ReturnNothing
    \/ \E o \in elements : LetGo(o)
    \/ \E x \in Locals :
          \/ \E origin \in Origins : DeclareFresh(x, origin)
          \/ \E y \in Names : DeclareCopy(x, y)
          \/ \E o \in elements : DeclareElement(x, o)
    \/ \E x \in Names :
          \/ \E origin \in Origins : AssignFresh(x, origin)
          \/ \E o \in elements \cup {Null} : AssignUntyped(x, o)
          \/ \E y \in Names : AssignCopy(x, y)
          \/ StoreVariable(x)
          \/ Delete(x)
          \/ Return(x)

Spec == Init /\ [][Next]_vars

-----------------------------------------------------------------------------
(* Properties.                                                             *)

\* The owners of an object: the caller, the variables in scope while the function
\* runs, the containers, and the result when it has returned.
Owners(o) ==
    (IF o = Caller THEN 1 ELSE 0)
      + (IF control = "running" THEN Cardinality(Holders(o)) ELSE 0)
      + (IF o \in elements THEN 1 ELSE 0)
      + (IF control = "returned" /\ result = o THEN 1 ELSE 0)

\* maybe_retain_*, gen_assign, gen_delete, gen_return, env_pop: after every statement
\* the count of an object is the number of its owners, whatever the statements have
\* declared, assigned and deleted; so nothing is freed that is referred to, nothing is
\* released twice, and nothing is left when the function has returned.  It does not
\* hold of the objects that met one of the forms of `exempt', which a reference that is
\* not counted or not given up leaves with a wrong count.
CountsExact == ~stale /\ \A o \in DOMAIN rc \ exempt : rc[o] = Owners(o)

\* docs/memory_model.md: the caller of a function keeps its reference to an argument,
\* unless the function deletes its parameter.
CallerKeeps == slot[Param] # Null => rc[Caller] > 0

\* docs/memory_model.md: what a container refers to is retained where it is assigned,
\* so that what the function has made lives while it runs.
ElementsAlive == control = "running" => \A o \in elements \ {Caller} : rc[o] > 0

=============================================================================

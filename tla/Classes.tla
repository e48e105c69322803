------------------------------ MODULE Classes -------------------------------
(***************************************************************************)
(* What src/src/codegen/codegen.cpp makes of classes: struct layouts with  *)
(* the fields of the parent first, constructors that call the parent's,    *)
(* destructors that destroy the fields, calls resolved to a function when  *)
(* they are compiled.  One variable `v' of the program, of declared class  *)
(* `declared', holds an instance or null.                                  *)
(*                                                                         *)
(* Each class has one field, named after it.  The fields in `parts' hold   *)
(* an instance of a further class, laid out before all others, that has a  *)
(* destructor.                                                             *)
(***************************************************************************)
EXTENDS Integers, Sequences, SequencesExt

CONSTANTS
    Class,         \* the classes
    NoClass,       \* no class, no instance, nothing in a field
    Parent,        \* Parent[c]: the base of c, or NoClass
    Orders,        \* orders of declaration: sequences of all the classes
    MaxObjects     \* bound: instances made

VARIABLES
    order, laid,   \* the declarations to be laid out; those laid out, in that order
    layouts,       \* layouts[c]: [parent |-> parent_name, fields |-> its fields in order]
    overrides,     \* the classes that define the method called
    dtors,         \* the classes with a destructor that is not empty
    parts,         \* the fields that hold a part
    v, declared,   \* [cls, mem]: what v refers to; the declared class of v
    phase,         \* "idle", or in the destructor: "body", then the fields left or
                   \* "returned"
    freed,         \* freed[f]: destructions of the part in field f of the last instance
    called,        \* the last call: [want |-> , got |-> ]
    made

vars == <<order, laid, layouts, overrides, dtors, parts, v, declared, phase, freed, called, made>>
program == <<order, laid, layouts, overrides, dtors, parts>>

RECURSIVE Ancestors(_)
\* The class and its bases, nearest first.
Ancestors(c) == IF c = NoClass THEN <<>> ELSE <<c>> \o Ancestors(Parent[c])

Null == [cls |-> NoClass, mem |-> <<>>]
Idle == [in |-> "idle", left |-> <<>>]

Init ==
    /\ order \in Orders /\ laid = <<>>
    /\ layouts = [c \in Class |-> [parent |-> NoClass, fields |-> <<>>]]
    /\ overrides \in SUBSET Class /\ dtors \in SUBSET Class /\ parts \in SUBSET Class
    /\ v = Null /\ declared = NoClass /\ phase = Idle
    /\ freed = [c \in Class |-> 0]
    /\ called = [want |-> NoClass, got |-> NoClass] /\ made = 0

\* Mutant: the class's own field comes first.
FieldsOwnFirst(c, p) == <<c>> \o (IF p = NoClass THEN <<>> ELSE layouts[p].fields)
\* The fields of the base first, so that they keep their indices.
FieldsOf(c, p) == Append(IF p = NoClass THEN <<>> ELSE layouts[p].fields, c)

\* build_class_layout: a base not laid out yet is taken for an interface and skipped.
LayOut ==
    /\ order # <<>>
    /\ LET c == Head(order)
           p == IF Parent[c] \in Range(laid) THEN Parent[c] ELSE NoClass
       IN layouts' = [layouts EXCEPT ![c] = [parent |-> p, fields |-> FieldsOf(c, p)]]
    /\ laid' = Append(laid, Head(order)) /\ order' = Tail(order)
    /\ UNCHANGED <<overrides, dtors, parts, v, declared, phase, freed, called, made>>

\* The index of field f in the struct of class c (0 is the vtable), 0 if none.
Index(c, f) == SelectInSeq(layouts[c].fields, LAMBDA g : g = f)

\* The constructors of c and its bases, the base's first, each writing the field of
\* its class where its own layout puts it.
RECURSIVE Construct(_, _)
Construct(c, mem) ==
    IF c = NoClass THEN mem ELSE [Construct(Parent[c], mem) EXCEPT ![Index(c, c)] = c]

\* `K v = new C(...)'.
New(c, k) ==
    /\ order = <<>> /\ v = Null /\ made < MaxObjects /\ k \in Range(Ancestors(c))
    /\ v' = [cls |-> c, mem |-> Construct(c, [i \in 1 .. Len(laid) |-> NoClass])]
    /\ declared' = k /\ made' = made + 1
    /\ freed' = [f \in Class |-> 0]
    /\ UNCHANGED <<program, phase, called>>

\* gen_call: the function of the declared class, or of the nearest class above it
\* by the parents of the layouts.
RECURSIVE Callee(_)
Callee(c) == IF c = NoClass \/ c \in overrides THEN c ELSE Callee(layouts[c].parent)

\* What the class of the instance means by the method.
Meant(c) ==
    LET i == SelectInSeq(Ancestors(c), LAMBDA b : b \in overrides)
    IN IF i = 0 THEN NoClass ELSE Ancestors(c)[i]

\* v.m(): sema has found the method in the declared class or a base of it.
Call ==
    /\ v # Null /\ phase = Idle /\ Meant(declared) # NoClass
    /\ called' = [want |-> Meant(v.cls), got |-> Callee(declared)]
    /\ UNCHANGED <<program, v, declared, phase, freed, made>>

\* gen_delete, and emit_dtor at the end of the scope: null is skipped; a class with
\* no destructor of its own only gives the memory back.
Delete ==
    /\ v # Null /\ phase = Idle
    /\ IF declared \in dtors
       THEN phase' = [in |-> "body", left |-> layouts[declared].fields] /\ UNCHANGED v
       ELSE v' = Null /\ UNCHANGED phase
    /\ UNCHANGED <<program, declared, freed, called, made>>

\* The destructor's body deletes a part itself: the field is null from there on.
\* Mutant: the field is not nulled.
BodyDeleteDangling(f) ==
    /\ phase.in = "body" /\ f \in parts \cap Range(layouts[declared].fields)
    /\ v.mem[Index(declared, f)] = f /\ freed[f] < 2
    /\ freed' = [freed EXCEPT ![f] = @ + 1]
    /\ UNCHANGED <<program, v, declared, phase, called, made>>
BodyDelete(f) ==
    /\ phase.in = "body" /\ f \in parts \cap Range(layouts[declared].fields)
    /\ v.mem[Index(declared, f)] = f
    /\ v' = [v EXCEPT !.mem[Index(declared, f)] = NoClass]
    /\ freed' = [freed EXCEPT ![f] = @ + 1]
    /\ UNCHANGED <<program, declared, phase, called, made>>

\* An explicit return in the body: what destroys the fields is emitted after the body,
\* and only where the last block of it is still open.
BodyReturn ==
    /\ phase.in = "body"
    /\ phase' = [in |-> "returned", left |-> <<>>]
    /\ UNCHANGED <<program, v, declared, freed, called, made>>

\* The end of the body, and the fields in reverse order: each that holds a part is
\* destroyed, through a copy of the field, which keeps its pointer.
NextField ==
    /\ phase.in \in {"body", "fields"} /\ phase.left # <<>>
    /\ LET f == Last(phase.left)
       IN freed' = IF f \in parts /\ v.mem[Index(declared, f)] # NoClass
                   THEN [freed EXCEPT ![f] = @ + 1] ELSE freed
    /\ phase' = [in |-> "fields", left |-> Front(phase.left)]
    /\ UNCHANGED <<program, v, declared, called, made>>

Freed ==
    /\ phase.in # "idle" /\ phase.left = <<>>
    /\ phase' = Idle /\ v' = Null
    /\ UNCHANGED <<program, declared, freed, called, made>>

Next ==
    \/ LayOut \/ Call \/ Delete \/ BodyReturn \/ NextField \/ Freed
    \/ \E c, k \in Class : New(c, k)
    \/ \E f \in Class : BodyDelete(f)

Spec == Init /\ [][Next]_vars

-----------------------------------------------------------------------------
(* Properties.                                                             *)

\* Every base of c is declared before the class derived from it.
InOrder(c) ==
    \A i \in 1 .. Len(laid), j \in 1 .. Len(laid) :
        i < j /\ {laid[i], laid[j]} \subseteq Range(Ancestors(c)) => laid[j] # Parent[laid[i]]

\* An instance seen as any of its bases shows in each field what the constructor of
\* the field's class stored there (build_class_layout: "preserve parent indices").
\* The classes must be declared base first: the layout of one declared earlier
\* leaves the base out.
FieldsAgree ==
    v # Null /\ phase = Idle /\ InOrder(v.cls) =>
        \A k \in Range(Ancestors(v.cls)) : \A f \in Range(Ancestors(k)) :
            v.mem[Index(k, f)] = f

\* A part is destroyed at most once, whatever the destructor's body did, and an
\* instance deleted through its own class leaves no part, if it has a destructor
\* whose body runs to its end: one that returns leaves every part it did not delete.
PartsDestroyedOnce ==
    /\ \A f \in Class : freed[f] <= 1
    /\ phase.in = "fields" /\ phase.left = <<>> /\ declared = v.cls /\ InOrder(v.cls) =>
          \A f \in parts \cap Range(Ancestors(v.cls)) : freed[f] = 1

\* A call runs the method of the instance's class ("method dispatch via vtables",
\* CHANGELOG.md:127).
DispatchByInstance == called.want = called.got

=============================================================================

------------------------------ MODULE Generics ------------------------------
(***************************************************************************)
(* expand_generics of src/src/sema/generics.cpp: every mention of a        *)
(* generic type is replaced by a mangled name, and a copy of the template  *)
(* is made for each name, until no name is left without its copy.          *)
(*                                                                         *)
(* A type is a name, the arguments it is applied to, and, for a function   *)
(* type, its parameters; a name is the sequence of the identifiers that    *)
(* "__" joins.  Of a program only the mentions of types matter: where each *)
(* one is (`path': the constructs around it) and the type.  `of' is what a *)
(* mangled name stands for; nothing in the code looks at it.  The bounds   *)
(* of type parameters are left out: an unsatisfied one is printed and      *)
(* stops nothing.                                                          *)
(***************************************************************************)
EXTENDS Integers, FiniteSets, Sequences, SequencesExt

CONSTANTS
    Params,     \* Params[g]: the type parameters of the template g
    Bodies,     \* the possible bodies of the templates: functions from templates to mentions
    Mains       \* the possible programs around them: sequences of mentions

Type(name, args, fn) == [name |-> name, args |-> args, fn |-> fn, of |-> <<>>]
Mention(path, type) == [path |-> path, type |-> type]

VARIABLES
    phase,      \* "walk", "work", "end"
    body,       \* the templates
    main,       \* the mentions of the program
    pending, done,
    new_decls   \* the copies: [name, of, mentions]

vars == <<phase, body, main, pending, done, new_decls>>

Init ==
    /\ phase = "walk" /\ body \in Bodies /\ main \in Mains
    /\ pending = <<>> /\ done = {} /\ new_decls = <<>>

-----------------------------------------------------------------------------
(* Which constructs clone_* copies and fix_* enters.                       *)

ClonedExprs == {"binary", "unary", "assign", "call", "member", "index", "new", "list", "dict", "lambda"}
ClonedStmts ==
    {"block", "expression", "variable", "if", "while", "do while", "for in", "for", "switch", "try",
     "return", "assert", "delete", "label", "defer", "throw", "unsafe"}
ClonedDecls == {"result", "parameter", "initialiser list", "body", "field", "field initialiser"}
Cloned == ClonedExprs \union ClonedStmts \union ClonedDecls

WalkedExprs == {"binary", "unary", "assign", "call", "member", "index", "new", "list", "dict", "lambda"}
WalkedStmts ==
    {"block", "expression", "variable", "if", "while", "do while", "for in", "for", "switch", "try",
     "return", "assert", "delete", "label", "defer", "throw", "unsafe"}
WalkedDecls == {"result", "parameter", "body", "field"}
Walked == WalkedExprs \union WalkedStmts \union WalkedDecls

-----------------------------------------------------------------------------
(* Types.                                                                  *)

RECURSIVE Mangle(_, _), Subst(_, _), Meaning(_), Fixed(_), Uses(_)

\* mangle_generic; of a function type only the "__fn" gets into the name.
Mangle(name, args) ==
    FoldLeft(LAMBDA r, a : r \o (IF a.args = <<>> THEN a.name ELSE Mangle(a.name, a.args)), name, args)

Subst(t, s) ==
    IF t.name # <<"__fn">> /\ t.args = <<>> /\ t.name \in DOMAIN s
    THEN s[t.name]
    ELSE [t EXCEPT !.args = [i \in DOMAIN @ |-> Subst(@[i], s)], !.fn = [i \in DOMAIN @ |-> Subst(@[i], s)]]

\* What a type means, whether it has been rewritten or not.
Meaning(t) ==
    IF t.of # <<>> THEN t.of
    ELSE <<t.name, [i \in DOMAIN t.args |-> Meaning(t.args[i])], [i \in DOMAIN t.fn |-> Meaning(t.fn[i])]>>

FixedArgs(t) == [i \in DOMAIN t.args |-> Fixed(t.args[i])]

\* fix_te: what it makes of a type, the arguments first, ...
Fixed(t) ==
    [name |-> IF t.args = <<>> THEN t.name ELSE Mangle(t.name, FixedArgs(t)),
     args |-> <<>>, fn |-> [i \in DOMAIN t.fn |-> Fixed(t.fn[i])],
     of |-> IF t.args = <<>> THEN t.of ELSE Meaning(t)]

\* ... and the copies it asks for.
Uses(t) ==
    FlattenSeq([i \in DOMAIN t.args |-> Uses(t.args[i])])
    \o FlattenSeq([i \in DOMAIN t.fn |-> Uses(t.fn[i])])
    \o (IF t.args = <<>> THEN <<>>
        ELSE <<[generic |-> t.name, args |-> FixedArgs(t), mangled |-> Fixed(t).name, of |-> Meaning(t)]>>)

-----------------------------------------------------------------------------
(* Mentions.                                                               *)

\* clone_*: a construct that is not copied is lost with what is in it.
Clone(mentions, s) ==
    LET copied == SelectSeq(mentions, LAMBDA m : m.path \subseteq Cloned)
    IN  [i \in DOMAIN copied |-> [copied[i] EXCEPT !.type = Subst(@, s)]]

Reached(m) == m.path \subseteq Walked
\* fix_decl and fix_stmts.
Fix(mentions) == [i \in DOMAIN mentions |->
    IF Reached(mentions[i]) THEN [mentions[i] EXCEPT !.type = Fixed(@)] ELSE mentions[i]]
UsesOf(mentions) == FlattenSeq([i \in DOMAIN mentions |->
    IF Reached(mentions[i]) THEN Uses(mentions[i].type) ELSE <<>>])

-----------------------------------------------------------------------------
(* expand_generics *)

\* Step 2: the program itself, its templates left out.
Walk ==
    /\ phase = "walk"
    /\ main' = Fix(main) /\ pending' = UsesOf(main)
    /\ phase' = "work"
    /\ UNCHANGED <<body, done, new_decls>>

Known(key) == Len(key.generic) = 1 /\ Head(key.generic) \in DOMAIN Params
IsWanted(key) == Known(key) /\ Len(Params[Head(key.generic)]) = Len(key.args)

\* clone_class_decl, clone_generic_func: the template with the arguments for its parameters.
Copy(key) ==
    LET g == Head(key.generic)
    IN  Clone(body[g], [p \in {<<x>> : x \in Range(Params[g])} |->
                            key.args[CHOOSE i \in DOMAIN key.args : Params[g][i] = Head(p)]])

Made(key, mentions) == Append(new_decls, [name |-> key.mangled, of |-> key.of, mentions |-> mentions])

\* Mutant: the same copy is made as often as it was asked for before the first one.
InstantiateAgain ==
    /\ phase = "work" /\ pending # <<>>
    /\ LET key == Last(pending)
       IN  IF ~IsWanted(key)
           THEN pending' = Front(pending) /\ UNCHANGED <<done, new_decls>>
           ELSE /\ new_decls' = Made(key, Fix(Copy(key)))
                /\ done' = done \union {key.mangled}
                /\ pending' = Front(pending)
                       \o SelectSeq(UsesOf(Copy(key)), LAMBDA k : k.mangled \notin done')
    /\ UNCHANGED <<phase, body, main>>

\* Step 3: the last use that was asked for is taken; a name that has been seen, an
\* unknown template or the wrong number of arguments makes no copy.
Instantiate ==
    /\ phase = "work" /\ pending # <<>>
    /\ LET key == Last(pending)
       IN  IF key.mangled \in done \/ ~IsWanted(key)
           THEN /\ pending' = Front(pending) /\ done' = done \union {key.mangled}
                /\ UNCHANGED new_decls
           ELSE /\ new_decls' = Made(key, Fix(Copy(key)))
                /\ done' = done \union {key.mangled}
                /\ pending' = Front(pending)
                       \o SelectSeq(UsesOf(Copy(key)), LAMBDA k : k.mangled \notin done')
    /\ UNCHANGED <<phase, body, main>>

\* Step 4: the copies go before the program, the templates go away.
Finish ==
    /\ phase = "work" /\ pending = <<>>
    /\ phase' = "end"
    /\ UNCHANGED <<body, main, pending, done, new_decls>>

Next == Walk \/ Instantiate \/ Finish

Spec == Init /\ [][Next]_vars

-----------------------------------------------------------------------------
(* Property.                                                               *)

Emitted == UNION {Range(new_decls[i].mentions) : i \in DOMAIN new_decls} \union Range(main)

\* expand_generics: afterwards every mention it reached, in the program and in the
\* copies, names exactly one copy, and that copy is of what the mention meant.  The
\* mentions under `match' and `await', in initialiser lists and in the initialisers
\* of fields are not reached; those under `match' and `await' are lost in a copy.
Applied(t) == t.of # <<>> /\ Len(Params[Head(t.of[1])]) = Len(t.of[2])
Expanded ==
    phase = "end" =>
        \A m \in Emitted :
            Reached(m) => /\ m.type.args = <<>>
                          /\ Applied(m.type) =>
                                /\ \E d \in Range(new_decls) : d.name = m.type.name /\ d.of = m.type.of
                                /\ Cardinality({i \in DOMAIN new_decls : new_decls[i].name = m.type.name}) = 1

=============================================================================

----------------------------- MODULE ListKinds ------------------------------
(***************************************************************************)
(* Lists with two representations (src/src/runtime/list.c): an array of    *)
(* 8-byte words (elem_kind PTR) and an array of 4-byte integers (I32).     *)
(* The runtime's get and set test elem_kind; the for-in loop emitted by    *)
(* src/src/codegen/codegen.cpp reads the array directly when its           *)
(* typed_list_vars_ says, by the name of the variable, that it holds an    *)
(* I32 list.                                                               *)
(*                                                                         *)
(* The function under compilation is a sequence of statements; each step   *)
(* of the model compiles one and executes it.  A read changes nothing: the *)
(* properties read every list in every state.  An array is modelled by its *)
(* 4-byte halves: a value v of a PTR list is <<Low(v), High>>, its low     *)
(* half and the high one.  An inner scope is modelled when it declares a   *)
(* name again, and one that declares several is several, one in the other. *)
(***************************************************************************)
EXTENDS Integers, Sequences, SequencesExt

CONSTANTS
    Vars,         \* names of variables
    Ints, Ptrs,   \* element values: integers (of 4 bytes), pointers
    MaxLen,       \* bound: elements of a list
    MaxLists,     \* bound: lists allocated
    MaxHidden     \* bound: inner scopes that declare a name again

PTR == "ptr"
I32 == "i32"
Values == Ints \cup Ptrs

VARIABLES
    kind,       \* kind[l]: DuxList.elem_kind of list l
    data,       \* data[l]: the halves of its array
    pushed,     \* pushed[l]: the elements it holds (history)
    var,        \* var[x]: the list variable x holds, 0 before its declaration
    typed,      \* typed_list_vars_: the names taken to hold an I32 list
    last,       \* last_list_elem_kind_: the kind of the last literal compiled
    hidden,     \* what the names hold that inner scopes have declared again, the
                \* innermost last
    recast,     \* names whose type may not be that of what they hold (history)
    cut         \* lists in whose I32 array something longer has been stored (history)

vars == <<kind, data, pushed, var, typed, last, hidden, recast, cut>>

Init ==
    /\ kind = <<>> /\ data = <<>> /\ pushed = <<>>
    /\ var = [x \in Vars |-> 0]
    /\ typed = {} /\ last = PTR /\ hidden = <<>>
    /\ recast = {} /\ cut = {}

Low(v) == <<"low", v>>
High(v) == IF v \in Ints THEN <<"zero">> ELSE <<"high", v>>

\* A word, by its halves, and an array of words.
WordOf(v) == <<Low(v), High(v)>>
Halves(words) == [h \in 1..2 * Len(words) |-> words[(h + 1) \div 2][2 - (h % 2)]]

\* duxrt_list_push_i32, duxrt_list_push
Array(k, elems) ==
    IF k = I32 THEN [i \in DOMAIN elems |-> Low(elems[i])]
    ELSE Halves([i \in DOMAIN elems |-> WordOf(elems[i])])

\* duxrt_list_get: an I32 element is returned as a zero-extended word.
RtGet(l, i) ==
    IF kind[l] = I32 THEN <<data[l][i], <<"zero">>>>
    ELSE <<data[l][2 * i - 1], data[l][2 * i]>>

\* The direct read of gen_for_in: the i-th half of the array.
DirectGet(l, i) == <<data[l][i], <<"zero">>>>

\* A negative index counts from the end.  One out of range raises IndexError.
Index(l, i) == IF i < 0 THEN i + Len(pushed[l]) ELSE i
InRange(l, i) == Index(l, i) \in 0..(Len(pushed[l]) - 1)

\* gen_list: a literal whose elements are all integers is an I32 list.
LiteralKind(elems) == IF elems # <<>> /\ ToSet(elems) \subseteq Ints THEN I32 ELSE PTR

Allocate(k, halves, elems) ==
    /\ Len(kind) < MaxLists
    /\ kind' = Append(kind, k)
    /\ data' = Append(data, halves)
    /\ pushed' = Append(pushed, elems)

AllocateLiteral(elems) == Allocate(LiteralKind(elems), Array(LiteralKind(elems), elems), elems)

New == Len(kind) + 1

\* The kinds that the last literal compiled in [...elems] may have: gen_list sets
\* last_list_elem_kind_ for a PTR list before it compiles the elements, which may be
\* or contain literals.
LastLiteral(elems) == {LiteralKind(elems)} \cup (IF elems = <<>> THEN {} ELSE {I32})

\* env_define: in the scope of the name, or in an inner one, where it hides it.
Define(x, l) ==
    /\ var' = [var EXCEPT ![x] = l]
    /\ \/ hidden' = hidden
       \/ /\ Len(hidden) < MaxHidden
          /\ hidden' = Append(hidden, [name |-> x, list |-> var[x]])

\* Mutant: the name keeps the type an earlier declaration gave it.
BindSticky(x, l, lit, from) ==
    /\ Define(x, l)
    /\ typed' = IF lit = I32 \/ from \cap typed # {} THEN typed \cup {x} ELSE typed
    /\ last' = lit

\* gen_var_decl: the name is typed by lit, the last literal that its initialiser
\* compiles, PTR if there is none, or else by the variable that is its initialiser.
Bind(x, l, lit, from) ==
    /\ Define(x, l)
    /\ typed' = IF lit = I32 \/ from \cap typed # {} THEN typed \cup {x} ELSE typed \ {x}
    /\ last' = lit

\* Recasting: a name takes its type from a literal that is not its value (in an element,
\* an argument, a term of a sum), or changes its value and keeps its type (an assignment,
\* a declaration that gen_var_decl does not type, the end of a scope).
Recasting(x, byOther) == recast' = IF byOther THEN recast \cup {x} ELSE recast \ {x}

\* list x = [...]
DeclareLiteral(x, elems, lit) ==
    /\ AllocateLiteral(elems)
    /\ Bind(x, New, lit, {})
    /\ Recasting(x, lit # LiteralKind(elems))
    /\ UNCHANGED cut

\* list x: null, and last_list_elem_kind_ is as it was left.
DeclareNull(x) ==
    /\ Bind(x, 0, last, {})
    /\ UNCHANGED <<kind, data, pushed, recast, cut>>

\* list x = y
DeclareCopy(x, y) ==
    /\ var[y] # 0
    /\ Bind(x, var[y], PTR, {y})
    /\ Recasting(x, y \in recast)
    /\ UNCHANGED <<kind, data, pushed, cut>>

\* list x = f(...): f returns any list there is, the last literal among the
\* arguments is of kind lit.
DeclareCall(x, l, lit) ==
    /\ l \in DOMAIN kind
    /\ Bind(x, l, lit, {})
    /\ Recasting(x, lit = I32)
    /\ UNCHANGED <<kind, data, pushed, cut>>

\* duxrt_list_concat: a PTR list of the words that get returns.
Words(l) == Halves([i \in DOMAIN pushed[l] |-> RtGet(l, i)])
CutBy(ls) == IF ls \cap cut # {} THEN cut \cup {New} ELSE cut

\* list x = y + [...]: the name is typed by the literal, the last one compiled.
DeclareConcat(x, y, elems, lit) ==
    /\ var[y] # 0
    /\ Len(pushed[var[y]]) + Len(elems) <= MaxLen
    /\ Allocate(PTR, Words(var[y]) \o Array(PTR, elems), pushed[var[y]] \o elems)
    /\ Bind(x, New, lit, {})
    /\ Recasting(x, TRUE)
    /\ cut' = CutBy({var[y]})

\* list x = y + z
DeclareSum(x, y, z) ==
    /\ var[y] # 0 /\ var[z] # 0
    /\ Len(pushed[var[y]]) + Len(pushed[var[z]]) <= MaxLen
    /\ Allocate(PTR, Words(var[y]) \o Words(var[z]), pushed[var[y]] \o pushed[var[z]])
    /\ Bind(x, New, PTR, {})
    /\ Recasting(x, FALSE)
    /\ cut' = CutBy({var[y], var[z]})

\* x = [...], and static list x = [...]: gen_assign and the declaration of a static
\* leave typed_list_vars_ as it is.
Assign(x, elems, lit) ==
    /\ AllocateLiteral(elems)
    /\ Define(x, New)
    /\ last' = lit
    /\ Recasting(x, TRUE)
    /\ UNCHANGED <<typed, cut>>

\* x = y, and the declarations that leave typed_list_vars_ as it is: a parameter x of
\* another function (gen_func does not clear it), a loop variable, a static.
BindUntyped(x, y) ==
    /\ var[y] # 0
    /\ Define(x, var[y])
    /\ Recasting(x, TRUE)
    /\ UNCHANGED <<kind, data, pushed, typed, last, cut>>

\* env_pop: the name means what it meant outside, its type stays.
LeaveScope ==
    /\ hidden # <<>>
    /\ LET outer == Last(hidden)
       IN  /\ var' = [var EXCEPT ![outer.name] = outer.list]
           /\ Recasting(outer.name, TRUE)
    /\ hidden' = Front(hidden)
    /\ UNCHANGED <<kind, data, pushed, typed, last, cut>>

\* Mutant: the whole word is stored, over the next element of an I32 list.
RtSetWide(l, i, v) ==
    IF kind[l] = I32
    THEN [h \in DOMAIN data[l] |->
             IF h = i + 1 THEN Low(v) ELSE IF h = i + 2 THEN High(v) ELSE data[l][h]]
    ELSE [data[l] EXCEPT ![2 * i + 1] = Low(v), ![2 * i + 2] = High(v)]

\* duxrt_list_set: an I32 list keeps the low half.
RtSet(l, i, v) ==
    IF kind[l] = I32 THEN [data[l] EXCEPT ![i + 1] = Low(v)]
    ELSE [data[l] EXCEPT ![2 * i + 1] = Low(v), ![2 * i + 2] = High(v)]

\* x[i] = v, IndexError when out of range
AssignIndex(x, i, v) ==
    /\ var[x] # 0
    /\ LET l == var[x]
       IN  IF InRange(l, i)
           THEN /\ data' = [data EXCEPT ![l] = RtSet(l, Index(l, i), v)]
                /\ pushed' = [pushed EXCEPT ![l][Index(l, i) + 1] = v]
                /\ cut' = IF kind[l] = I32 /\ v \notin Ints THEN cut \cup {l} ELSE cut
           ELSE UNCHANGED <<data, pushed, cut>>
    /\ UNCHANGED <<kind, var, typed, last, hidden, recast>>

\* What a round of `for e in x' reads.
ForGet(x, n) == IF x \in typed THEN DirectGet(var[x], n) ELSE RtGet(var[x], n)

Next ==
    \/ LeaveScope
    \/ \E x \in Vars :
        \/ \E elems \in BoundedSeq(Values, 2) : \E lit \in LastLiteral(elems) :
              \/ DeclareLiteral(x, elems, lit) \/ Assign(x, elems, lit)
              \/ \E y \in Vars : DeclareConcat(x, y, elems, lit)
        \/ \E y \in Vars :
              DeclareCopy(x, y) \/ BindUntyped(x, y) \/ \E z \in Vars : DeclareSum(x, y, z)
        \/ \E l \in DOMAIN kind, lit \in {PTR, I32} : DeclareCall(x, l, lit)
        \/ DeclareNull(x)
        \/ \E i \in -MaxLen..(MaxLen - 1), v \in Values : AssignIndex(x, i, v)

Spec == Init /\ [][Next]_vars

-----------------------------------------------------------------------------
(* Properties.                                                             *)

\* The n-th element that x holds is read as it was stored: by index, in a for loop.
IndexedRight(x, n) == RtGet(var[x], n) = WordOf(pushed[var[x]][n])
LoopRight(x, n) == ForGet(x, n) = WordOf(pushed[var[x]][n])

\* docs/memory_model.md, Element storage: the storage an element is in is the one that
\* it is read from.  It is not for a name of `recast' or a list of `cut'.
ElementsKept ==
    \A x \in Vars : var[x] # 0 =>
        \A n \in DOMAIN pushed[var[x]] : IndexedRight(x, n) /\ LoopRight(x, n)

\* gen_for_in with typed_list_vars_, duxrt_list_get and set: after any sequence of
\* declarations, copies, sums, calls, aliases, scopes and assignments by index, in both
\* representations, each read by index and each direct read of a for loop finds the
\* element; except in a list of `cut', and the for loop through a name of `recast',
\* which gen_var_decl types by another literal or by an earlier value.
ReadsElement ==
    \A x \in Vars : var[x] # 0 /\ var[x] \notin cut =>
        \A n \in DOMAIN pushed[var[x]] :
            IndexedRight(x, n) /\ (x \in recast \/ LoopRight(x, n))

=============================================================================

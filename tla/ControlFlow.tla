---------------------------- MODULE ControlFlow -----------------------------
(***************************************************************************)
(* The control flow that src/src/codegen/codegen.cpp generates: statements *)
(* become basic blocks joined by branches, with a stack of the enclosing   *)
(* loops for break and continue.  Gen translates a program as the code     *)
(* does; the actions execute the blocks; Run says what the program means.  *)
(*                                                                         *)
(* A program reads its conditions and scrutinees from `input', a sequence  *)
(* of small numbers (0 is false), and leaves a trace of the statements it  *)
(* executed.  A machine that has read all its input stops.                 *)
(***************************************************************************)
EXTENDS Integers, Sequences, SequencesExt

CONSTANTS
    Programs,     \* statements, in the form that Run takes apart
    Inputs,       \* sequences of naturals
    IntMax        \* the largest value of the loop variable's type

VARIABLES
    prog, input,  \* the program and what it will read
    meaning,      \* what it should do: Run(prog, ...)
    code,         \* what it was compiled to
    at,           \* the block and the instruction in it to execute next
    val,          \* the last condition, comparison or scrutinee computed
    slot,         \* the variables of the for loops
    used,         \* how much of the input is read
    trace,        \* what has been executed
    status        \* "run", then how it ended

vars == <<prog, input, meaning, code, at, val, slot, used, trace, status>>

-----------------------------------------------------------------------------
(* Code under construction: the blocks, the block being filled (0 after    *)
(* the compiler itself has failed), the loop stack.                        *)

Open == [t |-> "open"]
Block == [ops |-> <<>>, term |-> Open]
NoCode == [blk |-> <<Block>>, cur |-> 1, loops |-> <<>>]

IsOpen(c) == c.cur # 0 /\ c.blk[c.cur].term = Open
SetCur(c, b) == IF c.cur = 0 THEN c ELSE [c EXCEPT !.cur = b]
More(c, n) == [c EXCEPT !.blk = @ \o [i \in 1 .. n |-> Block]]
Emit(c, op) == IF c.cur = 0 THEN c ELSE [c EXCEPT !.blk[c.cur].ops = Append(@, op)]
Term(c, t) == IF c.cur = 0 THEN c ELSE [c EXCEPT !.blk[c.cur].term = t]
Br(c, b) == Term(c, [t |-> "br", to |-> b])
CondBr(c, b1, b2) == Term(c, [t |-> "cond", yes |-> b1, no |-> b2])
CloseWith(c, b) == IF IsOpen(c) THEN Br(c, b) ELSE c

Null == 0

\* break and continue take the innermost entry of the stack, or the innermost with
\* the label, and do nothing outside loops.  An unknown label is an error, and a
\* branch to the missing header of a switch ends the compiler.
Entry(c, label) ==
    IF label = "" THEN Len(c.loops)
    ELSE SelectLastInSeq(c.loops, LAMBDA l : l.label = label)
\* Mutant: the label is not looked at.
LeaveInnermost(c, label, field) ==
    IF c.loops = <<>> \/ Last(c.loops)[field] = Null THEN c ELSE Br(c, Last(c.loops)[field])
Leave(c, label, field) ==
    LET e == Entry(c, label)
    IN IF c.loops = <<>> THEN c
       ELSE IF e = 0 \/ c.loops[e][field] = Null THEN [c EXCEPT !.cur = 0]
       ELSE Br(c, c.loops[e][field])

RECURSIVE GenCond(_, _)
\* Short circuit: the right operand has a block of its own, and the result is the
\* value computed last.
GenCond(e, c) ==
    CASE e.k = "read" -> Emit(c, [op |-> "read"])
      [] e.k \in {"and", "or"} ->
           LET n   == Len(c.blk)
               lhs == GenCond(e.l, More(c, 2))
               rhs == IF e.k = "and" THEN CondBr(lhs, n + 1, n + 2)
                      ELSE CondBr(lhs, n + 2, n + 1)
           IN SetCur(Br(GenCond(e.r, SetCur(rhs, n + 1)), n + 2), n + 2)

RECURSIVE Gen(_, _)
\* What follows a statement that ended its block is not generated.
GenStmts(ss, c) == FoldLeft(LAMBDA acc, s : IF IsOpen(acc) THEN Gen(s, acc) ELSE acc, c, ss)

\* The body of a loop, between the push and the pop of its stack entry.
Body(c, b, header, exit, label, body, back) ==
    LET in  == [SetCur(c, b) EXCEPT !.loops = Append(@, [header |-> header, exit |-> exit, label |-> label])]
        out == Gen(body, in)
    IN CloseWith([out EXCEPT !.loops = Front(@)], back)

GenIf(s, c) ==
    LET n    == Len(c.blk)
        head == CondBr(GenCond(s.c, More(c, 3)), n + 1, n + 2)
        then == CloseWith(Gen(s.a, SetCur(head, n + 1)), n + 3)
    IN SetCur(CloseWith(GenStmts(s.b, SetCur(then, n + 2)), n + 3), n + 3)

\* Blocks n+1, n+2, n+3: the condition, the body, the exit.
GenWhile(s, c) ==
    LET n    == Len(c.blk)
        head == GenCond(s.c, SetCur(Br(More(c, 3), n + 1), n + 1))
    IN SetCur(Body(CondBr(head, n + 2, n + 3), n + 2, n + 1, n + 3, s.label, s.a, n + 1), n + 3)

\* Mutant: continue goes to the start of the body.
GenDoAgain(s, c) ==
    LET n    == Len(c.blk)
        body == Body(Br(More(c, 3), n + 1), n + 1, n + 1, n + 3, "", s.a, n + 2)
    IN SetCur(CondBr(GenCond(s.c, SetCur(body, n + 2)), n + 1, n + 3), n + 3)
\* Blocks n+1, n+2, n+3: the body, the condition, the exit.
GenDoWhile(s, c) ==
    LET n    == Len(c.blk)
        body == Body(Br(More(c, 3), n + 1), n + 1, n + 2, n + 3, "", s.a, n + 2)
    IN SetCur(CondBr(GenCond(s.c, SetCur(body, n + 2)), n + 1, n + 3), n + 3)

\* A range, or a C-style for over a counter.  Blocks n+1 .. n+4: the condition, the
\* body, the increment, the exit; n+1 names the loop variable.
GenFor(s, c) ==
    LET n    == Len(c.blk)
        head == SetCur(Br(Emit(More(c, 4), [op |-> "init", s |-> n + 1]), n + 1), n + 1)
        cond == CondBr(Emit(head, [op |-> "less", s |-> n + 1, hi |-> s.hi]), n + 2, n + 4)
        body == Body(cond, n + 2, n + 3, n + 4, "", s.a, n + 3)
    IN SetCur(Br(Emit(SetCur(body, n + 3), [op |-> "inc", s |-> n + 1]), n + 1), n + 4)

\* The dispatch of switch and match: cases[i] goes to block to[i].
Dispatch(c, cases, to, default) ==
    Term(c, [t |-> "switch",
             on |-> {<<cases[i].v, to[i]>> : i \in {j \in DOMAIN cases : cases[j].v # -1}},
             default |-> default])

\* Block n+1 is the exit, n+1+i the entry of case i; -1 is default.  A case that
\* does not end goes on in the next.
GenSwitch(s, c) ==
    LET n    == Len(c.blk)
        k    == Len(s.cases)
        dflt == SelectLastInSeq(s.cases, LAMBDA x : x.v = -1)
        head == Dispatch(Emit(More(c, k + 1), [op |-> "read"]), s.cases, [i \in 1 .. k |-> n + 1 + i],
                         IF dflt = 0 THEN n + 1 ELSE n + 1 + dflt)
        in   == [head EXCEPT !.loops = Append(@, [header |-> Null, exit |-> n + 1, label |-> ""])]
        Case(acc, i) == CloseWith(GenStmts(s.cases[i].a, SetCur(acc, n + 1 + i)),
                                  IF i < k THEN n + 2 + i ELSE n + 1)
        out  == FoldLeft(Case, in, [i \in 1 .. k |-> i])
    IN SetCur([out EXCEPT !.loops = Front(@)], n + 1)

\* Block n+1 is the exit, n+2 the trap or the wildcard's, n+2+i that of arm i.  The
\* compiler reaches a wildcard (-1) wherever it is written.
GenMatch(s, c) ==
    LET n    == Len(c.blk)
        k    == Len(s.cases)
        wild == SelectLastInSeq(s.cases, LAMBDA x : x.v = -1)
        head == Dispatch(Emit(More(c, k + 2), [op |-> "read"]), s.cases, [i \in 1 .. k |-> n + 2 + i], n + 2)
        Arm(acc, i) == IF i = wild THEN Term(SetCur(acc, n + 2 + i), [t |-> "trap"])
                       ELSE CloseWith(GenStmts(s.cases[i].a, SetCur(acc, n + 2 + i)), n + 1)
        arms == SetCur(FoldLeft(Arm, head, [i \in 1 .. k |-> i]), n + 2)
    IN SetCur(IF wild = 0 THEN Term(arms, [t |-> "trap"])
              ELSE CloseWith(GenStmts(s.cases[wild].a, arms), n + 1), n + 1)

Gen(s, c) ==
    CASE s.k = "act"      -> Emit(c, [op |-> "act", n |-> s.n])
      [] s.k = "block"    -> GenStmts(s.b, c)
      [] s.k = "if"       -> GenIf(s, c)
      [] s.k = "while"    -> GenWhile(s, c)
      [] s.k = "do"       -> GenDoWhile(s, c)
      [] s.k = "for"      -> GenFor(s, c)
      [] s.k = "switch"   -> GenSwitch(s, c)
      [] s.k = "match"    -> GenMatch(s, c)
      [] s.k = "break"    -> Leave(c, s.label, "exit")
      [] s.k = "continue" -> Leave(c, s.label, "header")
      [] s.k = "return"   -> Term(c, [t |-> "ret"])

\* A function whose last block is open returns from it.
Compile(s) ==
    LET c == Gen(s, NoCode)
    IN IF c.cur = 0 THEN <<>> ELSE (IF IsOpen(c) THEN Term(c, [t |-> "ret"]) ELSE c).blk

-----------------------------------------------------------------------------
(* What a program means.  A state of the evaluation is the trace, the      *)
(* input left and how the statement ended: "go", or a jump and its label.  *)

Ended(st) == st.how # "go"
Jump(st, how, label) == [st EXCEPT !.how = how, !.label = label]
Read(st) == IF st.left = <<>> THEN Jump(st, "starved", "") ELSE [st EXCEPT !.left = Tail(@)]
Answer(st) == IF st.left = <<>> THEN 0 ELSE Head(st.left)

RECURSIVE Cond(_, _)
\* The state after a condition, and its value.
Cond(e, st) ==
    IF e.k = "read" THEN [st |-> Read(st), v |-> Answer(st)]
    ELSE LET l == Cond(e.l, st)
         IN IF Ended(l.st) \/ (l.v = 0) = (e.k = "and") THEN l ELSE Cond(e.r, l.st)

RECURSIVE Run(_, _)
RunAll(ss, st) == FoldLeft(LAMBDA acc, s : IF Ended(acc) THEN acc ELSE Run(s, acc), st, ss)

\* What is left of a jump when a loop (switch) receives it from its body.
AfterBody(st, label) ==
    IF st.how = "continue" /\ st.label \in {"", label} THEN Jump(st, "go", "") ELSE st
AfterLoop(st, label) ==
    IF st.how = "break" /\ st.label \in {"", label} THEN Jump(st, "go", "") ELSE st

RECURSIVE Loop(_, _), Count(_, _, _)
Loop(s, st) ==
    LET c == Cond(s.c, st)
        b == AfterBody(Run(s.a, c.st), s.label)
    IN IF Ended(c.st) \/ c.v = 0 THEN c.st ELSE IF Ended(b) THEN b ELSE Loop(s, b)
Count(s, i, st) ==
    LET b == AfterBody(Run(s.a, st), "")
    IN IF i >= s.hi THEN st ELSE IF Ended(b) THEN b ELSE Count(s, i + 1, b)

\* The statements of a switch from the case chosen on.
From(s, v) ==
    LET hit == SelectInSeq(s.cases, LAMBDA x : x.v = v)
        i   == IF hit # 0 THEN hit ELSE SelectInSeq(s.cases, LAMBDA x : x.v = -1)
    IN IF i = 0 THEN <<>> ELSE FoldLeft(LAMBDA acc, x : acc \o x.a, <<>>, SubSeq(s.cases, i, Len(s.cases)))

Run(s, st) ==
    CASE s.k = "act"    -> [st EXCEPT !.trace = Append(@, s.n)]
      [] s.k = "block"  -> RunAll(s.b, st)
      [] s.k = "if"     -> LET c == Cond(s.c, st)
                           IN IF Ended(c.st) THEN c.st ELSE IF c.v # 0 THEN Run(s.a, c.st) ELSE RunAll(s.b, c.st)
      [] s.k = "while"  -> AfterLoop(Loop(s, st), s.label)
      [] s.k = "do"     -> LET b == AfterBody(Run(s.a, st), "")
                           IN AfterLoop(IF Ended(b) THEN b ELSE Loop(s, b), "")
      [] s.k = "for"    -> AfterLoop(Count(s, 0, st), "")
      [] s.k = "switch" -> IF Ended(Read(st)) THEN Read(st)
                           ELSE AfterLoop(RunAll(From(s, Answer(st)), Read(st)), "")
      [] s.k = "match"  -> LET arm == SelectInSeq(s.cases, LAMBDA x : x.v = Answer(st))
                               any == SelectInSeq(s.cases, LAMBDA x : x.v = -1)
                           IN IF Ended(Read(st)) THEN Read(st)
                              ELSE IF arm # 0 THEN RunAll(s.cases[arm].a, Read(st))
                              ELSE IF any # 0 THEN RunAll(s.cases[any].a, Read(st))
                              ELSE Jump(Read(st), "trap", "")
      [] OTHER          -> Jump(st, s.k, IF s.k = "return" THEN "" ELSE s.label)

Start(in) == [trace |-> <<>>, left |-> in, how |-> "go", label |-> ""]

-----------------------------------------------------------------------------
(* Execution.                                                              *)

Init ==
    /\ prog \in Programs /\ input \in Inputs
    /\ meaning = Run(prog, Start(input))
    /\ code = Compile(prog)
    /\ at = <<1, 1>> /\ val = 0 /\ used = 0 /\ trace = <<>>
    /\ slot = [i \in 1 .. Len(code) |-> 0]
    /\ status = IF code = <<>> THEN "not compiled" ELSE "run"

Here == code[at[1]]
AtOp(kind) ==
    /\ status = "run" /\ at[2] <= Len(Here.ops) /\ Here.ops[at[2]].op = kind
    /\ at' = <<at[1], at[2] + 1>>
AtTerm(kind) == status = "run" /\ at[2] > Len(Here.ops) /\ Here.term.t = kind
Goto(b) == at' = <<b, 1>> /\ UNCHANGED <<val, slot, used, trace, status>>
Program == UNCHANGED <<prog, input, meaning, code>>

Act ==
    /\ AtOp("act") /\ trace' = Append(trace, Here.ops[at[2]].n)
    /\ Program /\ UNCHANGED <<val, slot, used, status>>
ReadInput ==
    /\ AtOp("read")
    /\ IF used < Len(input)
       THEN val' = input[used + 1] /\ used' = used + 1 /\ UNCHANGED status
       ELSE status' = "starved" /\ UNCHANGED <<val, used>>
    /\ Program /\ UNCHANGED <<slot, trace>>
InitVar ==
    /\ AtOp("init") /\ slot' = [slot EXCEPT ![Here.ops[at[2]].s] = 0]
    /\ Program /\ UNCHANGED <<val, used, trace, status>>
Less ==
    /\ AtOp("less")
    /\ val' = IF slot[Here.ops[at[2]].s] < Here.ops[at[2]].hi THEN 1 ELSE 0
    /\ Program /\ UNCHANGED <<slot, used, trace, status>>
\* The addition wraps at the width of the variable.
Inc ==
    /\ AtOp("inc")
    /\ slot' = [slot EXCEPT ![Here.ops[at[2]].s] = IF @ = IntMax THEN -IntMax - 1 ELSE @ + 1]
    /\ Program /\ UNCHANGED <<val, used, trace, status>>
Branch == AtTerm("br") /\ Goto(Here.term.to) /\ Program
BranchIf == AtTerm("cond") /\ Goto(IF val # 0 THEN Here.term.yes ELSE Here.term.no) /\ Program
Switch ==
    /\ AtTerm("switch")
    /\ LET hit == {x \in Here.term.on : x[1] = val}
       IN Goto(IF hit = {} THEN Here.term.default ELSE (CHOOSE x \in hit : TRUE)[2])
    /\ Program
Stop ==
    /\ \E t \in {"ret", "trap", "open"} : AtTerm(t) /\ status' = t
    /\ Program /\ UNCHANGED <<at, val, slot, used, trace>>

Next == Act \/ ReadInput \/ InitVar \/ Less \/ Inc \/ Branch \/ BranchIf \/ Switch \/ Stop

Spec == Init /\ [][Next]_vars

-----------------------------------------------------------------------------
(* Properties.                                                             *)

\* How the meaning ends, in the terms of the machine.
Outcome ==
    CASE meaning.how \in {"go", "return"} -> "ret"
      [] OTHER -> meaning.how

\* The blocks do what the program says: every statement in its order, break and
\* continue to the loop they name, cases falling through, arms not, the trap for a
\* match without an answer; and the function returns where the program does.
ExecutesAsWritten ==
    status # "not compiled" =>
        /\ IsPrefix(trace, meaning.trace)
        /\ status # "run" => trace = meaning.trace /\ status = Outcome

=============================================================================

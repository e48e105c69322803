------------------------------ MODULE Imports ------------------------------
(***************************************************************************)
(* merge_stdlib_imports of src/src/main.cpp: the standard library files a  *)
(* program imports are loaded, with the files those import, and put before *)
(* the program.  Each call walks the imports of one program; the calls in  *)
(* progress form a stack.                                                  *)
(***************************************************************************)
EXTENDS Integers, FiniteSets, Sequences, SequencesExt

CONSTANTS
    Graphs,     \* the possible libraries: functions from a file to the files it imports,
                \* in order; "main" is the program, which no file imports
    Broken      \* the files that are not there or do not parse

VARIABLES
    graph,
    calls,      \* [file, paths, at, decls]: the imports of `file', the next of them, and
                \* the files whose declarations the program consists of
    loaded

vars == <<graph, calls, loaded>>

Call(file) == [file |-> file, paths |-> graph[file], at |-> 1, decls |-> <<file>>]

Init ==
    /\ graph \in Graphs /\ loaded = {}
    /\ calls = <<Call("main")>>

Top == Last(calls)
Running == Top.at <= Len(Top.paths)
Path == Top.paths[Top.at]
Advanced(call) == [call EXCEPT !.at = @ + 1]

Skip ==
    /\ Running /\ Path \in loaded
    /\ calls' = Append(Front(calls), Advanced(Top))
    /\ UNCHANGED <<graph, loaded>>

\* Nothing is said of a file that is not there.
Missing ==
    /\ Running /\ Path \notin loaded /\ Path \in Broken
    /\ calls' = Append(Front(calls), Advanced(Top)) /\ loaded' = loaded \union {Path}
    /\ UNCHANGED graph

\* Mutant: a file is marked when it has been merged.
LoadUnmarked ==
    /\ Running /\ Path \notin loaded \union Broken
    /\ calls' = Append(calls, Call(Path)) /\ UNCHANGED loaded
    /\ UNCHANGED graph

Load ==
    /\ Running /\ Path \notin loaded \union Broken
    /\ calls' = Append(calls, Call(Path)) /\ loaded' = loaded \union {Path}
    /\ UNCHANGED graph

\* The file and what it brought with it go before what the importer has so far.
Return ==
    /\ Len(calls) > 1 /\ ~Running
    /\ LET importer == Last(Front(calls))
       IN  calls' = Append(Front(Front(calls)),
                           Advanced([importer EXCEPT !.decls = Top.decls \o @]))
    /\ UNCHANGED <<graph, loaded>>

Next == Skip \/ Missing \/ Load \/ Return

Spec == Init /\ [][Next]_vars

-----------------------------------------------------------------------------
(* Property.                                                               *)

Imported(file) == Range(graph[file]) \ Broken
RECURSIVE Closure(_)
Closure(files) ==
    LET more == files \union UNION {Imported(f) : f \in files}
    IN  IF more = files THEN files ELSE Closure(more)

NoTwoImporters == \A f \in DOMAIN graph : Cardinality({g \in DOMAIN graph : f \in Imported(g)}) <= 1
Before(s, a, b) == \E i, j \in DOMAIN s : i < j /\ s[i] = a /\ s[j] = b

\* merge_stdlib_imports: whatever the imports, cycles and shared files among them, no
\* file is being loaded inside its own loading, and in the end every file the program
\* needs is there once, the program last.  If no file has two importers, every file
\* comes after those it imports; a shared file may come after one of its importers.
ImportedOnce ==
    /\ IsInjective([i \in DOMAIN calls |-> calls[i].file])
    /\ Len(calls) = 1 /\ ~Running =>
        LET decls == Top.decls
        IN  /\ IsInjective(decls) /\ Range(decls) = Closure({"main"}) /\ Last(decls) = "main"
            /\ NoTwoImporters =>
                \A f \in Range(decls) : \A g \in Imported(f) :
                    f \notin Closure(Imported(f)) => Before(decls, g, f)

=============================================================================

---------------------------- MODULE ProcessPipes ----------------------------
(***************************************************************************)
(* The process handle of src/src/runtime/process_rt.c: duxrt_proc_spawn,   *)
(* duxrt_proc_wait, duxrt_proc_kill and duxrt_proc_free, with the child    *)
(* and the two pipes that capture its output.                              *)
(*                                                                         *)
(* A pipe is the number of blocks it holds; the kernel lets it hold        *)
(* Capacity of them.  The child writes blocks to either stream in any      *)
(* order and then exits.  An uncaptured stream is inherited and never      *)
(* blocks.  One thread owns the handle; another may share it to kill.      *)
(* Allocation failures are left out.                                       *)
(***************************************************************************)
EXTENDS Integers

CONSTANTS
    Capacity,     \* blocks a pipe holds
    Captured,     \* the streams captured: cap_out and cap_err
    MaxWrites,    \* bound: MaxWrites[s] blocks the child writes to stream s
    MaxKills      \* bound: calls of kill

Streams == {"out", "err"}

\* What an instance assumes of the constants.
PipeAssumption ==
    /\ Capacity \in Nat \ {0} /\ MaxKills \in Nat
    /\ Captured \subseteq Streams
    /\ MaxWrites \in [Streams -> Nat]

VARIABLES
    child,      \* "none" | "running" | "zombie" | "reaped"
    pid,        \* what the handle's pid names: "none" | "child" | "free" | "other"
    wrote,      \* blocks the child has written, per stream
    held,       \* blocks in the pipe, per stream
    open,       \* the read ends the parent holds: out_fd, err_fd
    buf,        \* blocks read so far: out_buf, err_buf
    pc,         \* where the owner is
    waited,     \* DuxProc.waited
    kills,      \* calls of kill so far
    hit         \* a kill was delivered to a process that is not the child

vars == <<child, pid, wrote, held, open, buf, pc, waited, kills, hit>>

Init ==
    /\ child = "none" /\ pid = "none"
    /\ wrote = [s \in Streams |-> 0]
    /\ held = [s \in Streams |-> 0]
    /\ buf = [s \in Streams |-> 0]
    /\ open = {}
    /\ pc = "unspawned"
    /\ waited = FALSE
    /\ kills = 0 /\ hit = FALSE

-----------------------------------------------------------------------------
(* The child, and the system's reuse of process ids.                       *)

ChildWrite(s) ==
    /\ child = "running" /\ wrote[s] < MaxWrites[s]
    /\ s \in Captured => s \in open /\ held[s] < Capacity
    /\ wrote' = [wrote EXCEPT ![s] = @ + 1]
    /\ held' = IF s \in Captured THEN [held EXCEPT ![s] = @ + 1] ELSE held
    /\ UNCHANGED <<child, pid, open, buf, pc, waited, kills, hit>>

\* The child exits after its output, or dies of SIGPIPE on a stream whose read
\* end is closed.
ChildExit ==
    /\ child = "running"
    /\ \/ \A s \in Streams : wrote[s] = MaxWrites[s]
       \/ \E s \in Captured \ open : wrote[s] < MaxWrites[s]
    /\ child' = "zombie"
    /\ UNCHANGED <<pid, wrote, held, open, buf, pc, waited, kills, hit>>

ChildProgress == ChildExit \/ \E s \in Streams : ChildWrite(s)

PidReused ==
    /\ pid = "free"
    /\ pid' = "other"
    /\ UNCHANGED <<child, wrote, held, open, buf, pc, waited, kills, hit>>

-----------------------------------------------------------------------------
(* The handle.                                                             *)

Spawn ==
    /\ pc = "unspawned"
    /\ pc' = "idle"
    /\ child' = "running" /\ pid' = "child"
    /\ open' = Captured
    /\ UNCHANGED <<wrote, held, buf, waited, kills, hit>>

\* pipe or fork fails: what was opened is closed, the handle is null, and every
\* later call on it returns at once.
SpawnFails ==
    /\ pc = "unspawned"
    /\ pc' = "null"
    /\ UNCHANGED <<child, pid, wrote, held, open, buf, waited, kills, hit>>

\* Mutant: waitpid before the captured output is read.
WaitCallReapFirst ==
    /\ pc = "idle" /\ ~waited
    /\ pc' = "waitpid"
    /\ UNCHANGED <<child, pid, wrote, held, open, buf, waited, kills, hit>>

\* duxrt_proc_wait: stdout first.
WaitCall ==
    /\ pc = "idle" /\ ~waited
    /\ pc' = "read_out"
    /\ UNCHANGED <<child, pid, wrote, held, open, buf, waited, kills, hit>>

\* One successful read of read_fd_to_str takes what the pipe holds.
Read(s) ==
    /\ held[s] > 0
    /\ buf' = [buf EXCEPT ![s] = @ + held[s]]
    /\ held' = [held EXCEPT ![s] = 0]
    /\ UNCHANGED <<child, pid, wrote, open, pc, waited, kills, hit>>

\* Mutant: stop at the first empty pipe instead of at the end of file.
AtEofWhenEmpty(s) == held[s] = 0

\* read returns 0: the pipe is empty and the child, its only writer, is gone.
AtEof(s) == held[s] = 0 /\ child \in {"zombie", "reaped"}

\* read_fd_to_str(s) is over, or was skipped for a stream not captured.
ReadEnd(s, to) ==
    /\ s \in Captured => AtEof(s)
    /\ open' = open \ {s}
    /\ pc' = to
    /\ UNCHANGED <<child, pid, wrote, held, buf, waited, kills, hit>>

ReadOut == pc = "read_out" /\ (Read("out") \/ ReadEnd("out", "read_err"))

ReadErr == pc = "read_err" /\ (Read("err") \/ ReadEnd("err", "waitpid"))

Reap ==
    /\ child = "zombie"
    /\ child' = "reaped" /\ pid' = "free"

WaitPid ==
    /\ pc = "waitpid"
    /\ Reap
    /\ pc' = "idle"
    /\ waited' = TRUE
    /\ UNCHANGED <<wrote, held, open, buf, kills, hit>>

\* duxrt_proc_kill: kill(2) on the stored pid, whatever it names now.  The
\* signal is one the child dies of.
Kill ==
    /\ pc \notin {"unspawned", "null", "freed", "free_wait"} /\ kills < MaxKills
    /\ kills' = kills + 1
    /\ hit' = (hit \/ pid = "other")
    /\ child' = IF child = "running" THEN "zombie" ELSE child
    /\ UNCHANGED <<pid, wrote, held, open, buf, pc, waited>>

\* Mutant: the read ends of a handle that was not waited for stay open.
FreeUnwaitedLeaky ==
    /\ pc = "idle" /\ ~waited
    /\ pc' = "free_wait"
    /\ UNCHANGED <<child, pid, wrote, held, open, buf, waited, kills, hit>>

\* duxrt_proc_free after a wait, and before one: then it closes the read ends
\* and waits for the child.
FreeWaited ==
    /\ pc = "idle" /\ waited
    /\ pc' = "freed"
    /\ UNCHANGED <<child, pid, wrote, held, open, buf, waited, kills, hit>>

FreeUnwaited ==
    /\ pc = "idle" /\ ~waited
    /\ pc' = "free_wait"
    /\ open' = {}
    /\ UNCHANGED <<child, pid, wrote, held, buf, waited, kills, hit>>

FreeWaitPid ==
    /\ pc = "free_wait"
    /\ Reap
    /\ pc' = "freed"
    /\ UNCHANGED <<wrote, held, open, buf, waited, kills, hit>>

Owner == ReadOut \/ ReadErr \/ WaitPid \/ FreeWaitPid

Next ==
    \/ ChildProgress \/ PidReused
    \/ Spawn \/ SpawnFails \/ WaitCall \/ Kill \/ FreeWaited \/ FreeUnwaited
    \/ Owner

\* The kernel runs the child and the thread inside a call; nobody is obliged to
\* make a call.
Spec == Init /\ [][Next]_vars /\ WF_vars(ChildProgress) /\ WF_vars(Owner)

-----------------------------------------------------------------------------
(* Properties.                                                             *)

\* Type correctness.
TypeOK ==
    /\ child \in {"none", "running", "zombie", "reaped"}
    /\ pid \in {"none", "child", "free", "other"}
    /\ wrote \in [Streams -> Nat] /\ buf \in [Streams -> Nat]
    /\ held \in [Streams -> 0 .. Capacity]
    /\ open \subseteq Captured
    /\ pc \in {"unspawned", "null", "idle", "read_out", "read_err", "waitpid",
               "free_wait", "freed"}
    /\ waited \in BOOLEAN /\ hit \in BOOLEAN
    /\ kills \in 0 .. MaxKills

\* duxrt_proc_wait: when it has returned, the buffers hold all that the child
\* wrote to the captured streams, also when it was killed meanwhile, and a child
\* that was not killed was never cut short by a closed pipe.
CaptureComplete ==
    waited =>
       \A s \in Captured :
          buf[s] = wrote[s] /\ (kills = 0 => wrote[s] = MaxWrites[s])

Inside == pc \in {"read_out", "read_err", "waitpid", "free_wait"}

\* "read captured output before waitpid to avoid pipe deadlock" (process_rt.c:157):
\* duxrt_proc_wait and duxrt_proc_free return.  They do not when the child writes
\* more to stderr than the pipe holds before it closes stdout.
WaitReturns == Inside ~> pc \in {"idle", "freed"}

\* They return in all other cases: the child is left blocked on no pipe but stderr,
\* full, with more to come, while its parent reads stdout.
WaitEnds ==
    Inside ~> \/ pc \in {"idle", "freed"}
              \/ /\ pc = "read_out"
                 /\ held["err"] = Capacity /\ wrote["err"] < MaxWrites["err"]

\* duxrt_proc_free: a handle that is gone leaves no child, running or zombie,
\* and no open read end.
NothingLeftBehind ==
    pc = "freed" => child = "reaped" /\ open = {}

\* duxrt_proc_kill signals the process the handle was made for.
KillHitsChild == ~hit

=============================================================================

# Dux: a TLA+ verification development

Dux is a compiled language: a compiler in C++ that generates LLVM IR, a runtime
in C, and a standard library written in Dux over that runtime. This directory
holds TLA+ models of the parts of it that are hard to test, the TLC
configurations that check them on small instances, and proofs, checked by
TLAPS, of what holds for every instance. Every definition is translated from
the source; `PROJECT.json` names the lines (`map`), lists the runs, the mutants
that show that each property can fail, the hazards and the theorems. Paths
below are relative to the root of the repository (`src/`).

## 1. Inventory

### The compiler

| Component | State | Operations | What is hard, what makes it correct |
|---|---|---|---|
| Lexer (`src/lexer/dux.l`) | three statics: a pending semicolon, bracket depth, f-string mode | one token per call | semicolons are inserted exactly at line ends outside brackets; the statics survive from one file to the next |
| Parser, syntax tree (`src/parser/dux.y`, `src/ast/`) | none besides the tree | one action per production | a grammar; precedence |
| Import resolution (`merge_stdlib_imports` of `src/main.cpp`; `src/driver/driver.cpp` has a second one that nothing calls) | the set of loaded files, one declaration list per file in progress | recursive walk of the imports | cycles end; each file is merged once |
| Semantic analysis (`src/sema/sema.cpp`, `symbol.cpp`, `types.cpp`) | a stack of scopes, flags that travel with the walk | one check per node | a name resolves to the innermost declaration; async calls are awaited; flags are restored |
| Generics (`src/sema/generics.cpp`) | work list, done set | clone and substitute | one instance per type argument list; termination |
| Code generation (`src/codegen/codegen.cpp`) | stacks of scopes, of pending clean-ups, of loops and of landing pads | one emitter per node | on every way out of a scope each clean-up runs once, in reverse order; async bodies settle their future; statics are initialised once |
| Command line (`src/main.cpp`), REPL (`src/repl/repl.cpp`) | options; the accepted declarations and statements | compile, link; accept, replay | an accepted line never makes later lines fail |

### The runtime and the standard library

| Component | State | Operations | What is hard, what makes it correct |
|---|---|---|---|
| Thread pool (`src/runtime/thread_rt.c`, `stdlib/thread/pool.dux`) | task list, count, shutdown flag, one mutex, two condition variables | new, submit, wait, shutdown, free | lost wakeups; a task runs once and in order; wait is a barrier; the destructor drains |
| Futures (`src/runtime/future_rt.c`) | done, result, an atomic reference count | new, retain, set, await, free | set, await and free race; the memory outlives its last use |
| Async calls (`gen_async_func`, `gen_await`; the global pool of `future_rt.c`) | one future and one environment per call | launch, run, settle, await | awaits occupy the workers they need |
| Blocking channel (`thread_rt.c`, `stdlib/thread/chan.dux`) | linked list, closed | send, recv, try_recv, close | FIFO, capacity, no stranded thread, close releases everybody |
| Ring channel (`src/runtime/achan_rt.c`, `stdlib/async/chan.dux`) | ring of slots with two indices and a length | blocking and non-blocking send and recv, close | the same, and the wrap of both indices |
| Event loop (`src/runtime/async_rt.c`, `stdlib/async/task.dux`) | two atomic flags | run, stop, is_running, sleep, yield | a stop is not lost; the flag tells the truth |
| One-time initialisation (`duxrt_once_call`; static locals in the generated code) | flag, mutex | call | once, and complete before use |
| Processes (`src/runtime/process_rt.c`, `stdlib/sys/process.dux`) | pid, two read ends, two buffers, waited | spawn, wait, kill, free | two pipes and a child: deadlock, truncated output, leaked children |
| Threads, mutexes, rwlocks, condition variables (`thread_rt.c`, `stdlib/thread.dux`) | one handle each | create, join, detach, free; lock, unlock, wait | a handle is consumed by its last use |
| Strings, lists, dicts (`str.c`, `list.c`, `dict.c`) | atomic reference counts; buffers; an open-addressing table with tombstones | retain, release, and the operations | counts match references across every call and return; the table is a map |
| WebSocket (`ws_rt.c`) | descriptor, send lock, closed | connect, accept, send, recv, close | frames do not interleave; control frames in the middle of a message |
| HTTP, sockets, TLS (`net_http.c`, `socket_rt.c`, `net_tls.c`, `stdlib/net/`) | descriptors, parsed requests | one call each | partial reads and writes; set-up from several threads |
| Signals (`signal_rt.c`) | handler table | register, block, raise | delivery at any point |
| JSON, regex, bytes, files, paths, time, random, math, system | none or one word | pure functions and single system calls | boundary values |

### How they interact

* The compiler lowers an async function to a launcher, a thunk and a body. The
  launcher allocates a **future** and submits the thunk to a global **pool**;
  the body settles the future; `await` blocks on it and frees it.
* The generated code calls the runtime for every list, dict and string, and
  releases them through the **scope clean-up** code, on the normal path and on
  the unwind path of the C++ exception runtime.
* The Dux classes `ThreadPool`, `Chan`, `AsyncChan`, `Process` are thin: they
  hold a pointer to the runtime object and call one C function per method; the
  way they call it (a null out pointer, a destructor that closes first) matters.
* Threads share runtime objects by pointer; only strings and lists carry a count.

## 2. Modules

| Module | Models | Abstraction |
|---|---|---|
| `ThreadPool` | `pool_worker` and the `duxrt_pool_` functions | a critical section is a step; a condition wait is two |
| `AsyncRuntime` | async lowering over the global pool; extends `ThreadPool` | a frame is the sequence of calls it awaits |
| `Future` | one `DuxFuture` with several owners | an atomic operation is a step |
| `FifoChannel` | what both channels promise (abstract specification) | a sequence, a flag, what was taken |
| `Chan` | `duxrt_chan_` functions; implements `FifoChannel` | the list is a sequence |
| `AsyncChan` | `duxrt_achan_` functions; implements `FifoChannel` | the ring is an array with its indices; the refinement mapping reads `len` slots from `tail` |
| `OnceInit` | `duxrt_once_call` and the guard of static locals | loads and stores in program order |
| `EventLoop` | `duxrt_async_run`, `_stop`, `_is_running` | every atomic access is a step |
| `ProcessPipes` | the process handle, the child, the pipes and the reuse of pids | blocks of output in place of bytes |
| `WebSocket` | one connection in use: the send lock, frames of two sends, fragments, control frames, close | a message is the frames that carried it |
| `WsHandshake` | `duxrt_ws_connect` and `duxrt_ws_accept` at the two ends of a stream cut anywhere | headers, then frames |
| `Http` | one request and one response per connection: `duxrt_http_request` against `HttpServer` | a first line, a blank line, units of a body |
| `Map` | what a dict promises (abstract specification) | a function |
| `Dict` | `dict.c`: probing, tombstones, growth; implements `Map` | keys with a given hash |
| `ListKinds` | the two element kinds of `list.c`, and the loop that reads the array directly | values in two halves |
| `Ownership` | the retains and releases the generated code makes, with the counts of `str.c`, `list.c`, `dict.c` | one counted type, one function at a time |
| `ScopeCleanup` | what codegen registers and emits around scopes | one activation of one function; values are left out |
| `ControlFlow` | `Gen`, the translation of if, loops, switch, match, labels and jumps into blocks; and `Run`, an evaluator | conditions read an input |
| `Classes` | layouts, constructors, destructors, resolution of calls | one field per class |
| `Closures` | `collect_fv`, `gen_lambda`, the call of a closure | bodies are trees of five forms |
| `Imports` | `merge_stdlib_imports` | a file is the files it imports |
| `Generics` | `expand_generics` with mangling, substitution, cloning, the work list | of a program only its mentions of types |
| `Hierarchy` | the two passes over classes and interfaces, subtyping, contracts, member lookup | a class is its bases and methods |
| `SemaWalk` | scopes and the flags that travel with the walk of the checker | one variable, one async function, `this` |
| `MCThreadPool`, `MCConcurrency`, `MCHandles`, `MCCompiler`, `MCSequential` | the instances for TLC | |
| `ThreadPoolProofs`, `ChanProofs`, `AsyncChanProofs`, `ScopeCleanupProofs`, `DictProofs` | theorems about the module they are named after | |
| `HandleProofs` | theorems about `OnceInit`, `Future`, `ProcessPipes`, `WebSocket`, `Http`, and about the parts of `MCHandles` | |
| `ConcurrencyProofs` | theorems about `AsyncRuntime` and about the parts of `MCConcurrency` | |
| `SequentialProofs` | theorems about `Ownership`, `SemaWalk`, `ListKinds`, and about the parts of `MCSequential` | |

The correspondence is one action per critical section, atomic access, system call,
statement or construct, named after what happens there; the comment of each
section of a module names the C, C++ or Dux function. An `MC` module puts several
components side by side: a variable `part`, chosen at the start from the constant
`Parts`, says which one a behaviour is about, the variables of the others stay
as they are, and a property of a component is checked on the behaviours of that
component. This keeps the number of runs small and changes nothing in a
component, which is proved where a theorem speaks of a composed module: the lemmas
`FuturePart`, `ProcessPart`, `ConnectionPart`, `ExchangePart`, `ListPart`,
`RingPart` and `PartsAre` say that a step of the composition is a step of the component or leaves
its variables alone. Some points that are not visible in the names:

* **Condition variables.** A thread that waits is in a wait state; a signal moves
  one chosen waiter, a broadcast moves all, and a `Spurious` action may move any
  of them at any time. After that the thread tests its loop condition again.
  The mutex is not a variable of its own where every access holds it.
* **ThreadPool.** `Enqueue` is the critical section of `duxrt_pool_submit`, used
  by a client (`Submit`) and by a running task (`SubmitFromTask`). `WorkerWait`,
  `WorkerTake` and `WorkerExit` are the three outcomes of the worker's first
  critical section, `WorkerRan` the return of the task, `WorkerReport` the second
  one. `log`, `done` and `snap` are history variables. The destructor starts
  when no other program thread is inside a call, and a task does not call `wait` on its
  own pool (it would wait for itself).
* **AsyncRuntime.** Reuses the actions of `ThreadPool` by name and refines what a
  task does: `Launch`, `StartCall`, the await (`AwaitSleep`, `AwaitDone`,
  `FreeFuture`), `SetFuture`, `FinishCall`. Sema lets an async call appear only
  under an await, so every call has one awaiter, which the assumption
  `AsyncAssumption` says. The reference count of a future is 1 here, and is the
  subject of `Future`.
* **ScopeCleanup.** `scopes` is the compiler's stack of registrations at the
  point being executed, `todo` the emitted cleanups not yet executed, whose order
  in the emitted code is `Precedes`.
  `Register`, `Enter`, `Leave`, `Return`, `Break`, `Delete` follow the emitters;
  `Throw(later)` follows a landing pad, which is emitted once, for the
  registrations known when its try body ends: `later` are those that the
  throwing point has not reached. A destructor or a defer may throw during a
  clean-up (`CleanupThrows`).
* **ProcessPipes.** The child writes in any order and blocks on a full pipe;
  `duxrt_proc_wait` reads stdout to its end, then stderr, then reaps.
* **WebSocket.** A frame of ours is two steps, header and payload, as the code
  sends it. The peer keeps to the protocol: it fragments, and puts pings and
  pongs between fragments. `Pong` is the answer of the reader, sent without the lock. `Close`
  comes when nobody is in a call; the code does not wait for that (section 5).
* **Http.** `whole` records whether a send was short, a recv partial, a body too
  large, a timeout fired or a connection reset; `Answered` promises the complete
  answer when nothing of the kind happened, and otherwise that nothing foreign
  arrives.
* **Dict.** One action per call; probing is an operator over the slots. `tomb` is
  what the code believes: reuse of a tombstone does not lower it.
* **ControlFlow.** `Gen` follows the emitters, with the stack of loops that `break`
  and `continue` search; the actions execute the blocks. `Run` is the reference:
  structural, without blocks.
* **Ownership.** Whether a value is retained depends on the form of its
  expression; each form is an action. `exempt` collects the objects that met one of
  the forms of section 5 that the scheme does not serve; `CountsExact` holds for all
  others. A container is known by what it refers to (`elements`).
* **ListKinds.** `typed` is keyed by name and outlives the scope of the name, and `last` is
  what the last literal left, as in the code. `recast` collects the names for which this
  goes wrong; `hidden` holds what inner scopes have hidden.
* **SemaWalk.** `open` is the text around the point of the walk, with what the
  code saved there; `flags` and `scopes` are what the code knows. The property
  compares the two.
* **Hierarchy.** A program has no class among its own ancestors: on such a class
  `is_subtype` does not end.
* **Generics.** `of` is what a mangled name stands for; the code does not look at it.

## 3. Runs

Every run is exhaustive for its instance. `TypeOK` is a conjunct of `PoolInv` and
`OnceInv`, which their runs check; in the other modules it documents the variables.

| Run | Instance | Checks |
|---|---|---|
| `thread_pool` | 2 workers, 2 clients, 3 tasks | `PoolInv`: FIFO start, each task at one worker or done, exact pending count, destructor phases. `WorkConserving`: no queued task without an awake worker while one sleeps. `ShutdownDrains`. `WaitBarrier`: a wait returns only after what was submitted before it. `EveryTaskRuns`, `CallsReturn`: liveness |
| `concurrency` | async: 2 workers, 2 threads, 4 calls, one nested. Channels: 4 threads, 4 values, 2 places | `FutureLifetime`, `Structured`, `AwaitReturns` of the calls; `NobodyStranded` and `Implements` (the abstract channel) of both channels, `CloseReleases` of the list channel |
| `handles` | a once or a static local with 3 threads and 2 calls each; a future with 4 owners, one of them awaiting; an event loop with 2 runners and 2 stoppers; a child with two pipes of 2 blocks, 4 blocks on stdout and 3 on stderr; a connection with 2 senders and a peer of 3 frames; a handshake with 2 frames each way; 2 HTTP clients, one with a body that does not fit | `InitOnce`, `OnceInv`, `UseInitialised`; `FreedLast`; `StopTaken`; `CaptureComplete`, `NothingLeftBehind`; `MessagesWhole`, `FramesWhole`; `Answered`; `CallsComeBack`: a once, an await and a handshake end, the lock of a connection is handed on, and wait and free of a process end unless stderr is full |
| `compiler` | 500 libraries of three files with every order of imports; 3888 programs over two templates that mention each other; three classes and an interface in every order; scopes: 2 clean-ups, 4 nested scopes, 2 exceptions; 192 loops with every jump in every statement on every input of four numbers below 3; three classes in three orders of declaration; lambda bodies of three lines | `ImportedOnce`; `Expanded`; `SubtypingRight`, `Substitutable`; `FreedOnce`, `LeaveExact`, `Lifo` of clean-ups; `ExecutesAsWritten` of the blocks; `FieldsAgree`, `PartsDestroyedOnce` of classes; `CapturesFree` of lambdas |
| `sequential` | a dict with 4 keys, 2 of which collide, growing from 4 slots to 8; two lists of up to 2 elements under two names, and one inner scope; a function with two locals and a parameter, 3 objects; constructs nested three deep | `ProbeEnds`, `KeysOwned`, `Implements` (the abstract map); `ReadsElement`; `CountsExact`; `JudgedByContext` |
| `async_nested` | 2 workers, a chain of 3 calls | `AwaitReturns` is violated |
| `scope_break` | 1 clean-up, 2 scopes, no exception | `DeferOnce` is violated |
| `closure_value` | one captured variable, two values | `CapturesByValue` is violated |
| `caller_keeps` | the function of `sequential` | `CallerKeeps` is violated |
| `stop_two_runners` | the event loop of `handles` | `StopEnds` is violated |
| `wait_stderr` | the child of `handles` | `WaitReturns` is violated |
| `send_path` | the connection of `handles` | `SendPathProtected` is violated |

**Why the bounds are enough to be interesting.** The pool and the channels need two
sleepers of one kind and a third thread that competes for what a signalled one
was woken for; three tasks and four values give a full list, a queue behind two
busy workers, and both indices of a two-slot ring wrapping twice. Two workers are
the smallest global pool that `init_global_pool` creates. Four owners of a future let
two drop while one awaits and one is destroying. Two clean-ups in four scopes
place them in the same scope, in nested ones and on both sides of a try or a
loop, and the second exception strikes during the clean-up for the first. A
pipe of two blocks fills, empties and fills again with four, and three on stderr are one
more than its pipe holds while stdout is read. Two runners are what it takes for one to take
away the request the other has not seen. Three frames are a
message in fragments with a control frame between them. Four keys in four slots
give a collision, a tombstone inside a probe sequence, a wrap at the end of the
table and one growth. Three objects under three names hold
aliases of an argument, of a local and of an element of a list. Two lists and one inner scope
put a list behind a name whose type another one gave. Three files hold every import graph in which a file is
shared, imports itself through another, or is missing. Two mutually recursive
templates applied to each other give a work list that grows while it is worked
off and asks for one copy twice. Three constructs are a lambda or an await
between two that matter. The third class is what it takes for an inherited method
or base to be out of sight of the class that names the interface.

**Named bounds.** `MaxCalls`, `MaxRuns`, `MaxStops`, `MaxKills`, `MaxFrames`, `MaxSends`,
`MaxItems`, `MaxDepth`, `MaxThrows`, `MaxLists`, `MaxLen`, `MaxObjects`, `MaxClosures`,
`MaxHidden`, `MaxRefs`, `MaxWrites` and `MaxCap` cap what the code does not; each is in the guard of the action it stops.
`MaxRefs` bounds the references to a dict, and the count of an object of which `Ownership` loses a reference.

**Fairness.** Weak fairness of the steps of a thread that is *inside* a call and
of the workers: the operating system schedules every thread that can run, and
a mutex is released by every critical section. A task function, an async body and an
initialiser are assumed to return; a child that can write or exit does. A `send(2)` may block
for ever: of a sender only the steps on the lock are fair. Both ends
of a handshake take their steps. Nothing is assumed of new calls, of spurious
wakeups, of kills, of stops, or of the peer of a connection in use.
`CHECK_DEADLOCK FALSE` stands where the system may stop: after the destructor, after
every call has returned, at the end of a program or a pass, or when the bound on calls
is used up. A composed run stops with its first part that may, so the
channels are covered by `NobodyStranded` and `CloseReleases` instead of the deadlock
check.

**Symmetry** is not used.

## 4. What is proved

For every value of the constants, with TLAPS:

| Theorem | Statement |
|---|---|
| **`ThreadPoolProofs`** | |
| `TypeCorrect`, `PoolConsistent` | `Spec => []TypeOK`, `Spec => []PoolInv` |
| `ShutdownComplete`, `WaitIsABarrier` | `Spec => []ShutdownDrains`, `Spec => WaitBarrier` |
| `NoWakeupLost` | `Spec => []WorkConserving` |
| **`ChanProofs`** | |
| `ChanTypeCorrect`, `ChanNobodyStranded` | `Spec => []TypeOK`, `Spec => []NobodyStranded` of the list channel |
| `ChanImplementsFifo`, `ChanNothingLost` | `HasOut` assumed: `Spec => Implements` (`FifoChannel`), `Spec => []NothingLost` |
| **`AsyncChanProofs`** | |
| `RingTypeCorrect`, `RingNobodyStranded`, `RingImplementsFifo` | the same of the ring channel, where every caller passes a variable |
| **`ConcurrencyProofs`** | |
| `AsyncConsistent`, `AsyncTypeCorrect` | `Spec => []AsyncInv`, `Spec => []TypeOK` of `AsyncRuntime` |
| `AsyncUsesPool` | every behaviour of `AsyncRuntime` is one of `ThreadPool` |
| `FuturesOutliveUse`, `AwaitsNest` | `Spec => []FutureLifetime`, `Spec => []Structured` |
| `NobodyIsStranded`, `ChannelsAreFifos` | `NobodyStranded` and, `OutPointer` assumed, `Implements` of `MCConcurrency`, for both channels |
| **`HandleProofs`** | |
| `OnceTypeCorrect`, `OnceConsistent`, `InitialisedOnce` | `Spec => []TypeOK`, `[]OnceInv`, `[]InitOnce` of `OnceInit` |
| `UseSeesValue` | `Spec => []UseInitialised`, unless a static local of a counted type is among the kinds |
| `FutureConsistent`, `FutureIsFreedLast`, `FutureFreedOnce` | `FutureInv`, `FreedLast`, and no step after the free, of `Future` |
| `FutureFreedLast`, `WaitCapturesAll`, `FreeLeavesNothing` | `FreedLast`, `CaptureComplete`, `NothingLeftBehind` of `MCHandles` |
| `FramesStayWhole`, `MessagesStayWhole` | `FramesWhole`, `MessagesWhole` of a WebSocket in use |
| `ClientsAreAnswered` | `Answered` of HTTP clients and their server |
| `PipesConsistent`, `WaitIsComplete`, `FreeIsComplete` | `PipeInv`, `CaptureComplete`, `NothingLeftBehind` of `ProcessPipes` |
| **`DictProofs`** | |
| `DictConsistent`, `DictProbesEnd`, `DictOwnsKeys` | `Spec => []DictInv`, `[]ProbeEnds`, `[]KeysOwned` |
| `DictIsMap` | `Spec => Implements`: the table implements `Map` |
| **`SequentialProofs`** | |
| `OwnershipConsistent`, `ReferenceCountsExact` | `[]RcInv`, `[]CountsExact` of `Ownership` |
| `WalkConsistent` | `[]WalkInv` of `SemaWalk` |
| `ListConsistent` | `[]ListInv` of `ListKinds` |
| `DictServes`, `OwnersCounted`, `VerdictsByContext`, `ElementsRead` | `ProbeEnds`, `KeysOwned`, `Implements`; `CountsExact`; `JudgedByContext`; `ReadsElement` of `MCSequential` |
| **`ScopeCleanupProofs`** | |
| `SlotFreedOnce` | `Spec => []FreedOnce` |
| `CleanupsExact` | `Spec => []LeaveExact` |
| `CleanupsInReverse` | `Spec => Lifo` |

**Assumptions.** Each module names its own, and TLC evaluates them on the runs.

* `PoolAssumption`: the workers are a finite, non-empty set (`duxrt_pool_new`
  replaces a count that is not positive by 1) and `NoTask` is no task.
* `AsyncAssumption`: the same of the global pool, and a call is awaited at one
  place, which sema enforces by letting an async call appear only under an await.
* `ChanAssumption`: finitely many threads, the capacity is a number (0 is
  unbounded). `AsyncChanAssumption`: the requested capacity is any integer; `achan_rt.c`
  corrects it. `HasOut`, or `OutPointer` in the composition, says that the caller of
  `duxrt_chan_try_recv` passes an out pointer. `Chan.try_recv` of the library
  passes none, and there what the theorem says fails (section 5); `send`, `recv` and
  `close` do not depend on it.
* `OnceAssumption`: `None` is no thread, the bound on calls is a number.
  `FutureAssumption`: finitely many owners. `PipeAssumption`: a pipe holds at least one
  block, the child writes a finite amount.
* `ConnectionAssumption`, `HttpAssumption`: the placeholder is no thread, or no client;
  sizes are numbers. `Fits`, what the server's buffer takes, may be anything.
* `OwnershipAssumption`: finitely many locals, and the parameter is not one of them.
* `DictAssumption`: a hash is a natural number and the first capacity is at least 4 (it is
  16 in `dict.c`); keys and values may be anything, and any keys may collide.
  `SemaWalk` and `ListKinds` need no assumption.

**The pool.** What a reader wants is that tasks start in order and run once, that
the count is exact, and that the destructor leaves nothing behind. None of
these is inductive alone. `FifoStart` says that the list is the end of the
submission history, which makes `Started`, the part before it, a function of the
state; `ExactlyOnce` then compares `Started` with what workers hold and what is
done, and needs from `Bookkeeping` that no task was submitted twice and that a worker
holds a task exactly while it runs one. `PendingExact` needs the cardinality
of the busy workers to change by one with each take and report. `ShutdownPhase`
carries the destructor: once it has begun, no worker sleeps and no other client
is inside a call; a worker leaves only after it has seen the flag and an empty
list; so when all have left, the list is empty for good, since the only
submitters left were the workers themselves. `ShutdownDrains` follows: with an
empty list `Started` is the whole history and no worker holds a task.
`WaitBarrier` follows from `PendingExact`: a zero count means an empty list and
no busy worker. The proof has one lemma per conjunct (`FifoStep`, `OnceStep`,
`PendingStep`, `BookStep`, `ShutdownStep`) over a classification of steps
(`StepKinds`): an enqueue, a take, a return, a report, or a step that touches none
of the list, the count and the tasks. `WorkConserving` is inductive with the types:
an enqueue adds one task and wakes one sleeper if there is one, a take removes a
task together with the worker that was on its way to it.

**The channels.** One signal is sent for one value, and the woken thread may find that
another has taken it; that a sleeper sleeps only when there is nothing for him is
therefore false as such. `NobodyStranded` counts: while somebody sleeps to send, the
free places are at most the senders that are awake inside a call, and the same for
receivers and values. With the types and `HasValue` (a thread in a send has a value) this
is inductive (`AwakeInv`), and it says why a signal, rather than a broadcast, is enough. The two channels share the counting: `AsyncChanProofs` instantiates
`ChanProofs` for it. For the ring the rest is arithmetic: `head` is `tail + len` modulo
the capacity, and the `len` places from `tail` on hold values. So the refinement
mapping that reads them loses one at the front when `tail` moves, and gains one
at the end when `head` does, wherever the indices wrap.

**Async calls.** A step of `AsyncRuntime` is a step of the pool or leaves it alone, so
`PoolInv` holds under it. `AsyncInv` ties a frame to the pool: a call that is running is
at exactly one worker, one that has finished is done there; and a future to the frame
that settles it and to the one that awaits it. `FutureLifetime` needs the uniqueness of the
await place, since otherwise the first of two awaits would free what the second reads.

**Handles.** `OnceInv` adds to the types that the mutex excludes, that the
initialiser has begun exactly when the flag is set or the holder is about to set
it, and that a set flag means a value; the last part also covers the guard of a
static local of a plain type, where nothing excludes: the value is stored before
the guard, in program order. `FutureInv` says that the count is the number of
holders, that at most one thread is destroying, and that the future is freed only
when it is settled and nobody holds it. `PipeInv` has the phases of the handle and
the place of every block: what is in the pipe and in the buffer is what the child
wrote, and a stream read to its end is over and empty.

**Connections.** `SendInv`: the thread between its header and its payload has the lock,
and the header on the wire is its own. `RecvInv`: reading the frames that are in the stream,
starting from what the reader has put together so far, ends at what the peer has said.
It is a statement about a whole sequence of frames, so it names the
intermediate results (`Leads`), and each step of the reader takes one off the front while each
frame of the peer adds one at the end. `ExchangeInv` has five parts per client: where it
is in the server's queue (`Placed`), its request (`Asking`), what the server has read of it
(`Handled`), the answer on its way (`Answering`) and what was returned (`Returned`); the
lemma `ExchangeKept` carries the parts of the clients that a step does not touch.

**References.** `CountsExact` says that the count of an object is the number of its owners
(variables in scope, containers, the caller), unless the object is exempt. An object becomes exempt
by the forms under *References* in section 5, which are all that the code has beyond fresh
values, copies between variables, and fresh values stored in a container and left there. It is not inductive at a return, where what the parameter
refers to decides what is released; `ParamServed` says that this is the caller's own
object, nothing, or an exempt one. The owners are counted as a finite set that
loses or gains one variable at a time (`Held`).

**The dict.** `TableInv`: `len` is exact, `tomb` is no less than the tombstones there are,
and their sum stays below the capacity; no key is in two slots, and every
entry is met by the probe of its key before an empty slot. So an empty slot is always left
(`EmptyLeft`, by counting), and every probe stops (`ProbeStops`). A growth moves the entries one slot at a
time into the new table; `MoveRight` says what one move keeps and `GrowRight` what all of
them do. That is induction over the slots: the lemma `SetInduction` has it for a set of
numbers in place of a predicate, and follows from the pigeonhole theorem of the library;
`MovesExist` uses it to show that the recursive function of the moves is one. For the
refinement the map is the function from the live keys to the values in their slots.

**The walk.** What the code saved when it entered a construct is what it restores when it
leaves. `WalkInv` says what the flags are inside *every* construct that is open, not only
the innermost one, and gives each open scope the construct it belongs to (`Homes`), so
that after a leave the flags and the scopes are those of the construct around.

**Lists.** `Stored` reads each array by its own kind: an I32 array has the low half of
an element in each place and the high one is zero, a PTR array has both. It holds for every
list in which nothing was cut. `NamesRight`: a name taken for an I32 list holds
one, unless it was recast, which the forms under *Lists* in section 5 do. `JoinedReads` and `SetReads` are the lemmas on halves that a
concatenation and an indexed assignment need.

**Clean-up.** `SlotsInv`: a slot that still holds its object has not been freed, and one
that was freed holds null, which the emitted code stores and tests. `ExactInv` adds the order and
the number. The ids that the stack of scopes holds rise from the outermost scope to
the innermost, so the cleanup whose turn it is, which `Precedes` picks, is the
youngest one planned: that is `Lifo`. A regular cleanup that is registered and not yet
executed is fresh (or `delete` has released it and left null), and every other
regular one has run once: that is `LeaveExact`, when nothing is left. What makes it inductive
is `Leading`, which says of a clean-up in progress that whatever its end leaves
registered without being fresh was cleaned ahead of time (`early`): the scopes below
the loop that a break leaves, and those below the try body of a handler. `early`
and `lost`, which no regular cleanup is in, record what the code does wrong (section 5);
what happens to those is the subject of `DeferOnce` and `CaughtRunsDefers`.

**Only model-checked.**

* Liveness, which needs fairness: `EveryTaskRuns`, `CallsReturn`, `AwaitReturns`,
  `CloseReleases`, `StopTaken`, `CallsComeBack`.
* `ImportedOnce`, `Expanded`, `SubtypingRight`, `Substitutable`, `CapturesFree`,
  `FieldsAgree`, `PartsDestroyedOnce`, `ExecutesAsWritten`: `Imports`, `Generics`,
  `Hierarchy`, `Closures`, `Classes` and `ControlFlow` define recursive operators over
  programs, types and graphs, which the prover does not take, and what they
  compute for every input is induction over data.

TLC checks the properties above on the runs. `PoolInv` and `OnceInv` are checked there as they stand; `RecvInv` and
`ExchangeInv` quantify over all sequences, so only what follows from them is.

## 5. Disagreements between the code and what is said of it

With a run each:

* **Nested async calls hang** (`async_nested`). `docs/spec.md:387` has await block
  until the result is available, and `future_rt.c:4` speaks of a detached
  thread. Bodies run on a pool of 2 to 16 workers and an await holds its worker:
  a chain of calls deeper than the pool has workers never ends.
* **`break` and `continue` clean too much** (`scope_break`). `codegen.cpp:1123` emits
  the clean-ups of all scopes of the function, not of those the jump leaves: the
  defer of an outer scope runs early, and once more at the end of its scope.
* **Closures do not capture values** (`closure_value`). `docs/grammar.md:871` against
  `codegen.cpp:3425`, which stores addresses of stack slots.
* **A callee releases what its caller owns** (`caller_keeps`).
  `docs/memory_model.md:214` against `codegen.cpp:2394`: an assignment to a parameter
  releases its old value.
* **A stop ends one run of two** (`stop_two_runners`). `task.dux:28` against
  `async_rt.c:51`: the first runner to leave resets the request of both.
* **`wait` and its child block each other** (`wait_stderr`). The comment at `process_rt.c:157`
  against the line below it: stdout is read to its end while stderr fills its pipe.
* **The send path is not protected** (`send_path`). `ws_rt.c:11` against `ws_rt.c:252`:
  the reader answers a ping without the lock, between the two sends of a frame.

Without a run. TLC reproduces these by the property and the change of instance given:

| What | Module, property | Instance |
|---|---|---|
| `Chan.try_recv` loses values: `stdlib/thread/chan.dux:46` passes no out pointer, and the runtime frees the node without storing its value | `Chan`, `NothingLost` | `concurrency` with `OutPointer = FALSE` |
| A container does not keep its elements: `docs/memory_model.md:66` has retains at assignments, `codegen.cpp:2344` stores a variable without one, and `codegen.cpp:4188` takes an element for a fresh value; the next assignment to the variable frees what the list refers to | `Ownership`, `ElementsAlive` | as in `sequential` |
| A list is read in the wrong width: `docs/memory_model.md:172` has a pointer returned as it was stored; by `codegen.cpp:2107` the last literal in an initialiser types the name, so the for loop over `list xs = [[1, 2]]` or `list xs = f([1, 2])` reads halves of pointers | `ListKinds`, `ElementsKept` | as in `sequential` |
| Methods are not dispatched by instance: `CHANGELOG.md:127` has dispatch through vtables; `codegen.cpp:2921` resolves a call by the declared class | `Classes`, `DispatchByInstance` | `compiler` with `Orders <- BaseFirst` |
| A caught exception skips the defers of blocks nested in the try body (`docs/memory_model.md:267`, `codegen.cpp:1859`) | `ScopeCleanup`, `CaughtRunsDefers` | `MaxThrows = 1`, `MaxDepth = 3` |
| One that leaves a function without try skips all its defers (`codegen.cpp:4090`) | `ScopeCleanup`, `UnwindRunsDefers` | `MaxThrows = 1` |
| A typed catch that does not match passes an outer try of the same function, against the comment at `codegen.cpp:1887` | `ScopeCleanup`, `NextHandler` | `MaxThrows = 1`, `MaxDepth = 3` |
| A landing pad releases slots whose declaration was not reached | `ScopeCleanup`, `OnlyReached` | `MaxThrows = 1` |
| `kill` after `wait` signals whatever has the pid now | `ProcessPipes`, `KillHitsChild` | as in the run |
| Two awaiters of one future: one signal, one stays asleep (sema lets no program do this) | `Future`, `AwaitReturns` | `Awaiters` of two owners |
| Two threads run the initialiser of a static local | `OnceInit`, `inits <= 1` | `Kinds = {"static"}` |
| A static list is released at scope end and met again with its guard set | `OnceInit`, `UseInitialised` | `Kinds = {"static_counted"}` |
| Frames that arrive with the 101 response are lost | `WsHandshake`, `received` is a prefix of `sent` | as in the run |

The others were met while the code was translated; the models either follow
them, and the properties are stated so that they show, or leave them out as
said:

* *Control flow.* An unlabelled `continue` in a switch in a loop branches to a null
  header. An inclusive range up to the largest int never ends. A break in a lambda
  in a loop passes the checker, and the generator's stack of loops is not saved
  around a lambda.
* *Closures.* `collect_fv` does not enter for, do, switch, match, try, nested lambdas,
  list and dict literals, or await.
* *Classes.* A class declared before its base gets none of its fields; a field whose
  class is laid out later is not destroyed; a class without a destructor of its own
  neither runs its base's nor destroys fields; the body of a base destructor never
  runs for a derived class; `delete` through a base variable runs the destructor of the base. A
  destructor that ends in an explicit return destroys none of its fields
  (`codegen.cpp:550`): `PartsDestroyedOnce` then promises no more than that nothing is
  destroyed twice. `FieldsAgree` is about bases declared first. Construction is
  modelled with a base named in every initialiser list, without which no base constructor runs.
* *References.* Containers neither retain a variable that is stored in them nor release an
  element they let go. `str s = xs[i]` does not retain. `x = xs[i]` and `x = null` have no
  counted type: the old value is not released. A fresh value that no variable and no
  container takes (the value of a call that is dropped, an argument) is released by nobody, and so are the
  temporaries of a call in a try block. `x = x` may free x, and a parameter that is assigned
  or deleted gives up what the caller has. These are the exempt forms of `Ownership`. Left out: the
  return of an expression that is no variable, and a name first met in an assignment, which
  is not registered for release. A returned local class instance is destroyed, and an alias
  of an instance is destroyed twice (`Classes` has neither).
* *Lists.* The type of a name is wrong after a literal that is not its value (in an element, an
  argument, a term of a sum), after an assignment, for a parameter, a loop variable or a static
  of a name that was typed before, and after the end of an inner scope that declared the name
  again. These are the recast names of `ListKinds`. A declaration without a value takes what the
  last literal left, and holds null.
* *Dicts.* `dict.c:58` counts a reused tombstone twice, and the table grows although it is not full.
* *WebSocket.* The pong of a client is unmasked; short sends are not seen; close sends
  without the lock, and closes the descriptor under those inside a call; an empty message reads as a close; a text frame in the middle of a
  fragmented message is appended to it.
* *HTTP.* `server.dux:159` says that the client "sends a complete request"; one recv is
  read. Over TLS a client reads once. A body that does not fit the buffer is
  left out while Content-Length announces it. A timeout, a reset and a short send all
  give an ordinary response. One without a blank line has status 0 and the raw text as its
  body; the model gives it an empty one.
* *Types.* What is assignable depends on the order of declarations. A class with a
  class and an interface as bases keeps only the last as its parent. An inheritance
  cycle makes `is_subtype` and `check_member` loop for ever. `satisfies` is never called.
  An operator used inside the class that defines it finds the constructor instead of the
  class.
* *Checking.* Async methods and calls through a namespace need no await; one await covers the
  whole operand, arguments and lambdas included. Functions cannot see top-level
  variables. A match arm with an enum pattern is checked against scopes, not against the
  position of the enum. The limit of errors in the driver is an exception nobody catches.
* *Generics.* Copies lose what is under `await` and `match`, and the explicit return type of a
  lambda, which is not renamed either; the initialiser lists and the
  initialisers of fields are not renamed, and async, static and const are dropped.
  All function types mangle to one name. Copies precede the declarations they derive
  from. A template that mentions itself at a larger type never ends. Generic functions are
  never instantiated at a call (`CHANGELOG.md:119`). An unsatisfied bound is printed
  and the program is built.
* *Imports.* `Driver::resolve_imports` is never called: files of the user, aliases and
  selective imports stay unresolved. With a shared file, an importer may come before
  what it imports.
* *REPL.* A declaration is verified against the declarations alone: one that changes
  the meaning of an accepted statement makes every later line fail until `:clear`,
  although `repl.cpp:299` speaks of keeping the context clean.

## 6. What is not modelled

* Pure functions and single library calls (math, time, paths, files, random, JSON, regex,
  bytes, strings beyond their counts): no state that several steps or actors touch.
* The lexer, the grammar and the tree; option parsing; the linker; LLVM; OpenSSL: data,
  character rules, or outside the repository.
* Arithmetic, comparison and conversion in generated code; debug information;
  optimisation. Operators and argument lists in the checker.
* The REPL: two lists of accepted lines and one run of everything else per line.
* `pool_rt.c`, a second definition of the pool functions in the same archive as
  `thread_rt.c`. The linker takes the first member that defines a symbol.
* `join`, `detach` and `free` of a thread handle, and the destruction of a channel with
  threads inside: the code has no protocol there; a program either avoids both or uses
  freed memory.
* Signals, whose delivery is up to the C library. Sockets have no module of their own: short
  sends, partial reads and resets are in the protocols above them. Datagrams are left out.
* Failures of allocation, except in the spawn of a process. Weak memory: atomics are
  sequentially consistent in the code, plain accesses are taken in program order.

## 7. What could be added

Theorems: the safety part of `EventLoop` and of `WsHandshake`. With
recursive functions in place of operators in `Imports`, `Generics` and `Hierarchy`, the
properties of `MCCompiler` could be stated as theorems of the composition, as those
of `MCHandles` and `MCSequential` are. A growing array under `ListKinds`.

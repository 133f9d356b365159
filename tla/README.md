# A TLA+ development of the Boru runtime

Boru is a concatenative language with a Go implementation: a parser, a checker,
a compiler to bytecode, a virtual machine and an interpreter, a library of
words and modules, and a command line. Most of it is sequential. What is hard
to test is where it is not: processes and mailboxes, services called by many
actors, connections, `await`, timers, file watchers and locks, the supervisor of
`boru serve`, and the promise that a compiled program can be re-run by the
interpreter when the VM gives up; and, among the sequential parts, the file
systems behind the file words, whose states come from long sequences of calls.
This directory models those parts in TLA+, checks them with TLC on small
instances, and proves the central invariants with TLAPS for all instances.

`PROJECT.json` lists the components, the runs, the source lines of every
definition, the hazards and the theorems. Run a model with
`tlc -config <cfg> <module>`, and check the proofs of a module whose name ends in
`_proofs` with `tlapm`.

## 1. Inventory

| component | state | operations | hard because |
|---|---|---|---|
| process runtime (`core/go/process.go`) | pid table, name registry, `Process.name`, `down` | Insert, Remove, RegisterName, UnregisterName, Shutdown | two directions of a registry kept in step over any sequence of calls |
| mailboxes and process words (`core/go/process.go`, `lang/go/native/native_process.go`) | mailbox, bound, policy, `closed`; a condition variable | spawn, self, send, receive (with `after`), exit, shutdown | missed wake-ups, several receivers on one mailbox, exit in two steps, deadlines, full mailboxes |
| services (`lang/go/native/native_service.go`) | handler stacks per pattern, wraps, private state, a mutex | call, send, add, wrap, prior | the mutex is taken twice per call and kept while handlers call other services |
| net endpoint and session (`lang/go/modules/net_codec.go`) | connection, left-over bytes, a mutex per endpoint | call, close, session loop | reads cut messages anywhere; timeouts race late replies |
| `await` (`lang/go/native/native_temporal_await.go`) | results or a channel, forks of the registry, a shared effect ledger | all, full, first, any | branches end, fail and bail in any order and may outlive the await |
| compiled execution (`lang/go/boru.go`, `core/go/effects.go`, `core/go/compile_sandbox.go`) | bindings, loaded modules, a snapshot, an effect ledger per request | RunAutoValues, RunCompiledStrict, Run | the check pass has effects, the VM may stop in the middle, and the whole source runs again |
| `boru serve` (`cmd/go/internal/serve`, `exec`, `registry`, `api`) | a WaitGroup, contexts, a state and a pause flag per service | run, StopService, Start, Stop, Pause, Resume | signals and control requests at any point of a start |
| timers (`natives.go`, `native_misc.go`) | ticker or timer, done channel, a handle shared by pointer | timeout, interval, cancel-timeout, cancel-interval | cancellation races a tick and another cancellation, without a lock |
| in-memory files (`capabilities.go`, `handles.go`) | maps of contents, directories and aliases; handles and maps | WriteFile, MkdirAll, Remove, Rename, Link, Truncate, Open, Mmap and their handles | hard links are aliases of one canonical path, which has to move when its name goes; handles remember that path |
| in-memory file locks (`locks.go`) | readers and writer per canonical path, one condition variable | Lock, Close | the path is resolved under one mutex and used under another |
| overlay (`overlay.go`) | an upper tree, a lower tree, whiteouts | WriteFile, MkdirAll, Remove, Rename, Link, Truncate, Stat, ReadFile, ReadDir | a call is a copy-up, a change of the upper tree and a change of whiteouts, with no lock around them |
| file watching (`watch.go`, `io_watch.go`) | bounded channels, pending overflow flags | watch, unwatch, emit | two stages of dropping senders, closed in an order of their own |
| await's sharing check (`native_temporal_await.go`) | none | branchSharingViolation | a graph walk with admitted limits; not modelled |
| fence of stored callbacks (`eng/go/compiled_runtime_vm.go`) | the effect ledger | InvokeCompiled | compares a counter shared with other goroutines; not modelled |
| terminal UI loop (`lang/go/modules/tui_run.go`) | event and tick channels | run | not modelled |
| parser, checker, compiler, VM, interpreter, type lattice, basic words | large, sequential | | compared with each other by the repository's differential tests; a model would transliterate them |
| command line, REPL, LSP, debugger, `calc`, `wpg`, `kg`, `utils` | front ends and side projects | | I/O and rendering |

The components interact as follows. A request to the library (`CompiledRun`)
runs words; `spawn` and the timers leave goroutines behind that outlive it and
run on forks of its registry, `await` waits for such forks. Forks copy the
`Proc` pointer, so a branch of `await` may receive on the mailbox of the process
it was forked from (`Processes`). Forks also share the effect ledger, the
subject of `CompiledRun` and `Await`. Callbacks of timers (`Timers`) and of
watchers (`Watch`) run on goroutines of their own and use the same files
(`MemFiles`, `MemLocks`, `Overlay`) as the program that set them up. Sessions of `NetSession` dispatch into the
services of `ServiceDispatch`, one goroutine per connection. `Supervisor` is the
process around all of it when it is run as a server.

What makes each part correct:

* processes: a bounded FIFO queue per process, no lost or repeated message, no
  sleeper beside what it waits for, everybody woken by a shutdown, no name left
  behind;
* services: one request at a time, a consistent chain of handlers, no deadlock
  without a circle of calls;
* net: the stream is never corrupted, a reply belongs to its request;
* await: each mode gives what it promises, no branch has its effects twice, no
  goroutine is left stuck;
* compiled execution: indistinguishable from the interpreter, in effects and in
  bindings;
* timers: at most the callback already due runs after a cancellation, and a
  cancelled timer comes to rest;
* files: a tree with hard links, whatever the sequence of calls; the union of two
  trees looks like one; a lock excludes what it should and wakes who can go on;
* watching: a gap is announced, nothing is sent on a closed channel, unwatch ends
  the watcher;
* serve: no service outlives `run()`, failures are reported, a signal always
  ends it, and Status tells the truth.

## 2. Modules

| module | models | role |
|---|---|---|
| `ProcessRuntime` | `ProcessRuntime` of `process.go` | the table, the names and the shutdown flag; `Processes` extends it and takes its methods as steps |
| `MessageQueues` | (no code) | abstract specification: bounded FIFO queues |
| `Processes` | `Process`, the process words | the detailed specification; extends `ProcessRuntime`, refines `MessageQueues` |
| `MCProcesses` | | instance: a top-level program, one process and a second goroutine that runs as it |
| `ServiceDispatch`, `MCServiceDispatch` | `native_service.go` | calls as frames on a stack per actor |
| `NetSession` | `net_codec.go` | client and server of one connection, messages of two pieces |
| `Await` | `native_temporal_await.go` | one await of N branches |
| `CompiledRun`, `MCCompiledRun` | `boru.go`, `effects.go`, `compile_sandbox.go` | requests to one instance; all sources up to a length |
| `Supervisor` | `serve.go`, `exec/service.go`, `registry/service.go` | services, control clients, a signal |
| `Timers` | `natives.go`, `native_misc.go` | timers, cancelling programs and cancelling callbacks |
| `FileTree` | the maps of `MemFileOps` | operators: what each call does to files, directories and aliases, and what makes them one tree (`IsTree`); used by `MemFiles`, `MemLocks` and `Overlay` |
| `FileSystem` | (no code) | abstract specification: an inode file system, without canonical names |
| `MemFiles`, `MCMemFiles` | `MemFileOps` with handles and maps | refines `FileSystem` |
| `MemLocks`, `MCMemLocks` | `locks.go` | locks over files that change |
| `Overlay`, `MCOverlay` | `overlay.go` | the union beside one plain tree (history) to which the same calls are applied |
| `Watch`, `MCWatch` | `watch.go`, `io_watch.go` | a watcher on an overlay |
| `Processes_proofs` | | theorems about `ProcessRuntime` and `Processes` |
| `ServiceDispatch_proofs`, `CompiledRun_proofs` | | theorems about the module of that name |
| `Serving_proofs` | | theorems about `Supervisor` and `NetSession` |
| `Background_proofs` | | theorems about `Await`, `Timers` and `Watch` |
| `FileTree_proofs` | | lemmas about paths and about every operator of `FileTree` |
| `MemFiles_proofs`, `FileUsers_proofs` | | theorems about the in-memory files, and about their locks and the overlay, from those lemmas |

How steps correspond to code:

* A section of code under one mutex is one step; where a mutex is released and
  taken again (`dispatchService`, the exit of a process, `Shutdown`) there are
  several. `sync.Cond.Wait` is a state of its own that only a broadcast leaves.
* `Processes`: `Send` and `PopFront` are loops under `p.mu`, one iteration is a
  step (`SendDropped`, `SendAccepted`, `SendRefused`, `SendBlocks`, `PopMessage`,
  `PopGivesUp`, `PopBlocks`). `TimerArmed` says when a sleeper has a timer (the
  100 ms poll, or the deadline); `TimerFires` is its callback. An exit is
  `ExitRemove` and `ExitClose`. `Shutdown` sets `down` and copies the table,
  `ShutdownWake` is one broadcast of its loop.
* `ServiceDispatch`: `Route` and `Enter` are the two critical sections of
  `dispatchService`; between them the frame carries the copied chain. A handler
  that runs is an activation in the frame of its call: a read and a write of the
  service's state and, before, between and after them, calls of other services
  (`Nested`, a new frame) and of `prior` (`Prior`, a new activation for the next
  handler of the chain, which ends with `PriorReturns`), any number up to a
  bound. A handler may fail anywhere: `PriorReturns` and `Return` are also the
  failing exits.
* `NetSession`: `Lock`, `WriteRequest`, `Decode`, `Read` and the failing exits
  are the steps of `dispatch`; `SessionRead`, `SessionDispatch`, `SessionReply`
  those of the session loop. The network delivers pieces in order, in chunks of
  any size.
* `Await`: a branch starts compiled, interpreted or as a value; `Bail` is an
  internal error of its unit, followed by a re-run when `Quiet`. `Deliver` is
  the end of its goroutine, `Receive` and `ReturnAll` the waiting side.
* `CompiledRun`: a source is a sequence of `def`, `undef`, `print` (an effect that
  marks the ledger), `send` (one on the network, which does not), imports of a
  module that prints and of one that sends, and `task` (something detached that
  prints later). `folder` and `fetch` mark before they act, so an effect is to be
  read as an attempted one. `CheckStep` executes one word
  of the check pass, `RunStep` one on the VM, `InterpStep` one of the re-run;
  `RefusePerformance`, `RefuseStatic`, `RefuseStrict`, `RunBails` and `RunErrors`
  are the arms of `RunAutoValues` and `RunCompiledStrict`. A refusal and a bail
  may come at any word.
* `Supervisor`: every store to an atomic is a step. `net/http` is external:
  `Shutdown` makes `Serve` return at once and waits for requests in flight.
* `Timers`: the check, the `Stop`, the `close` and the clearing of the handle are
  four steps of a cancel (`Cancel`, `StopTimer`, `CloseDone`, `ClearHandle`). Go's
  timers are external, with the semantics of Go 1.23 and later, which the module
  file asks for: a stopped ticker leaves no tick behind. A panic is an error of
  the program on a top-level run and the end of the process on a timer goroutine,
  whose engine (`New`, not `NewTop`) recovers nothing.
* `FileTree`: a path is a sequence of components; an alias leads to the canonical
  path that holds the content. `Unlink` hands the content on to an alias, `MoveMap`
  and `MoveKeys` are the loops of `Rename` over the three maps. Every operator
  yields the tree and the class of the error.
* `MemFiles`: a call is one step, as it holds one mutex throughout, and
  `Corresponds` relates it to the call of `FileSystem` that it should be (a
  refinement that only asks for some step of `FileSystem` would take a rename that
  drops a name for a remove). `bound` is a
  history: whether the path a handle remembers has stayed with its file. After a
  write through an unbound handle the model stops (`torn`).
* `MemLocks`: `Resolve` is the part of `Lock` under the mutex of the files, `Grant`,
  `Busy` and `Sleep` are the turns of its loop under that of the table.
* `Overlay`: a call is a preparation (the checks and the copy-up), a change of the
  upper tree and a change of the whiteouts. `Departs` says in which calls the code
  leaves the behaviour of a plain tree (section 4); the comparison ends there.
* `Watch`: the two selects of `sendWatch` are `SendMarker` and `SendEvent`; the
  in-memory layer sends under its mutex, fsnotify's through a pump of its own.
  That a change of the files emits an event is `Emit` here and left out of
  `MemFiles`.

Variables marked *history* in the modules record what has happened for the sake
of a property and are read by no action.

## 3. Runs

All runs pass (state counts are distinct states):

| run | checks | instance and why it is enough |
|---|---|---|
| `processes_safety` | `NameBackPointer`, `NoSleepingReceiver`, `SendAnswerIsTrue`, `FifoPerSender`, `NoSleepingSender`, and the refinement `ImplementsQueues` (with it the capacity of mailboxes, `MailboxBounded`) | 3 goroutines, 2 processes, 1 name, capacities 0 (unbounded) and 1, all policies, two senders, one of them sending twice, and two receivers (525 k): the second send of one sender meets a full mailbox, a message of the other sender, an exit or a shutdown. One name and two processes are enough to rebind it; more names and processes are the theorem's |
| `processes_liveness` | `ShutdownUnblocks`, `SenderNotStranded`, `TimedReceiveReturns` | capacity 1, 2 sends, 2 receivers (22 k) |
| `supervisor` | `NoServiceLeftBehind`, `ExitCodeTellsFailure`, `SignalEndsRun`, `StopEndsStart` | 2 services, 1 client with 1 operation, 1 request per service (296 k): one service can fail while the other runs |
| `dispatch` | `NoLostUpdate`, `ChainIsASnapshot`, `NoCircularWait`, `CallsReturn` | 2 services, the first calling the second, 2 actors, chains of up to two handlers of two kinds in the calling service and of one in the called one, each handler making one call, of `prior` or of the other service (376 k): a chain of a wrap and a handler, or of two handlers, shows their order; `prior` is called before, between and after the read and the write, and the other service by either layer. A handler that makes two calls is the theorem's (section 6); the invariants have also been checked with `MaxMade` 2 (they hold; 971 k states up to symmetry) |
| `net` | `StreamIntact`, `RepliesInTurn`, `TimedCallReturns` | 2 callers, 3 requests, the third with a malformed reply, calls without a timeout, with one and with an invalid one (161 k) |
| `compiled_requests` | `EffectOnce`, `RefusedIsClean`, `BlockedByOwnEffect`, `BindingsLikeInterpreter` | 2 requests, all sources of up to 2 words, both modes (3.6 M): a word that has had its effect, marked or not, and a word at which the run stops, after a request that left goroutines behind |
| `await` | `ResultIsOwed`, `PrintedOnce`, `FirstWins`, `StragglersEnd` | 3 branches, all modes (96 k): lowest and last error differ from the middle one |
| `memfiles` | `WellFormed`, the refinement `ImplementsFileSystem` | 5 paths (two directories with a child of the same name, one file beside them), 2 contents, 8 moves, 1 handle (8.0 k): links across, into and out of a moved or removed tree, a canonical name with two aliases, files over files, of the same file too, and trees over trees; the file of a handle is removed, replaced, linked and moved, alone and with its tree. While the handle is open the fifth path is not used (`HandleBound`); the theorems have no such bound |
| `memlocks` | `Exclusion`, `SleeperIsExcluded`, `LockReturns` | 3 goroutines with one call each on 2 names of which one may be an alias of the other (126 k): two readers keep out a writer, a writer two others |
| `overlay` | `UnionIsATree` | the 5 paths and moves above over two lower trees, one caller (609 k) |
| `watch` | `GapIsMarked`, `NoSendOnClosed`, `UnwatchEndsPump` | an in-memory layer over the real file system, streams of 2, 3 changes per layer (123 k): a stream is full, drained and full again, and a marker finds no room |
| `timers` | `AtMostOneLate`, `OnlyOverlapsPanic`, `CancelEnds` | 1 interval of 3 ticks, 1 timeout, 2 programs and both callbacks cancelling once (91 k): up to four cancels of one timer overlap |

Each of these properties has a mutant, an operator beside the definition it
replaces that is a plausible mistake in that code and makes TLC find the
property violated. A `TypeOK` documents the state of its module; the ones of
`ProcessRuntime`, `Processes` and `ServiceDispatch` are theorems, others are parts of
the inductive invariants of section 6, none is part of a run.

Deadlock is not checked (`CHECK_DEADLOCK FALSE`) because all of these systems
may stop: programs end, clients make no further call, and the bounds stop them.

## 4. Disagreements

Where a comment or a document says more than the code does, or where the code
leaves what its callers would expect. The properties named here are defined in
the modules and belong to no run; to see one fail, add it to the module's
configuration (`ExitDropsNames` under `RuntimeSpec` of `ProcessRuntime`).

* `ExitDropsNames`: `Remove` deletes only the one name a process remembers, and
  `RegisterName` lets it take a second one, or a name after its exit; such names
  go on resolving to it (`process.go:138`: "deletes p from the pid table and drops
  its registered name (if any)").
* `GracefulDrain` (`Supervisor`): `Start` returns as soon as `Shutdown` has been
  called, and nobody waits for the goroutine in which `Shutdown` waits for
  requests in flight (`serve.go:261`: "then drives graceful shutdown").
* `PausedRejects` (`Supervisor`): `Pause` and `Resume` store flag and state without
  a lock; interleaved, Status says `paused` and requests are accepted
  (`service/service.go:34`).
* `Stop` of a service stores `StateStopping` whatever the state is; after the store
  of `StateStopped` by `Start` it stays for ever (`service/service.go`: "set
  transiently"). `StopService` does not wait for `Start` (`serve.go`: "waits for it
  to unwind (or stopCtx to expire)").
* `ReplyMatches` (`NetSession`): after a timeout, the next call on the connection
  decodes the late reply as its own (`net_codec.go:548`: "synchronous
  correlation").
* `EveryEffectOnce` and `RefusedIsSilent` (`CompiledRun`): `send-bytes`
  (`net_socket.go:735`-`750`) and `call` and `send` of an endpoint
  (`net_codec.go:573`-`575`) write to the connection without `NoteEffect`, although
  the ledger is there because nothing can "un-send a network payload"
  (`effects.go:14`-`16`) and network sends are named among the effects that call it
  (`effects.go:52`-`53`). A bail after such a send sends the payload again, and
  `compile_refused` is returned after an import that has sent. `EffectOnce` and
  `RefusedIsClean` are about the effects that mark the ledger.
* `EveryEffectOnce`, again: starting a timer, a process or a straggling
  branch marks no ledger, so a re-run starts it a second time (`effects.go:12`,
  `effects.go:19`).
* `RunCompiledStrict` returns an error of the run without a rollback (`boru.go`:
  "on every error path the registry is rolled back to its pre-check state");
  `BindingsLikeInterpreter` leaves that outcome out. It arms no writer fence, so
  under it a branch of `await` that has printed looks quiet when its unit bails
  and prints again; `Await` models an armed registry.
* The branches of one `await` share their ledger, so the print of one denies a
  quiet sibling its re-run, and the internal error becomes its result. Nothing is
  printed twice.
* "One request at a time" (`native_service.go:381`) keeps other calls out, not the
  layers of one call: a handler that reads the state, calls `prior` and writes what
  it had read undoes the write of the lower layer. `NoLostUpdate` is about other
  calls. `prior` is also a value; one that outlives its call (returned, kept in the
  state, given to a process) runs the rest of the chain without the mutex. That is
  not modelled: in `ServiceDispatch` a `prior` is called within its handler.
* `state-of` hands out the live state of a service without its mutex
  (`native_service.go:286`); `noteEffectWriter` writes before it marks the ledger
  (`effects.go:81`), and `InvokeCompiled` compares a ledger that other goroutines
  of the request advance (`compiled_runtime_vm.go:47`).
* `Rename(a, a)` of the in-memory files deletes `a`, since every key is stored and
  then deleted (`capabilities.go:1104`-`1108` claims the rules of rename(2)); a
  directory renamed below itself loses its tree. `SelfMoves` of `MCMemFiles` in
  place of `MCMoves` shows the first. The theorems about files have the hypothesis
  that the program renames nothing into itself (`NoSelfMove`).
* `RenamesAsRename2` (`MemFiles`): a rename of one name of a file onto another of its
  names drops the old name, since the new one is unlinked first and the old one
  moved there (`capabilities.go:1143`-`1144`). rename(2) does nothing in that case.
  `capabilities.go:1104`-`1108` claims its rules, and the list of "documented fidelity
  exceptions" (`capabilities.go:544`-`558`) does not have this one. `FileSystem` follows
  rename(2); `ImplementsFileSystem` lets exactly these renames depart (`DropsLink`).
* A handle or map whose file has been removed, replaced or moved writes to
  whatever its old canonical path stands for, or makes a file there. The promise
  in `FileSystem` is weaker than a real file system's for that reason.
* The key of a lock is the canonical path at the time of the call: when the
  content moves to an alias, or the file is renamed, a second exclusive lock of
  the same file is granted. `Exclusion` is stated of keys that have stayed.
* `Link` to a directory records the parents of the new name before it refuses; the
  in-memory files make missing parents where the real ones fail.
* An exclusive lock may wait for ever behind readers that keep coming;
  `LockReturns` is about callers that stop coming.
* The overlay has no opaque directories: a directory made, written into or renamed
  onto a path whose lower directory was removed shows the lower children again.
  The upper tree does not see a lower entry in its way: a file is written over a
  lower directory, a directory made over a lower file, a tree renamed onto a
  lower directory with children. A file written over a removed lower directory
  cannot be renamed (the copy-up finds a file). `writeAtomic` fails in a directory
  that is only in the lower tree. `Departs` names the calls that lead to all but
  the last of these, and the run ends its comparison there; `writeAtomic` is
  outside of the model.
* With two callers of an overlay (`Callers = {m, n}`), a write clears a whiteout
  after another caller's remove has set it, and the removed lower content is back.
* A watcher "always learns" of dropped events (`watch.go:22`-`24`) only if a later
  event comes and finds room, or the stream has room when it is closed; errors of
  fsnotify, its own overflow among them, are drained silently.
* Cancels of one timer that overlap close a channel twice or call a method of nil.
  In a program that is an error; in a callback it ends the process.

## 5. Bounds and fairness

All bounds are constants of the modules: `MaxSend`, `MaxRecv` (per goroutine),
`MaxCall`, `MaxCalls`, `MaxDepth`, `MaxMade`, `MaxHandler`, `MaxRequest`, `MaxOp`, `MaxLen`, `N`,
`MaxTicks`, `MaxCancels`, `MaxEvents`. They cap counters in guards and nothing else
(`MaxHandler` is a bound per service). `Buffer` of `Watch` is the code's
`watchBufferSize`, made small so that it fills. Files have no such bound: their
states are finite because paths and contents are; `HandleBound` of `MCMemFiles` is
the one state constraint. No run uses symmetry.

Fairness is what the Go scheduler, its timers and its mutexes give. In
`Processes`: weak fairness of a loop iteration, of a deadline, of an armed timer
and of the straight-line code of an exit and of `Shutdown`; nothing obliges a
program to send, receive or exit. In `ServiceDispatch`: weak fairness of handler
bodies and strong fairness of taking a mutex (a Go mutex in starvation mode is
handed to the longest waiter). In `NetSession`: weak fairness of the callers, and
none of the session or the network, so the service may never answer. In `Await`:
weak fairness of delivering and of reading a result; bodies of branches need not
end. In `Supervisor`: weak fairness of `run()`, of each `Start`, of each
shutdown (its context expires) and of control requests; no request need be
answered. In `Timers`: weak fairness of the timers, of the interval's goroutine, of
callbacks (they return) and of a cancel that has begun; nobody need cancel. In
`MemLocks`: weak fairness of a turn of `Lock` and of `Close`, so whoever holds a
lock closes it; Go's mutexes are fair enough for that. In `Watch`: weak fairness
of every goroutine and of the callback; nobody need change a file or unwatch.

## 6. Proofs

TLAPS proves, for every value of the constants that satisfies the assumptions
stated in the modules:

* `RuntimeSafe`: `NameBackPointer`, inductive together with the types. The
  interesting case is `RegisterName`, which moves a name from one process to
  another while the new holder may hold another.
* `ProcessesSafe`: the types, `NameBackPointer`, `Lifecycle`, `MailboxBounded` and
  `NoSleepingReceiver`. Their conjunction is inductive. `NoSleepingReceiver` needs
  the broadcast of `SendAccepted`: no step appends to a mailbox and leaves a
  sleeper there; `Lifecycle` is what makes the target of every call a process
  that was spawned, so that configuring a new process cannot touch a mailbox in
  use. `Lifecycle` also makes the queue of a new process empty and open.
* `ProcessesImplementQueues`: the refinement, step by step. It uses the invariant:
  `Configure` of the abstract queue demands an empty, open queue, which `Lifecycle`
  gives for a process not yet spawned.
* `SendersAreReleased`: `NoSleepingSender`, with `ExitUnderWay`: a process that was
  spawned and is not in the table is between the two steps of its exit, or its
  mailbox is closed. A sender goes to sleep only in `SendBlocks`, on an open mailbox
  of a runtime that is up; the broadcast it then needs is that of `ExitClose` or of
  the loop of `Shutdown`, whose copy of the table has every process not yet removed.
* `OneRequestAtATime` and `HandlersExclude`: nobody else writes the state of a
  service while a call runs its handlers, and mutual exclusion. The invariant adds
  to the types: who runs a handler holds the mutex of its service (`RunnersHold`);
  only the innermost frame of an actor is not waiting for a nested call
  (`OuterFramesWait`); no actor is twice in one service (`HeldOnce`, which is why a
  service reached from its own handlers waits for ever rather than corrupting
  anything); a call that runs is in a handler (`InAHandler`). `NoLostUpdate` alone is
  not inductive: a second call in the handlers of the service would write its own
  value.
* `ChainsAreSnapshots`: wraps and stacks only grow at their ends, so what a call
  has copied between the two sections of `dispatchService` is made of a prefix of
  each, at least as long as when the call was made (`Snapshots`).
* `NobodyWaitsInACircle`: `NoCircularWait`, under the condition on the program that
  services can be ranked so that handlers only call services of a lower rank
  (`Descends`; without it a service reached from its own handlers waits for ever,
  which is what the code does). The frames of an actor descend in rank
  (`FramesDescend`) and a mutex that is held belongs to a frame that is running
  (`HoldersRun`: also after an error). Among the calls that wait, take one whose
  service is of least rank: the actor that holds that mutex is inside it, so
  whatever it would wait for has a lower rank, and it is not waiting.
* `SendsAreTruthful` and `MessagesArriveInOrder`: a goroutine sends its messages in
  increasing number, and every message in a mailbox, received, acknowledged or
  refused is one whose `Send` has ended (`AllSettled`); so what is appended is new
  and later than everything of its sender (`Ordered`, which relates what was
  received to what is still queued), is with nobody else (`ReceivedOnce`), has not
  been refused (`RefusedIsGone`), and an acknowledged one is kept until somebody
  receives it (`AckedIsThere`). The two properties alone are not inductive: they
  do not say that the next number is unused.
* `ReceiversAreWoken`: `NoSleepingReceiver` by itself, from `ProcessesSafe`.
* `RunOutlastsServices` and `ExitCodeIsTrue`: the WaitGroup is the number of
  goroutines launched and not returned (`Counted`), so zero says that there are
  none; all services are launched before `run()` waits (`Launched`); an error is
  either on record or still with its goroutine (`ErrorKept`).
* `NothingLostOnTheWire` and `RepliesCorrelate`: what the client has in its buffer,
  what is on the way to it, what the session answers, has in its buffer and what
  is on the way to it are consecutive segments of one numbered stream of pieces
  (`Stream`), however reads cut it and callers time out; the session's half is
  promised while it runs. Who writes or reads holds the mutex and its request is
  the last one written (`Serialized`); the n-th message decoded is the reply to the
  n-th request (`Correlated`), which is the caller's own as long as nobody has
  given up.
* `OwnEffectsOnce`, `RefusedLeavesNoTrace` and `FallbackDeniedForCause`: how far the
  request being served has got says which of its words may have been observed
  (`Progress`, one conjunct per phase); as long as a fallback is possible an
  unmarked ledger means that nothing of the request's own goroutine that marks it
  was (`Fence`), and a marked one that something was (`Marks`), although goroutines of
  earlier requests go on writing (`TasksAreOurs`). `EffectOnce` alone is not
  inductive: the re-run emits every word again.
* `BindingsAsInterpreted`: a run has made the bindings of the words before the one
  it is at (`Follows`), whether it began after the check pass was undone or after
  the fallback restored the snapshot. What the interpreter makes of a source is a
  recursive function; that it satisfies its own equations (`Recursion`) is proved by
  taking, were there none, the least position without a solution.
* `BranchOutputOnce`: what a branch has printed, it has printed in its present run
  (`SaidIsPrinted`), and while a compiled run that has printed goes on, the ledger
  is past the count it began with (`LedgerTells`), whoever else marks it; so a
  quiet branch has printed nothing.
* `ModesKeepPromises`: what has arrived is of branches that have ended, each once
  (`ArrivedEnded`, `ArrivedOnce`), `await` reads on past errors only (`ReadsOn`), and
  the result rests on outcomes that no longer change (`Owed`). That `any` has read
  every branch before it gives the last error is a counting argument over a
  sequence without repetition.
* `LateCallbacks`: once a cancel has passed `Stop`, and for good once the handle is
  cleared, the timer is neither armed nor pending (`StoppedIsOff`), so at most the
  callback received before is still to begin. `PanicsOverlap`: a cancel that
  overlaps no other finds the handle set and the channel open (`AloneIsSafe`),
  because whoever has closed the channel and not cleared the handle is still in
  its cancel (`ClosedIsBeingCleared`).
* `FilesStayATree`: every operator of `FileTree` takes a tree to a tree, for paths of
  any depth (`FileTree_proofs`: the order of paths by prefix, where a rename takes a
  path and its ancestors, that no two paths are moved to one, that an heir takes
  over the content and the aliases of a removed canonical path). The invariant
  adds that a handle not known to be lost has its file (`BoundIsThere`), so that a
  write through it makes nothing new. Under `NoSelfMove`.
* `FilesImplementInodes`: a file is known by the set of its names, of which the
  canonical path is only one, and a name is one of exactly one file
  (`OneFilePerName`), so what a call asks of the maps is what `FileSystem` asks of
  the inodes (`Looking`). Every operator then relabels files (`Relabelled`): `Unlink`
  takes names away whichever of them are canonical and a file lives on at its
  heir as long as one is left (`UnlinkNames`), `Rename` moves all but the one it
  replaces (`RenameNames`), `Link` adds one. A file whose canonical path is not
  touched stays there, so the handles that are not unbound still name it
  (`Follow`). The invariant of `FilesStayATree` is joined by `DataInv`: a file and a
  map hold contents, which is what makes a flush a write of one. Under
  `NoSelfMove`: a rename into itself is no step of `FileSystem`. The one call that is
  not the call of `FileSystem` is `DropsLink`.
* `SleepersAreExcluded` and `PathLocksExclude`: reader count and writer flag of a
  key are its holders (`TableTells`, with the cardinalities of finite sets), a
  writer is alone (`WriterIsAlone`), and a sleeper would still not be granted its
  lock (`SleepersWait`), which a grant keeps and a close makes void by waking all.
* `FileLocksExclude`: the key of a lock whose file has stayed in place is a
  canonical path, never an alias (`BoundKeys`, with the tree of `FileTree_proofs`), so
  two names of one file are locked under one key. Under `NoSelfMove`.
* `WatchSendsAreSafe`: stop passes every layer once (`StopHasPassed`, from the
  assumption that layers are distinct), a layer is closed between two sends of
  its source (`SourceIsIdle`), a forwarder signals only when its layer is closed
  and drained (`DoneIsDrained`), and the merged stream is closed after all of
  them (`OutClosedLast`).
* `GapsAreMarked`: what a layer has said and the callback has not seen is on the way
  in one order: the merged stream, what its forwarder holds or owes, the layer's
  stream, what its source holds or owes. Every item of it, the markers still owed
  included, stands for a number, and the numbers run without a jump from what was
  seen to what has happened (`Accounted`): an item that is dropped leaves its number
  to the marker that its sender owes from then on, and a marker that is dropped, to
  the one owed in its place (`Replaces`). `GapIsMarked` says this of what was seen only.
* `OverlayShowsOneTree`: `Agree` relates the two layers and the whiteouts to the plain
  tree, as sets of paths: the upper layer has all links; directories are united;
  a lower file shows where no whiteout covers it and the upper layer has no entry;
  no upper file is where a lower directory shows (`NoClash`, what `copyUpTree` would
  stop at). Every call is made of a few changes to the upper layer and the plain
  tree at once, each of which keeps `Agree`: directories recorded, a content stored,
  a link added, a tree removed or moved, a whiteout cleared, lower entries copied
  up. The invariant has a case per phase of a call: at rest; prepared, with
  everything the call touches in the upper layer; applied, agreeing under the
  whiteouts still to be set. For one caller, under `NoSelfMove`, and for calls that
  are none of the departures (section 4); paths, trees and contents are arbitrary.

`RepliesCorrelate` ends with the first call that gives up, `OwnEffectsOnce` and
`RefusedLeavesNoTrace` are about effects that mark the ledger, and
`RefusedLeavesNoTrace` about `compile_refused` alone: section 4 says why in each case.

The fairness of a specification is never used in these proofs. All invariants and
step properties the runs check are proved. Only model-checked: the liveness
properties, which need fairness (`SenderNotStranded`, `ShutdownUnblocks`,
`TimedReceiveReturns`, `SignalEndsRun`, `StopEndsStart`, `CallsReturn`,
`TimedCallReturns`, `FirstWins`, `StragglersEnd`, `LockReturns`, `UnwatchEndsPump`,
`CancelEnds`). `NoCircularWait` is the part of `CallsReturn` that is a safety property.

## 7. Not modelled

Values are abstract: messages are told apart by sender and number, handlers are
counters, sources are seven kinds of words, contents of files are whole values.
Within the modelled components the following is left out: the choice of a
`receive` clause, the check of what may be sent, pattern matching of requests,
the bytes of codecs, TLS, listeners, HTTP handlers, symbolic links, permissions,
times and extended attributes of files, splicing at offsets, which paths a
watcher covers. The verdict of await's sharing check is a nondeterministic
choice.

Components without a module: the parser, the checker, the compiler, the bytecode
machine, the interpreter, the type lattice and the pure words are most of the
repository's lines. They are sequential functions from data to data, large and
made of cases; a model of them would be a transliteration, and the repository
compares them with each other and with specification tables. The real file
system calls are wrappers. Zip files and the vault read and write whole files.
The front ends (command line, REPL, LSP, debugger) parse, print and call the
library. The terminal UI loop, the fence of stored callbacks and the sharing
check are worth a module each and are in the plan.

## 8. Plan

Done, in this order: the runtime and the processes with their proofs and
refinements; the supervisor; services with their proofs; connections; compiled
execution; await; the in-memory files with their refinement, locks, the overlay,
watching, timers; proofs for the supervisor, await, timers, locks and watching;
proofs of delivery and order of messages, of connections, of compiled execution,
of the results of await, of the file trees and of their refinement, of the bindings
of compiled execution, of the gaps of a watcher, of waiting between services and of
the overlay.

Next modules:

1. `CallbackFence`: `InvokeCompiled` on goroutines that share a ledger, composed
   with `ServiceDispatch`, whose handlers run through it.
2. `AwaitSharing`: the walk of `branchSharingViolation` as an algorithm, against
   what a branch can reach.
3. `TuiRun`: the event loop, its ticks and its end.
4. The choice of a `receive` clause against a reference definition.

Next theorem: two callers of the overlay, whose calls interleave between the upper
layer and the whiteouts; `UnionIsATree` does not hold of them, and what does is still
to be stated.

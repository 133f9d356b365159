-------------------------- MODULE ServiceDispatch --------------------------
(***************************************************************************)
(* In-process services (lang/go/native/native_service.go): dispatchService *)
(* under the service mutex, called by many actors (spawned processes,      *)
(* connection sessions), whose handlers may call other services, while     *)
(* `add` and `wrap` change the handlers.                                   *)
(*                                                                         *)
(* A call takes the mutex twice: to route the request and copy the chain   *)
(* of handlers, and again to run that chain. A handler's body is a read    *)
(* and a write of the service's state, without a lock of its own; before,  *)
(* between and after them it may call `prior`, the rest of the chain as a  *)
(* function, and other services. The patrun is external: a request matches *)
(* the pattern it is sent with, if that has handlers.                      *)
(***************************************************************************)
EXTENDS Naturals, Sequences, SequencesExt

CONSTANTS Service, Actor, Pattern, Handler,
          Calls,        \* the services the handlers of a service call
          NoActor,      \* nobody holds the mutex
          MaxDepth,     \* bound: calls nested in one another
          MaxMade,      \* bound: calls a handler makes, of prior and of services
          MaxCall,      \* bound: calls an actor makes from outside a handler
          MaxHandler    \* bound: the handlers that one request may run, per service

ASSUME DispatchAssumption == /\ Calls \in [Service -> SUBSET Service]
                             /\ NoActor \notin Actor
                             /\ MaxDepth \in Nat /\ MaxCall \in Nat /\ MaxMade \in Nat
                             /\ MaxHandler \in [Service -> Nat]

VARIABLES mu,       \* serviceState.mu: its holder
          stacks,   \* serviceState.stacks: handlers per pattern, newest last
          wraps,    \* serviceState.wraps: newest last
          count,    \* serviceState.state: what handlers read and write
          frames,   \* the calls each actor is in, innermost last
          calls     \* calls each actor has made

vars == <<mu, stacks, wraps, count, frames, calls>>

\* A handler that runs: before its read, between the read of "seen" and the
\* write, after the write; the calls it has made.
Activation == [pc : {"read", "write", "done"}, seen : Nat, made : Nat]

\* The calls under way. pc: waiting to route, waiting to run the chain, or
\* running it. acts[k] runs chain[k]: each was called as the prior of the one
\* before it, and the last one has the control. Histories: "own" is the state
\* as the call found it when it got the mutex, or as its handlers last wrote
\* it; "from" is the number of wraps and handlers there were when the call
\* was made.
Frame == [svc : Service, pat : Pattern, pc : {"route", "enter", "run"},
          chain : Seq(Handler), acts : Seq(Activation), own : Nat,
          from : [wraps : Nat, stack : Nat]]

TypeOK == /\ mu \in [Service -> Actor \cup {NoActor}]
          /\ stacks \in [Service -> [Pattern -> Seq(Handler)]]
          /\ wraps \in [Service -> Seq(Handler)]
          /\ count \in [Service -> Nat]
          /\ frames \in [Actor -> Seq(Frame)]
          /\ calls \in [Actor -> Nat]

Init == /\ mu = [s \in Service |-> NoActor]
        /\ stacks = [s \in Service |-> [p \in Pattern |-> <<>>]]
        /\ wraps = [s \in Service |-> <<>>]
        /\ count = [s \in Service |-> 0]
        /\ frames = [a \in Actor |-> <<>>]
        /\ calls = [a \in Actor |-> 0]

-----------------------------------------------------------------------------
Idle(a) == frames[a] = <<>>
Depth(a) == Len(frames[a])
Top(a) == frames[a][Len(frames[a])]
At(a, l) == Depth(a) > 0 /\ Top(a).pc = l

Pop(a) == frames' = [frames EXCEPT ![a] = SubSeq(@, 1, Len(@) - 1)]
Replace(a, f) == frames' = [frames EXCEPT ![a] = [@ EXCEPT ![Len(@)] = f]]

NewFrame(s, p) == [svc |-> s, pat |-> p, pc |-> "route", chain |-> <<>>, acts |-> <<>>,
                   own |-> 0,
                   from |-> [wraps |-> Len(wraps[s]), stack |-> Len(stacks[s][p])]]
Started == [pc |-> "read", seen |-> 0, made |-> 0]

\* The activation that has the control in the innermost call.
Running(a) == Top(a).acts[Len(Top(a).acts)]
InBody(a, l) == At(a, "run") /\ Running(a).pc = l

\* The innermost call with other activations.
Activations(a, as) == [Top(a) EXCEPT !.acts = as]
WithRunning(a, x) == Activations(a, [Top(a).acts EXCEPT ![Len(Top(a).acts)] = x])
Calling(a) == [Running(a) EXCEPT !.made = @ + 1]

\* sync.Mutex: free to be taken.
Free(s) == mu[s] = NoActor

\* Mutant: the handlers in the order they were added.
Chain_OldestFirst(s, p) == wraps[s] \o stacks[s][p]

\* dispatchService: the wraps, newest first, then the stack, newest first.
Chain(s, p) == Reverse(wraps[s]) \o Reverse(stacks[s][p])

\* serviceCallHandler, serviceSendHandler, DispatchServiceValue: a call from
\* outside any handler.
Call(a, s, p) == /\ Idle(a)
                 /\ calls[a] < MaxCall
                 /\ calls' = [calls EXCEPT ![a] = @ + 1]
                 /\ frames' = [frames EXCEPT ![a] = <<NewFrame(s, p)>>]
                 /\ UNCHANGED <<mu, stacks, wraps, count>>

\* dispatchService, first critical section: route, copy the chain, unlock.
\* Without a match the call ends with no_match.
Route(a) ==
    /\ At(a, "route")
    /\ Free(Top(a).svc)
    /\ IF stacks[Top(a).svc][Top(a).pat] = <<>>
       THEN Pop(a)
       ELSE Replace(a, [Top(a) EXCEPT !.pc = "enter",
                                      !.chain = Chain(Top(a).svc, Top(a).pat)])
    /\ UNCHANGED <<mu, stacks, wraps, count, calls>>

\* Mutant: the chain runs without the mutex.
Enter_Unlocked(a) == /\ At(a, "enter")
                     /\ Replace(a, [Top(a) EXCEPT !.pc = "run", !.acts = <<Started>>,
                                                  !.own = count[Top(a).svc]])
                     /\ UNCHANGED <<mu, stacks, wraps, count, calls>>

\* dispatchService: the mutex again, for as long as the chain runs;
\* runHandlerChain starts its first handler.
Enter(a) == /\ At(a, "enter")
            /\ Free(Top(a).svc)
            /\ mu' = [mu EXCEPT ![Top(a).svc] = a]
            /\ Replace(a, [Top(a) EXCEPT !.pc = "run", !.acts = <<Started>>,
                                         !.own = count[Top(a).svc]])
            /\ UNCHANGED <<stacks, wraps, count, calls>>

\* The handler that has the control reads the state, ...
Read(a) == /\ InBody(a, "read")
           /\ Replace(a, WithRunning(a, [Running(a) EXCEPT !.pc = "write",
                                                           !.seen = count[Top(a).svc]]))
           /\ UNCHANGED <<mu, stacks, wraps, count, calls>>

\* ... writes the state, ...
Write(a) == /\ InBody(a, "write")
            /\ count' = [count EXCEPT ![Top(a).svc] = Running(a).seen + 1]
            /\ Replace(a, [WithRunning(a, [Running(a) EXCEPT !.pc = "done"])
                             EXCEPT !.own = Running(a).seen + 1])
            /\ UNCHANGED <<mu, stacks, wraps, calls>>

\* ... and at any point calls another service (or its own, and then never
\* returns) ...
Nested(a, s, p) ==
    /\ At(a, "run")
    /\ Running(a).made < MaxMade
    /\ s \in Calls[Top(a).svc]
    /\ Depth(a) < MaxDepth
    /\ frames' = [frames EXCEPT ![a] = Append([@ EXCEPT ![Len(@)] = WithRunning(a, Calling(a))],
                                               NewFrame(s, p))]
    /\ UNCHANGED <<mu, stacks, wraps, count, calls>>

\* ... or `prior`: the next handler of the chain starts, with the same state
\* (past the end of the chain prior answers None and nothing runs).
Prior(a) == /\ At(a, "run")
            /\ Running(a).made < MaxMade
            /\ Len(Top(a).acts) < Len(Top(a).chain)
            /\ Replace(a, Activations(a, Append(WithRunning(a, Calling(a)).acts, Started)))
            /\ UNCHANGED <<mu, stacks, wraps, count, calls>>

\* A handler that was called as prior returns, or fails at any point: the
\* one that called it goes on (with the error, it may catch it or fail too).
PriorReturns(a) == /\ At(a, "run")
                   /\ Len(Top(a).acts) > 1
                   /\ Replace(a, Activations(a, Front(Top(a).acts)))
                   /\ UNCHANGED <<mu, stacks, wraps, count, calls>>

\* Mutant: the mutex is not released by a handler that fails.
Return_ErrorKeepsLock(a) ==
    /\ At(a, "run")
    /\ Len(Top(a).acts) = 1
    /\ mu' = IF Running(a).pc = "done" THEN [mu EXCEPT ![Top(a).svc] = NoActor] ELSE mu
    /\ Pop(a)
    /\ UNCHANGED <<stacks, wraps, count, calls>>

\* The first handler returns, or fails at any point: the deferred Unlock runs.
Return(a) == /\ At(a, "run")
             /\ Len(Top(a).acts) = 1
             /\ mu' = [mu EXCEPT ![Top(a).svc] = NoActor]
             /\ Pop(a)
             /\ UNCHANGED <<stacks, wraps, count, calls>>

\* serviceAddHandler: pushes onto the pattern's stack, under the mutex.
Add(a, s, p, h) == /\ Idle(a)
                   /\ Free(s)
                   /\ Len(Chain(s, p)) < MaxHandler[s]
                   /\ stacks' = [stacks EXCEPT ![s][p] = Append(@, h)]
                   /\ UNCHANGED <<mu, wraps, count, frames, calls>>

\* serviceWrapHandler.
Wrap(a, s, h) == /\ Idle(a)
                 /\ Free(s)
                 /\ \A p \in Pattern : Len(Chain(s, p)) < MaxHandler[s]
                 /\ wraps' = [wraps EXCEPT ![s] = Append(@, h)]
                 /\ UNCHANGED <<mu, stacks, count, frames, calls>>

-----------------------------------------------------------------------------
Body(a) == Read(a) \/ Write(a) \/ Prior(a) \/ PriorReturns(a) \/ Return(a)
Locks(a) == Route(a) \/ Enter(a)

Next == \E a \in Actor :
           \/ Body(a) \/ Locks(a)
           \/ \E s \in Service, p \in Pattern :
                 \/ Call(a, s, p) \/ Nested(a, s, p)
                 \/ \E h \in Handler : Add(a, s, p, h)
           \/ \E s \in Service, h \in Handler : Wrap(a, s, h)

Spec == Init /\ [][Next]_vars

\* Handlers end, and a Go mutex starves no goroutine that waits for it.
LiveSpec == Spec /\ \A a \in Actor : WF_vars(Body(a)) /\ SF_vars(Locks(a))

-----------------------------------------------------------------------------
\* "One request at a time": from the moment a call has the mutex until it
\* returns, with everything its handlers call in between, the state is as
\* this call found it or last wrote it. So no other call's write is lost to
\* it, and none comes between its reads and its writes. (Within one call the
\* handlers see each other: one that reads, calls prior and then writes what
\* it had read undoes the write of the lower layer.)
NoLostUpdate == \A a \in Actor : \A i \in 1..Len(frames[a]) :
                   frames[a][i].pc = "run" => count[frames[a][i].svc] = frames[a][i].own

\* A frame that runs a chain holds the mutex of its service.
RunnersHold == \A a \in Actor : \A i \in 1..Len(frames[a]) :
                  frames[a][i].pc = "run" => mu[frames[a][i].svc] = a

\* A call that runs a chain is in one of its handlers.
InAHandler == \A a \in Actor : \A i \in 1..Len(frames[a]) :
                 frames[a][i].pc = "run" => Len(frames[a][i].acts) > 0

\* Only the innermost call of an actor is not in the middle of a handler.
OuterFramesWait == \A a \in Actor : \A i \in 1..Len(frames[a]) :
                      i < Len(frames[a]) => frames[a][i].pc = "run"

\* No actor is twice in a handler of one service.
HeldOnce == \A a \in Actor : \A i, j \in 1..Len(frames[a]) :
               i # j /\ frames[a][i].pc = "run" /\ frames[a][j].pc = "run"
               => frames[a][i].svc # frames[a][j].svc

\* The chain a call is about to run, copied in an earlier critical section,
\* is the chain of one moment since the call was made: what was added before
\* the call is in it, in the right order, and nothing is there twice.
ChainIsASnapshot ==
    \A a \in Actor : At(a, "enter") =>
        LET f == Top(a) IN
        \E w \in f.from.wraps..Len(wraps[f.svc]),
           k \in f.from.stack..Len(stacks[f.svc][f.pat]) :
              f.chain = Reverse(SubSeq(wraps[f.svc], 1, w))
                            \o Reverse(SubSeq(stacks[f.svc][f.pat], 1, k))

\* An actor that waits for a mutex somebody holds.
Waits(a) == Depth(a) > 0 /\ Top(a).pc \in {"route", "enter"} /\ ~Free(Top(a).svc)

\* Nobody waits in a circle, or for a mutex that was left locked: while a
\* call waits for the mutex of a service, some call is not waiting, although
\* a handler keeps its service's mutex during the calls it makes.
NoCircularWait ==
    \A a \in Actor : Waits(a) => \E b \in Actor : ~Idle(b) /\ ~Waits(b)

\* A call returns, though its handlers call other services, as long as no
\* service is reached again from its own handlers.
CallsReturn == \A a \in Actor : ~Idle(a) ~> Idle(a)
=============================================================================

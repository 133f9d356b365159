----------------------------- MODULE Supervisor -----------------------------
(***************************************************************************)
(* `boru serve`: the supervisor of cmd/go/internal/serve and the life      *)
(* cycle of the HTTP services it runs (exec and registry, which have the   *)
(* same Start, Stop, Pause and Resume), driven by a termination signal and *)
(* by concurrent control requests (api/routes.go handleAction).            *)
(*                                                                         *)
(* state is an atomic with its own stores, so every store is a step.       *)
(* net/http is external: Shutdown marks the server as shutting down, which *)
(* makes Serve (now or when it is called) return at once, and itself waits *)
(* until no request is in flight or its context expires.                   *)
(***************************************************************************)
EXTENDS Naturals, FiniteSets

CONSTANTS Service,     \* the services, in the order "run" launches them: any
          Client,      \* concurrent control requests
          MaxRequest,  \* bound: requests each service is sent
          MaxOp        \* bound: control requests each client makes

ASSUME SupervisorAssumption == /\ IsFiniteSet(Service) /\ Service # {}
                               /\ MaxRequest \in Nat /\ MaxOp \in Nat

VARIABLES runPc,       \* run(): "launch", "select", "cancelled", "exited"
          wg,          \* supervisor.wg
          registered,  \* keys of supervisor.cancels
          ctxDone,     \* services whose context is cancelled
          signalled,   \* the ctx of run() is cancelled
          hadErr,      \* run()'s hadErr
          failed,      \* history: services whose Start came to an error
          exitCode,    \* what run() returned
          startPc,     \* the goroutine of each service, in Start
          watchPc,     \* Start's goroutine that waits for ctx
          state,       \* Server.state: what Status() reports
          paused,      \* Server.paused
          shutting,    \* http.Server: Shutdown was called
          inflight,    \* requests being handled
          requests,    \* requests sent so far
          op,          \* the control request of each client
          ops          \* control requests each client has made

runVars == <<runPc, wg, registered, ctxDone, signalled, hadErr, exitCode>>
svcVars == <<startPc, watchPc, state, paused, shutting, failed>>
vars == <<runVars, svcVars, inflight, requests, op, ops>>

Idle == [at |-> "idle", svc |-> CHOOSE s \in Service : TRUE]
Op(l, s) == [at |-> l, svc |-> s]

States == {"stopped", "starting", "running", "paused", "stopping"}

TypeOK ==
    /\ runPc \in {"launch", "select", "cancelled", "exited"}
    /\ wg \in 0..Cardinality(Service)
    /\ registered \subseteq Service /\ ctxDone \subseteq Service /\ failed \subseteq Service
    /\ signalled \in BOOLEAN /\ hadErr \in BOOLEAN /\ exitCode \in {0, 1}
    /\ startPc \in [Service -> {"none", "launched", "listening", "bound", "serving",
                                "served", "failed", "returned"}]
    /\ watchPc \in [Service -> {"none", "watching", "draining", "ended"}]
    /\ state \in [Service -> States]
    /\ paused \in [Service -> BOOLEAN] /\ shutting \in [Service -> BOOLEAN]
    /\ inflight \in [Service -> 0..MaxRequest] /\ requests \in [Service -> 0..MaxRequest]
    /\ op \in [Client -> [at : {"idle", "stop", "shutdown", "drain", "timeout", "cancel",
                                "pause", "paused", "resume", "resumed"}, svc : Service]]
    /\ ops \in [Client -> 0..MaxOp]

Init == /\ runPc = "launch" /\ wg = 0 /\ registered = {} /\ ctxDone = {}
        /\ signalled = FALSE /\ hadErr = FALSE /\ exitCode = 0 /\ failed = {}
        /\ startPc = [s \in Service |-> "none"]
        /\ watchPc = [s \in Service |-> "none"]
        /\ state = [s \in Service |-> "stopped"]
        /\ paused = [s \in Service |-> FALSE]
        /\ shutting = [s \in Service |-> FALSE]
        /\ inflight = [s \in Service |-> 0]
        /\ requests = [s \in Service |-> 0]
        /\ op = [c \in Client |-> Idle]
        /\ ops = [c \in Client |-> 0]

\* The process is gone once run() has returned: nothing else takes a step.
Alive == runPc # "exited"

-----------------------------------------------------------------------------
\* Mutant: the goroutine itself calls wg.Add, so run() may not count it.
Launch_AddInGoroutine(s) ==
    /\ runPc = "launch"
    /\ s \notin registered
    /\ registered' = registered \cup {s}
    /\ wg' = wg
    /\ startPc' = [startPc EXCEPT ![s] = "launched"]
    /\ runPc' = IF registered' = Service THEN "select" ELSE "launch"
    /\ UNCHANGED <<ctxDone, signalled, hadErr, exitCode, watchPc, state, paused,
                   shutting, failed, inflight, requests, op, ops>>

\* run(): register the cancel function, wg.Add(1), then the goroutine.
Launch(s) ==
    /\ runPc = "launch"
    /\ s \notin registered
    /\ registered' = registered \cup {s}
    /\ wg' = wg + 1
    /\ startPc' = [startPc EXCEPT ![s] = "launched"]
    /\ runPc' = IF registered' = Service THEN "select" ELSE "launch"
    /\ UNCHANGED <<ctxDone, signalled, hadErr, exitCode, watchPc, state, paused,
                   shutting, failed, inflight, requests, op, ops>>

\* SIGINT or SIGTERM: the context of run(), and with it those derived from
\* it, are done; a context made later from a done one is done as well.
Signal == /\ Alive
          /\ ~signalled
          /\ signalled' = TRUE
          /\ UNCHANGED <<runPc, wg, registered, ctxDone, hadErr, exitCode, svcVars,
                         inflight, requests, op, ops>>

CtxDone(s) == signalled \/ s \in ctxDone

\* run(): the ctx.Done() branch of the select cancels every service.
CancelAll == /\ runPc = "select"
             /\ signalled
             /\ ctxDone' = registered
             /\ runPc' = "cancelled"
             /\ UNCHANGED <<wg, registered, signalled, hadErr, exitCode, svcVars,
                            inflight, requests, op, ops>>

\* run(): allDone is closed once wg.Wait() returns, on both branches.
RunReturns == /\ runPc \in {"select", "cancelled"}
              /\ wg = 0
              /\ exitCode' = IF hadErr THEN 1 ELSE 0
              /\ runPc' = "exited"
              /\ UNCHANGED <<wg, registered, ctxDone, signalled, hadErr, svcVars,
                             inflight, requests, op, ops>>

-----------------------------------------------------------------------------
\* Start: StateStarting, under s.mu, which nothing else takes.
StartBegins(s) ==
    /\ Alive
    /\ startPc[s] = "launched"
    /\ startPc' = [startPc EXCEPT ![s] = "listening"]
    /\ state' = [state EXCEPT ![s] = "starting"]
    /\ UNCHANGED <<runVars, watchPc, paused, shutting, failed, inflight, requests, op, ops>>

Listen(s) == /\ Alive
             /\ startPc[s] = "listening"
             /\ startPc' = [startPc EXCEPT ![s] = "bound"]
             /\ UNCHANGED <<runVars, watchPc, state, paused, shutting, failed, inflight,
                            requests, op, ops>>

\* Mutant: Serve without the goroutine that waits for ctx.
Serve_Unwatched(s) ==
    /\ Alive
    /\ startPc[s] = "bound"
    /\ startPc' = [startPc EXCEPT ![s] = "serving"]
    /\ state' = [state EXCEPT ![s] = "running"]
    /\ UNCHANGED <<runVars, watchPc, paused, shutting, failed, inflight, requests, op, ops>>

\* Start: StateRunning, the goroutine that waits for ctx, and Serve.
Serve(s) ==
    /\ Alive
    /\ startPc[s] = "bound"
    /\ startPc' = [startPc EXCEPT ![s] = "serving"]
    /\ watchPc' = [watchPc EXCEPT ![s] = "watching"]
    /\ state' = [state EXCEPT ![s] = "running"]
    /\ UNCHANGED <<runVars, paused, shutting, failed, inflight, requests, op, ops>>

\* Serve returns ErrServerClosed as soon as Shutdown was called, requests in
\* flight or not; close(done) and StateStopped follow.
ServeReturns(s) ==
    /\ Alive
    /\ startPc[s] = "serving"
    /\ shutting[s]
    /\ startPc' = [startPc EXCEPT ![s] = "served"]
    /\ state' = [state EXCEPT ![s] = "stopped"]
    /\ UNCHANGED <<runVars, watchPc, paused, shutting, failed, inflight, requests, op, ops>>

\* Listen fails, or Serve does for another reason than Shutdown.
StartFails(s) ==
    /\ Alive
    /\ startPc[s] = "listening" \/ (startPc[s] = "serving" /\ ~shutting[s])
    /\ startPc' = [startPc EXCEPT ![s] = "failed"]
    /\ state' = [state EXCEPT ![s] = "stopped"]
    /\ failed' = failed \cup {s}
    /\ UNCHANGED <<runVars, watchPc, paused, shutting, inflight, requests, op, ops>>

\* The goroutine of run(): an error of Start is recorded ...
RecordError(s) ==
    /\ Alive
    /\ startPc[s] = "failed"
    /\ hadErr' = TRUE
    /\ startPc' = [startPc EXCEPT ![s] = "served"]
    /\ UNCHANGED <<runPc, wg, registered, ctxDone, signalled, exitCode, watchPc, state,
                   paused, shutting, failed, inflight, requests, op, ops>>

\* Mutant: wg.Done may run before the error is recorded.
StartReturns_DoneFirst(s) ==
    /\ Alive
    /\ startPc[s] \in {"served", "failed"}
    /\ startPc' = [startPc EXCEPT ![s] = "returned"]
    /\ wg' = wg - 1
    /\ UNCHANGED <<runPc, registered, ctxDone, signalled, hadErr, exitCode, watchPc, state,
                   paused, shutting, failed, inflight, requests, op, ops>>

\* ... and then the deferred wg.Done runs.
StartReturns(s) ==
    /\ Alive
    /\ startPc[s] = "served"
    /\ startPc' = [startPc EXCEPT ![s] = "returned"]
    /\ wg' = wg - 1
    /\ UNCHANGED <<runPc, registered, ctxDone, signalled, hadErr, exitCode, watchPc, state,
                   paused, shutting, failed, inflight, requests, op, ops>>

\* Start's goroutine: ctx is done, so Shutdown; or Start is (close(done)).
WatcherShutsDown(s) ==
    /\ Alive
    /\ watchPc[s] = "watching"
    /\ CtxDone(s)
    /\ shutting' = [shutting EXCEPT ![s] = TRUE]
    /\ watchPc' = [watchPc EXCEPT ![s] = "draining"]
    /\ UNCHANGED <<runVars, startPc, state, paused, failed, inflight, requests, op, ops>>

\* Shutdown returns: no request is in flight, or five seconds have passed.
WatcherEnds(s) ==
    /\ Alive
    /\ \/ watchPc[s] = "draining"
       \/ watchPc[s] = "watching" /\ startPc[s] \in {"served", "returned"}
    /\ watchPc' = [watchPc EXCEPT ![s] = "ended"]
    /\ UNCHANGED <<runVars, startPc, state, paused, shutting, failed, inflight, requests, op, ops>>

-----------------------------------------------------------------------------
\* A request is accepted, unless it is answered 503 because of paused.
Request(s) == /\ Alive
              /\ startPc[s] = "serving" /\ ~shutting[s] /\ ~paused[s]
              /\ requests[s] < MaxRequest
              /\ requests' = [requests EXCEPT ![s] = @ + 1]
              /\ inflight' = [inflight EXCEPT ![s] = @ + 1]
              /\ UNCHANGED <<runVars, svcVars, op, ops>>

Respond(s) == /\ Alive
              /\ inflight[s] > 0
              /\ inflight' = [inflight EXCEPT ![s] = @ - 1]
              /\ UNCHANGED <<runVars, svcVars, requests, op, ops>>

-----------------------------------------------------------------------------
\* handleAction: a control request about service s.
OpBegin(c, s, l) ==
    /\ Alive
    /\ op[c].at = "idle"
    /\ ops[c] < MaxOp
    /\ l \in {"stop", "pause", "resume"}
    /\ op' = [op EXCEPT ![c] = Op(l, s)]
    /\ ops' = [ops EXCEPT ![c] = @ + 1]
    /\ UNCHANGED <<runVars, svcVars, inflight, requests>>

OpStep(c, l, m) == /\ Alive
                   /\ op[c].at = l
                   /\ op' = [op EXCEPT ![c] = IF m = "idle" THEN Idle ELSE [@ EXCEPT !.at = m]]
                   /\ UNCHANGED <<inflight, requests, ops>>

\* Stop (from StopService): StateStopping, whatever the state was.
StopMarks(c) == /\ OpStep(c, "stop", "shutdown")
                /\ state' = [state EXCEPT ![op[c].svc] = "stopping"]
                /\ UNCHANGED <<runVars, startPc, watchPc, paused, shutting, failed>>

\* Mutant: Stop only marks the state and leaves the server alone.
StopShutsDown_Not(c) == OpStep(c, "shutdown", "drain") /\ UNCHANGED <<runVars, svcVars>>

\* Stop: srv.Shutdown closes the listener ...
StopShutsDown(c) == /\ OpStep(c, "shutdown", "drain")
                    /\ shutting' = [shutting EXCEPT ![op[c].svc] = TRUE]
                    /\ UNCHANGED <<runVars, startPc, watchPc, state, paused, failed>>

\* ... and waits for the requests in flight, or for stopCtx to expire.
StopDrained(c) == /\ inflight[op[c].svc] = 0
                  /\ OpStep(c, "drain", "cancel")
                  /\ UNCHANGED <<runVars, svcVars>>

StopTimesOut(c) == /\ inflight[op[c].svc] > 0
                   /\ OpStep(c, "drain", "timeout")
                   /\ UNCHANGED <<runVars, svcVars>>

\* StopService: the cancel function, if run() has registered it; it returns.
StopCancels(c) ==
    /\ \E l \in {"cancel", "timeout"} : OpStep(c, l, "idle")
    /\ ctxDone' = ctxDone \cup ({op[c].svc} \cap registered)
    /\ UNCHANGED <<runPc, wg, registered, signalled, hadErr, exitCode, svcVars>>

\* Pause and Resume: the flag that serveHTTP reads, then the state.
PauseFlag(c) == /\ OpStep(c, "pause", "paused")
                /\ paused' = [paused EXCEPT ![op[c].svc] = TRUE]
                /\ UNCHANGED <<runVars, startPc, watchPc, state, shutting, failed>>

PauseState(c) == /\ OpStep(c, "paused", "idle")
                 /\ state' = [state EXCEPT ![op[c].svc] = "paused"]
                 /\ UNCHANGED <<runVars, startPc, watchPc, paused, shutting, failed>>

ResumeFlag(c) == /\ OpStep(c, "resume", "resumed")
                 /\ paused' = [paused EXCEPT ![op[c].svc] = FALSE]
                 /\ UNCHANGED <<runVars, startPc, watchPc, state, shutting, failed>>

ResumeState(c) == /\ OpStep(c, "resumed", "idle")
                  /\ state' = [state EXCEPT ![op[c].svc] = "running"]
                  /\ UNCHANGED <<runVars, startPc, watchPc, paused, shutting, failed>>

-----------------------------------------------------------------------------
StartStep(s) == \/ StartBegins(s) \/ Listen(s) \/ Serve(s) \/ ServeReturns(s)
                \/ RecordError(s) \/ StartReturns(s)
WatchStep(s) == WatcherShutsDown(s) \/ WatcherEnds(s)
ControlStep(c) == \/ StopMarks(c) \/ StopShutsDown(c) \/ StopDrained(c)
                  \/ StopTimesOut(c) \/ StopCancels(c)
                  \/ PauseFlag(c) \/ PauseState(c) \/ ResumeFlag(c) \/ ResumeState(c)

Next == \/ \E s \in Service : \/ Launch(s) \/ StartStep(s) \/ StartFails(s) \/ WatchStep(s)
                              \/ Request(s) \/ Respond(s)
        \/ Signal \/ CancelAll \/ RunReturns
        \/ \E c \in Client : \/ ControlStep(c)
                             \/ \E s \in Service, l \in {"stop", "pause", "resume"} :
                                   OpBegin(c, s, l)

Spec == Init /\ [][Next]_vars

\* The goroutines of the supervisor and of the services run, and Shutdown's
\* deadlines expire; no request need ever come or be answered.
Fairness == /\ WF_vars(CancelAll) /\ WF_vars(RunReturns)
            /\ \A s \in Service : /\ WF_vars(Launch(s))
                                  /\ WF_vars(StartStep(s))
                                  /\ WF_vars(WatchStep(s))
            /\ \A c \in Client : WF_vars(ControlStep(c))

LiveSpec == Spec /\ Fairness

-----------------------------------------------------------------------------
\* run() does not return, and with it the process does not end, while the
\* Start of a service it launched is still going on: wg.Add comes before the
\* goroutine and every return of Start is counted once.
NoServiceLeftBehind ==
    runPc = "exited" => \A s \in Service : startPc[s] = "returned"

\* run() "Returns 0 on clean shutdown, 1 if any service returned an error":
\* the error is recorded before wg.Done, also when it comes during shutdown.
ExitCodeTellsFailure == runPc = "exited" => (exitCode = 1 <=> failed # {})

\* A termination signal ends the process, whatever Start was doing when it
\* came and however many requests are in flight.
SignalEndsRun == signalled ~> (runPc = "exited")

\* A Stop ends the service's Start, also when it comes before Start has bound
\* its listener or called Serve, and although Stop takes no lock.
StopEndsStart ==
    \A s \in Service :
        (\E c \in Client : op[c] = Op("drain", s)) ~> (startPc[s] = "returned" \/ runPc = "exited")

-----------------------------------------------------------------------------
\* What the comments say of this code, and the code does not keep (README,
\* Disagreements).

\* run() "drives graceful shutdown": it does not return while the Shutdown of
\* a service still waits for requests in flight.
GracefulDrain ==
    runPc = "exited" => \A s \in Service : watchPc[s] = "draining" => inflight[s] = 0

\* StatePaused "indicates the service is alive but rejecting or queueing work":
\* when no control request is under way, Status and serveHTTP agree.
PausedRejects ==
    (\A c \in Client : op[c].at = "idle") => \A s \in Service : state[s] = "paused" => paused[s]
=============================================================================

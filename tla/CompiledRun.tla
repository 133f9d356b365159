----------------------------- MODULE CompiledRun -----------------------------
(***************************************************************************)
(* Compiled by default, interpreted when that fails (RunAutoValues of      *)
(* lang/go/boru.go): a request is checked and compiled, run on the VM, and *)
(* re-run from its first word on the interpreter when the compiler refuses *)
(* it or the VM bails out.  The registry is rolled back before the re-run; *)
(* effects cannot be, so an effect ledger (core/go/effects.go) must prove  *)
(* that none has escaped.  RunCompiledStrict is the mode without fallback. *)
(*                                                                         *)
(* A source is a sequence of words: "def" and "undef" of one name;         *)
(* "print", an effect that marks the ledger (output, write, folder, fetch);*)
(* "send", one that does not (a payload sent on a socket or an endpoint);  *)
(* "import" and "import_send", of a module whose body prints and of one    *)
(* whose body sends; and "task", which leaves a detached goroutine (a      *)
(* timer, a process, a straggling branch) that prints later.  The check    *)
(* pass executes the definitions and the imports.  Requests to one         *)
(* instance follow each other; their detached goroutines run on.           *)
(***************************************************************************)
EXTENDS Naturals, Sequences, SequencesExt

CONSTANTS Sources,     \* the sources a request may have
          Modes,       \* the entry points, of "auto" and "strict"
          MaxRequest   \* bound: requests to the instance

Imports == {"import", "import_send"}
Vocabulary == {"def", "undef", "print", "send", "task"} \cup Imports

ASSUME CompiledRunAssumption ==
    /\ Sources \subseteq Seq(Vocabulary)
    /\ Modes \subseteq {"auto", "strict"}
    /\ MaxRequest \in Nat

Request == 1..MaxRequest

VARIABLES src,       \* the source of each request
          mode,      \* its entry point
          req,       \* the number of the last request made
          phase,     \* what the instance does: "idle", "check", "run", "interp",
                     \* or "refused" (compile_refused was returned to the caller)
          pos,       \* the word to execute next
          defs,      \* Registry.Defs: the bindings of the name, newest last
          loaded,    \* Registry.Modules.Loaded: the modules imported
          snap,      \* SnapshotForCompile of the request
          ledger,    \* the EffectLedger each request installs
          effectsAt, \* its Count() when the request began
          tasks,     \* detached goroutines: [req, pos, run, written]
          emitted,   \* history: how often each word's effect was observed, or
                     \* attempted (folder and fetch mark before they act)
          outcome    \* what the caller of each request got

regVars == <<defs, loaded>>
vars == <<src, mode, req, phase, pos, regVars, snap, ledger, effectsAt, tasks, emitted,
          outcome>>

Outcomes == {"none", "ok", "error", "blocked", "refused", "strict_error"}

Words == src[req]
Word == Words[pos]
AtEnd == pos > Len(Words)

TypeOK == /\ src \in [Request -> Sources] /\ mode \in [Request -> Modes]
          /\ req \in 0..MaxRequest
          /\ phase \in {"idle", "check", "run", "interp", "refused"}
          /\ pos \in Nat
          /\ defs \in Seq(Request \X Nat) /\ loaded \subseteq Imports
          /\ snap \in [defs : Seq(Request \X Nat), loaded : SUBSET Imports]
          /\ ledger \in [Request -> Nat] /\ effectsAt \in Nat
          /\ tasks \subseteq [req : Request, pos : Nat, run : {"run", "interp"},
                              written : BOOLEAN]
          /\ emitted \in [Request -> Seq(Nat)]
          /\ outcome \in [Request -> Outcomes]

Init == /\ src \in [Request -> Sources] /\ mode \in [Request -> Modes]
        /\ req = 0 /\ phase = "idle" /\ pos = 1
        /\ defs = <<>> /\ loaded = {}
        /\ snap = [defs |-> <<>>, loaded |-> {}]
        /\ ledger = [r \in Request |-> 0] /\ effectsAt = 0
        /\ tasks = {}
        /\ emitted = [r \in Request |-> [i \in 1..Len(src[r]) |-> 0]]
        /\ outcome = [r \in Request |-> "none"]

-----------------------------------------------------------------------------
\* Mutant: all requests mark the ledger of the registry.
LedgerOf_Shared(r) == 1

\* A fresh ledger per request; forks keep the one they were forked under.
LedgerOf(r) == r

\* The fence: Count() != effectsAt.
Escaped == ledger[LedgerOf(req)] # effectsAt

\* The words whose effects mark no ledger: send-bytes and the call and send
\* of an endpoint write to the connection and do not call NoteEffect.
Unfenced == {"send", "import_send"}

\* An effect on the goroutine of the request: noteEffectWriter.Write and
\* NoteEffect mark it. The strict mode arms no fence, and the marks of a
\* re-run, on whichever ledger they land, are never looked at.
Emit == /\ emitted' = [emitted EXCEPT ![req][pos] = @ + 1]
        /\ ledger' = IF mode[req] = "auto" /\ phase # "interp" /\ Word \notin Unfenced
                     THEN [ledger EXCEPT ![LedgerOf(req)] = @ + 1]
                     ELSE ledger
NoEffect == UNCHANGED <<emitted, ledger>>

\* The bindings after one word, executed at position i of request r.
Bind(d, r, i) == IF src[r][i] = "def" THEN Append(d, <<r, i>>)
                 ELSE IF src[r][i] = "undef" THEN Front(d)
                 ELSE d

Ends(o) == /\ phase' = "idle"
           /\ outcome' = [outcome EXCEPT ![req] = o]
           /\ UNCHANGED pos

Enters(p) == /\ phase' = p
             /\ pos' = 1
             /\ UNCHANGED outcome

\* RestoreForCompile: bindings and modules as they were.
RestoreForCompile == defs' = snap.defs /\ loaded' = snap.loaded

-----------------------------------------------------------------------------
\* RunAutoValues, RunCompiledStrict: the snapshot and, in the former, a
\* fresh ledger.
Begin == /\ phase = "idle"
         /\ req < MaxRequest
         /\ req' = req + 1
         /\ snap' = [defs |-> defs, loaded |-> loaded]
         /\ effectsAt' = ledger[LedgerOf(req + 1)]
         /\ Enters("check")
         /\ UNCHANGED <<src, mode, regVars, ledger, tasks, emitted>>

\* CompileCheck, one word: definitions are installed and imports executed.
CheckStep ==
    /\ phase = "check" /\ ~AtEnd
    /\ defs' = Bind(defs, req, pos)
    /\ IF Word \in Imports \ loaded THEN Emit /\ loaded' = loaded \cup {Word}
                                   ELSE NoEffect /\ UNCHANGED loaded
    /\ pos' = pos + 1
    /\ UNCHANGED <<src, mode, req, phase, snap, effectsAt, tasks, outcome>>

\* Mutant: compile_refused is returned without a look at the ledger.
RefusePerformance_Unfenced ==
    /\ phase = "check" /\ mode[req] = "auto"
    /\ RestoreForCompile
    /\ Enters("refused")
    /\ UNCHANGED <<src, mode, req, snap, ledger, effectsAt, tasks, emitted>>

\* CompileCheck gives no program because it cannot lower it: compile_refused,
\* if no effect escaped.
RefusePerformance ==
    /\ phase = "check" /\ mode[req] = "auto"
    /\ RestoreForCompile
    /\ IF Escaped THEN Ends("blocked") ELSE Enters("refused")
    /\ UNCHANGED <<src, mode, req, snap, ledger, effectsAt, tasks, emitted>>

\* CompileCheck finds the source statically wrong: the interpreter re-runs
\* it to render the result, if no effect escaped.
RefuseStatic ==
    /\ phase = "check" /\ mode[req] = "auto"
    /\ RestoreForCompile
    /\ IF Escaped THEN Ends("blocked") ELSE Enters("interp")
    /\ UNCHANGED <<src, mode, req, snap, ledger, effectsAt, tasks, emitted>>

RefuseStrict ==
    /\ phase = "check" /\ mode[req] = "strict"
    /\ RestoreForCompile
    /\ Ends("strict_error")
    /\ UNCHANGED <<src, mode, req, snap, ledger, effectsAt, tasks, emitted>>

\* Run, the REPL, exec: they re-run a refused source themselves, ...
CallerReruns == /\ phase = "refused"
                /\ Enters("interp")
                /\ UNCHANGED <<src, mode, req, regVars, snap, ledger, effectsAt, tasks, emitted>>

\* ... while the callers of RunCompiled get the error.
CallerGivesUp == /\ phase = "refused"
                 /\ Ends("refused")
                 /\ UNCHANGED <<src, mode, req, regVars, snap, ledger, effectsAt, tasks, emitted>>

\* Mutant: the run starts on top of the definitions of the check pass.
RunProgram_KeepsInstalls ==
    /\ phase = "check" /\ AtEnd
    /\ Enters("run")
    /\ UNCHANGED <<src, mode, req, regVars, snap, ledger, effectsAt, tasks, emitted>>

\* RunProgram rolls the bindings back to where they were before the check
\* pass (ReplayBase), and not the module ledger: imports do not run again.
RunProgram ==
    /\ phase = "check" /\ AtEnd
    /\ defs' = snap.defs
    /\ Enters("run")
    /\ UNCHANGED <<src, mode, req, loaded, snap, ledger, effectsAt, tasks, emitted>>

\* A word executed, on the VM or by the interpreter: a detached goroutine
\* starts, or an effect is observed.
Executes(effect) ==
    /\ ~AtEnd
    /\ defs' = Bind(defs, req, pos)
    /\ tasks' = IF Word = "task"
                THEN tasks \cup {[req |-> req, pos |-> pos, run |-> phase, written |-> FALSE]}
                ELSE tasks
    /\ IF effect THEN Emit ELSE NoEffect
    /\ pos' = pos + 1
    /\ UNCHANGED <<src, mode, req, phase, snap, effectsAt, outcome>>

\* The VM: the twin of a definition re-installs it.
RunStep == phase = "run" /\ Executes(Word \in {"print", "send"}) /\ UNCHANGED loaded

InterpStep == /\ phase = "interp"
              /\ Executes(Word \in {"print", "send"} \cup (Imports \ loaded))
              /\ loaded' = loaded \cup ({Word} \cap Imports)

\* Mutant: the runtime-bail arm does not look at the ledger.
RunBails_Unfenced ==
    /\ phase = "run" /\ mode[req] = "auto"
    /\ RestoreForCompile /\ Enters("interp")
    /\ UNCHANGED <<src, mode, req, snap, ledger, effectsAt, tasks, emitted>>

\* RunProgram returns an internal_error, or an error that is not Boru's.
RunBails ==
    /\ phase = "run" /\ mode[req] = "auto"
    /\ IF Escaped THEN Ends("blocked") /\ UNCHANGED regVars
                  ELSE RestoreForCompile /\ Enters("interp")
    /\ UNCHANGED <<src, mode, req, snap, ledger, effectsAt, tasks, emitted>>

\* RunProgram returns an error of the program, or, in the strict mode, any.
RunErrors == /\ phase = "run"
             /\ Ends(IF mode[req] = "strict" THEN "strict_error" ELSE "error")
             /\ UNCHANGED <<src, mode, req, regVars, snap, ledger, effectsAt, tasks, emitted>>

InterpErrors == /\ phase = "interp"
                /\ Ends("error")
                /\ UNCHANGED <<src, mode, req, regVars, snap, ledger, effectsAt, tasks, emitted>>

Returns == /\ phase \in {"run", "interp"} /\ AtEnd
           /\ Ends("ok")
           /\ UNCHANGED <<src, mode, req, regVars, snap, ledger, effectsAt, tasks, emitted>>

\* A detached goroutine prints: the bytes first, the mark after them.
TaskWrites(t) == /\ t \in tasks /\ ~t.written
                 /\ tasks' = (tasks \ {t}) \cup {[t EXCEPT !.written = TRUE]}
                 /\ emitted' = [emitted EXCEPT ![t.req][t.pos] = @ + 1]
                 /\ UNCHANGED <<src, mode, req, phase, pos, regVars, snap, ledger, effectsAt,
                                outcome>>

TaskNotes(t) == /\ t \in tasks /\ t.written
                /\ tasks' = tasks \ {t}
                /\ ledger' = [ledger EXCEPT ![LedgerOf(t.req)] = @ + 1]
                /\ UNCHANGED <<src, mode, req, phase, pos, regVars, snap, effectsAt, emitted,
                               outcome>>

Next == \/ Begin \/ CheckStep \/ RefusePerformance \/ RefuseStatic \/ RefuseStrict
        \/ CallerReruns \/ CallerGivesUp
        \/ RunProgram \/ RunStep \/ RunBails \/ RunErrors
        \/ InterpStep \/ InterpErrors \/ Returns
        \/ \E t \in tasks : TaskWrites(t) \/ TaskNotes(t)

Spec == Init /\ [][Next]_vars

-----------------------------------------------------------------------------
Detached(r, i) == src[r][i] = "task"

\* An effect that marks the ledger before the request's goroutine goes on.
Fenced(r, i) == ~Detached(r, i) /\ src[r][i] \notin Unfenced

\* "a re-run after an effect duplicates it": whichever arm a request takes,
\* and whoever re-runs it, an effect of its own goroutine that marks the
\* ledger is observed once, though effects that mark nothing go with it.
EffectOnce ==
    \A r \in Request : \A i \in 1..Len(src[r]) : Fenced(r, i) => emitted[r][i] <= 1

\* A request is denied its fallback only because of an effect of its own
\* (at least an attempted one):
\* detached work of earlier requests, still printing, does not deny it.
BlockedByOwnEffect ==
    \A r \in Request : outcome[r] = "blocked" => \E i \in 1..Len(src[r]) : emitted[r][i] > 0

\* compile_refused "is a GUARANTEE to the caller: no observable effect
\* escaped", and the registry is as the caller left it. It is one for the
\* effects that mark the ledger: those of imports run by the check pass are.
RefusedIsClean ==
    phase = "refused" => /\ \A i \in 1..Len(Words) :
                               Words[i] \notin Unfenced => emitted[req][i] = 0
                         /\ defs = snap.defs /\ loaded = snap.loaded

\* The bindings after the interpreter has executed the words of request r up
\* to each position, on top of the bindings d.
Interpreted(r, d) ==
    LET after[i \in Nat] == IF i = 0 THEN d ELSE Bind(after[i - 1], r, i)
    IN  after

\* The bindings a request leaves, when it ends with the program's own result
\* or error, are those the interpreter alone would leave: one install per
\* definition reached, though the check pass made all of them before.
BindingsLikeInterpreter ==
    req > 0 /\ phase = "idle" /\ outcome[req] \in {"ok", "error"} =>
        defs = Interpreted(req, snap.defs)[pos - 1]

\* The two promises for every effect.  Neither holds of the code: starting a
\* detached task marks no ledger and the re-run starts it again, a payload
\* sent marks none and is sent again, and compile_refused is returned after
\* an import that sent one (README, Disagreements).
EveryEffectOnce == \A r \in Request : \A i \in 1..Len(src[r]) : emitted[r][i] <= 1
RefusedIsSilent == phase = "refused" => \A i \in 1..Len(Words) : emitted[req][i] = 0
=============================================================================

-------------------------- MODULE CompiledRun_proofs --------------------------
(***************************************************************************)
(* The effect fence of compiled-by-default execution, for any sources, any *)
(* number of requests and any detached work left by earlier ones: no       *)
(* effect of a request's own goroutine that marks the ledger is observed   *)
(* twice, compile_refused is only returned by a request of which none was  *)
(* observed, a fallback is only denied because of an effect of the request *)
(* itself, and the bindings are those the interpreter would have made.     *)
(*                                                                         *)
(* None of these is inductive.  IInv adds what each phase has emitted up   *)
(* to the word it is at (Progress), that an unmarked ledger means that     *)
(* nothing fenced was emitted (Fence) and a marked one that something was  *)
(* (Marks), and where detached goroutines come from (TasksAreOurs).        *)
(* Follows adds, for the bindings, that a run has made those of the words  *)
(* before the one it is at; the recursion that says what the interpreter   *)
(* makes of a source is shown to have the solution it describes.           *)
(***************************************************************************)
EXTENDS CompiledRun, SequenceTheorems, WellFoundedInduction, TLAPS

Positions(r) == 1..Len(src[r])

EmittedType == emitted \in [Request -> Seq(Nat)]
               /\ \A r \in Request : Len(emitted[r]) = Len(src[r])

\* A request being served is one of the requests; the words are counted
\* from one, and every ledger starts at nothing.
Serving == /\ phase # "idle" => req \in Request
           /\ pos >= 1
           /\ effectsAt = 0

\* Detached goroutines were started by a "task" word of a request made, and
\* by the run of it, not by its check pass; one that wrote has been observed.
TasksAreOurs ==
    \A t \in tasks : /\ t.req <= req
                     /\ t.pos \in Positions(t.req)
                     /\ Detached(t.req, t.pos)
                     /\ t.written => emitted[t.req][t.pos] > 0
                     /\ phase \in {"check", "refused"} => t.req # req

\* Requests not made yet have neither effects nor marks.
Untouched ==
    \A r \in Request : r > req => /\ ledger[r] = 0
                                  /\ \A i \in Positions(r) : emitted[r][i] = 0

\* What the request has emitted, network sends apart, when it is at word pos
\* of its phase.
Progress ==
    /\ phase = "check" =>
          \A i \in Positions(req) :
             src[req][i] \notin Unfenced /\ (src[req][i] # "import" \/ i >= pos)
                => emitted[req][i] = 0
    /\ phase = "run" =>
          \A i \in Positions(req) :
             Fenced(req, i) /\ src[req][i] # "import" /\ i >= pos => emitted[req][i] = 0
    /\ phase = "interp" =>
          \A i \in Positions(req) :
             Fenced(req, i) /\ i >= pos => emitted[req][i] = 0
    /\ phase = "refused" =>
          \A i \in Positions(req) : src[req][i] \notin Unfenced => emitted[req][i] = 0

\* As long as a fallback is possible, an unmarked ledger proves that no
\* fenced effect of the request's own goroutine was observed.
Fence ==
    phase \in {"check", "run"} /\ mode[req] = "auto" /\ ledger[req] = 0 =>
        \A i \in Positions(req) : Fenced(req, i) => emitted[req][i] = 0

\* A marked ledger means that its own request was observed.
Marks == \A r \in Request : ledger[r] > 0 => \E i \in Positions(r) : emitted[r][i] > 0

\* compile_refused is returned with the registry of the snapshot.
RefusedRestored == phase = "refused" => defs = snap.defs /\ loaded = snap.loaded

IInv == /\ TypeOK /\ EmittedType /\ Serving /\ TasksAreOurs /\ Untouched /\ Progress
        /\ Fence /\ Marks /\ RefusedRestored /\ EffectOnce /\ BlockedByOwnEffect

-----------------------------------------------------------------------------
\* The length of a source is a number, and its words are numbered up to it.
LEMMA SourceFacts ==
    ASSUME TypeOK, NEW r \in Request
    PROVE  /\ src[r] \in Seq(Vocabulary)
           /\ Len(src[r]) \in Nat
           /\ r \in Nat
BY CompiledRunAssumption DEF TypeOK, Request

\* One word changes the bindings to bindings.
LEMMA BindType ==
    ASSUME NEW r \in Request, NEW i \in Nat, NEW d \in Seq(Request \X Nat)
    PROVE  Bind(d, r, i) \in Seq(Request \X Nat)
<1>1. <<r, i>> \in Request \X Nat
  OBVIOUS
<1>2. Append(d, <<r, i>>) \in Seq(Request \X Nat)
  BY <1>1
<1>3. Front(d) \in Seq(Request \X Nat)
  BY DEF Front
<1> QED
  BY <1>2, <1>3 DEF Bind

\* The records of detached goroutines, and one of them after its write.
Task == [req : Request, pos : Nat, run : {"run", "interp"}, written : BOOLEAN]

\* Starting one makes such a record.
LEMMA TaskRecord ==
    ASSUME NEW r \in Request, NEW i \in Nat, NEW x \in {"run", "interp"}, NEW w \in BOOLEAN
    PROVE  [req |-> r, pos |-> i, run |-> x, written |-> w] \in Task
BY DEF Task

\* Its write changes the flag alone.
LEMMA TaskUpdate ==
    ASSUME NEW t \in Task, NEW w
    PROVE  [t EXCEPT !.written = w]
               = [req |-> t.req, pos |-> t.pos, run |-> t.run, written |-> w]
BY DEF Task

\* An effect of the request's own goroutine: the word at pos is observed once
\* more, and in the mode with a fallback, before the re-run, it is marked if
\* it is a fenced one.
LEMMA EmitFacts ==
    ASSUME IInv, phase # "idle", ~AtEnd, Emit
    PROVE  /\ pos \in Positions(req)
           /\ emitted' \in [Request -> Seq(Nat)]
           /\ \A r \in Request : Len(emitted'[r]) = Len(emitted[r])
           /\ \A r \in Request : \A i \in Positions(r) :
                 emitted'[r][i] = IF r = req /\ i = pos THEN emitted[r][i] + 1
                                                        ELSE emitted[r][i]
           /\ ledger' \in [Request -> Nat]
           /\ \A r \in Request :
                 ledger'[r] = IF r = req /\ mode[req] = "auto" /\ phase # "interp"
                                 /\ Word \notin Unfenced
                              THEN ledger[r] + 1 ELSE ledger[r]
<1>1. req \in Request /\ pos \in Nat /\ pos >= 1
  BY DEF IInv, Serving, TypeOK
<1>2. pos \in Positions(req)
  BY <1>1, SourceFacts DEF IInv, AtEnd, Words, Positions
<1>3. /\ emitted[req] \in Seq(Nat) /\ Len(emitted[req]) = Len(src[req])
      /\ emitted \in [Request -> Seq(Nat)]
      /\ \A r \in Request : Len(emitted[r]) = Len(src[r])
  BY <1>1 DEF IInv, EmittedType
<1>4. emitted' = [emitted EXCEPT ![req] = [emitted[req] EXCEPT ![pos] = @ + 1]]
  BY DEF Emit
<1>5. /\ [emitted[req] EXCEPT ![pos] = @ + 1] \in Seq(Nat)
      /\ Len([emitted[req] EXCEPT ![pos] = @ + 1]) = Len(emitted[req])
      /\ \A i \in Positions(req) : [emitted[req] EXCEPT ![pos] = @ + 1][i]
            = IF i = pos THEN emitted[req][i] + 1 ELSE emitted[req][i]
  BY <1>2, <1>3 DEF Positions
<1>6. /\ ledger' \in [Request -> Nat]
      /\ \A r \in Request :
                 ledger'[r] = IF r = req /\ mode[req] = "auto" /\ phase # "interp"
                                 /\ Word \notin Unfenced
                              THEN ledger[r] + 1 ELSE ledger[r]
  BY <1>1 DEF Emit, LedgerOf, IInv, TypeOK
<1>7. emitted' \in [Request -> Seq(Nat)]
  BY <1>1, <1>3, <1>4, <1>5
<1>8. \A r \in Request : Len(emitted'[r]) = Len(emitted[r])
  BY <1>1, <1>3, <1>4, <1>5
<1>9. ASSUME NEW r \in Request, NEW i \in Positions(r)
      PROVE  emitted'[r][i] = IF r = req /\ i = pos THEN emitted[r][i] + 1
                                                    ELSE emitted[r][i]
  BY <1>1, <1>3, <1>4, <1>5, <1>9
<1> QED
  BY <1>2, <1>6, <1>7, <1>8, <1>9

\* No request has been made.
LEMMA InitInv == Init => IInv
<1> SUFFICES ASSUME Init PROVE IInv
  OBVIOUS
<1>1. \A r \in Request : src[r] \in Seq(Vocabulary)
  BY CompiledRunAssumption DEF Init
<1>2. \A r \in Request : Len(src[r]) \in Nat
  BY <1>1
<1>3. \A r \in Request : [i \in 1..Len(src[r]) |-> 0] \in Seq(Nat) /\ Len([i \in 1..Len(src[r]) |-> 0]) = Len(src[r])
  BY <1>2
<1>4. EmittedType
  BY <1>3 DEF Init, EmittedType
<1>5. TypeOK
  <2>1. defs \in Seq(Request \X Nat) /\ snap \in [defs : Seq(Request \X Nat), loaded : SUBSET Imports]
    BY DEF Init
  <2>2. req \in 0..MaxRequest /\ pos \in Nat
    BY CompiledRunAssumption DEF Init
  <2> QED
    BY <1>4, <2>1, <2>2 DEF Init, TypeOK, EmittedType, Outcomes
<1>6. Untouched /\ EffectOnce
  BY <1>2 DEF Init, Untouched, EffectOnce, Positions
<1> QED
  BY <1>4, <1>5, <1>6
     DEF Init, IInv, Serving, TasksAreOurs, Progress, Fence, Marks, RefusedRestored,
         BlockedByOwnEffect, Request

-----------------------------------------------------------------------------
\* The steps of a request that touch neither ledger, history nor detached
\* goroutines: it changes its phase, or ends.
Turns ==
    /\ phase # "idle"
    /\ UNCHANGED <<src, mode, req, snap, ledger, effectsAt, tasks, emitted>>
    /\ pos' \in {pos, 1}
    /\ \/ /\ phase' = "idle"
          /\ \E o \in Outcomes \ {"blocked"} : outcome' = [outcome EXCEPT ![req] = o]
       \/ /\ phase' = "idle"
          /\ Escaped
          /\ outcome' = [outcome EXCEPT ![req] = "blocked"]
       \/ /\ outcome' = outcome /\ pos' = 1
          /\ \/ /\ phase = "check" /\ mode[req] = "auto" /\ ~Escaped
                /\ phase' = "refused" /\ RestoreForCompile
             \/ /\ phase \in {"check", "run"} /\ mode[req] = "auto" /\ ~Escaped
                /\ phase' = "interp"
             \/ phase = "refused" /\ phase' = "interp"
             \/ phase = "check" /\ phase' = "run"
    /\ \/ UNCHANGED regVars
       \/ RestoreForCompile
       \/ defs' = snap.defs /\ UNCHANGED loaded

\* Which actions are such turns.
LEMMA TurnActions ==
    ASSUME IInv,
           \/ RefusePerformance \/ RefuseStatic \/ RefuseStrict \/ CallerReruns
           \/ CallerGivesUp \/ RunProgram \/ RunBails \/ RunErrors \/ InterpErrors \/ Returns
    PROVE  Turns
<1>1. CASE RefusePerformance
  BY <1>1 DEF RefusePerformance, Turns, Ends, Enters, Outcomes
<1>2. CASE RefuseStatic
  BY <1>2 DEF RefuseStatic, Turns, Ends, Enters, Outcomes
<1>3. CASE RefuseStrict
  BY <1>3 DEF RefuseStrict, Turns, Ends, Enters, Outcomes
<1>4. CASE CallerReruns
  BY <1>4 DEF CallerReruns, Turns, Ends, Enters, Outcomes
<1>5. CASE CallerGivesUp
  BY <1>5 DEF CallerGivesUp, Turns, Ends, Enters, Outcomes
<1>6. CASE RunProgram
  BY <1>6 DEF RunProgram, Turns, Ends, Enters, Outcomes
<1>7. CASE RunBails
  BY <1>7 DEF RunBails, Turns, Ends, Enters, Outcomes
<1>8. CASE RunErrors
  <2>1. PICK o \in {"strict_error", "error"} :
            phase' = "idle" /\ outcome' = [outcome EXCEPT ![req] = o] /\ UNCHANGED pos
    BY <1>8, Zenon DEF RunErrors, Ends
  <2> QED
    BY <1>8, <2>1 DEF RunErrors, Turns, Outcomes
<1>9. CASE InterpErrors
  BY <1>9 DEF InterpErrors, Turns, Ends, Enters, Outcomes
<1>10. CASE Returns
  BY <1>10 DEF Returns, Turns, Ends, Enters, Outcomes
<1> QED
  BY <1>1, <1>2, <1>3, <1>4, <1>5, <1>6, <1>7, <1>8, <1>9, <1>10

\* A turn keeps the invariant: it enters a re-run only past the fence, with
\* an unmarked ledger, and is blocked only by a marked one.
LEMMA TurnsInv == ASSUME IInv, Turns PROVE IInv'
<1>1. req \in Request
  BY DEF IInv, Serving, Turns
<1>2. TypeOK'
  <2>1. defs' \in Seq(Request \X Nat) /\ loaded' \subseteq Imports
    BY DEF IInv, TypeOK, Turns, regVars, RestoreForCompile
  <2>2. outcome' \in [Request -> Outcomes]
    BY <1>1 DEF IInv, TypeOK, Turns, Outcomes
  <2>3. pos' \in Nat /\ phase' \in {"idle", "check", "run", "interp", "refused"}
    BY DEF IInv, TypeOK, Turns
  <2> QED
    BY <2>1, <2>2, <2>3 DEF IInv, TypeOK, Turns
<1>3. EmittedType' /\ Untouched' /\ Marks' /\ EffectOnce'
  BY DEF IInv, EmittedType, Untouched, Marks, EffectOnce, Turns, Positions, Fenced, Detached
<1>4. Serving'
  BY <1>1 DEF IInv, Serving, Turns, TypeOK
<1>5. ~Escaped => ledger[req] = 0
  BY <1>1 DEF IInv, Serving, Escaped, LedgerOf
<1>6. Escaped => ledger[req] > 0
  BY <1>1 DEF IInv, Serving, Escaped, LedgerOf, TypeOK
<1>7. TasksAreOurs'
  BY DEF IInv, TasksAreOurs, Turns, Positions, Detached
<1>8. Progress'
  <2>1. CASE phase' = "idle"
    BY <2>1 DEF Progress
  <2>2. CASE phase = "check" /\ mode[req] = "auto" /\ ~Escaped /\ phase' = "refused"
    BY <1>5, <2>2 DEF IInv, Progress, Fence, Turns, Positions, Fenced, Detached, Unfenced
  <2>3. CASE phase \in {"check", "run"} /\ mode[req] = "auto" /\ ~Escaped /\ phase' = "interp"
    BY <1>5, <2>3 DEF IInv, Progress, Fence, Turns, Positions, Fenced, Detached, Unfenced
  <2>4. CASE phase = "refused" /\ phase' = "interp"
    BY <2>4 DEF IInv, Progress, Turns, Positions, Fenced, Detached, Unfenced
  <2>5. CASE phase = "check" /\ phase' = "run"
    BY <2>5 DEF IInv, Progress, Turns, Positions, Fenced, Detached, Unfenced
  <2> QED
    BY <2>1, <2>2, <2>3, <2>4, <2>5 DEF Turns
<1>9. Fence'
  BY DEF IInv, Fence, Turns, Positions, Fenced, Detached
<1>10. RefusedRestored'
  BY DEF IInv, RefusedRestored, Turns, RestoreForCompile
<1>11. BlockedByOwnEffect'
  <2>1. CASE Escaped /\ outcome' = [outcome EXCEPT ![req] = "blocked"]
    BY <1>1, <1>6, <2>1 DEF IInv, BlockedByOwnEffect, Marks, Turns, TypeOK, Positions
  <2>2. CASE \E o \in Outcomes \ {"blocked"} : outcome' = [outcome EXCEPT ![req] = o]
    BY <1>1, <2>2 DEF IInv, BlockedByOwnEffect, Turns, TypeOK
  <2>3. CASE outcome' = outcome
    BY <2>3 DEF IInv, BlockedByOwnEffect, Turns
  <2> QED
    BY <2>1, <2>2, <2>3 DEF Turns
<1> QED
  BY <1>2, <1>3, <1>4, <1>7, <1>8, <1>9, <1>10, <1>11 DEF IInv

-----------------------------------------------------------------------------
\* A word of the request is checked or executed.  Only an import is observed
\* in the check pass, and only a print or a send on the VM.
WordStep ==
    /\ phase \in {"check", "run", "interp"} /\ ~AtEnd
    /\ pos' = pos + 1
    /\ UNCHANGED <<src, mode, req, phase, snap, effectsAt, outcome>>
    /\ defs' = Bind(defs, req, pos) /\ loaded' \subseteq Imports
    /\ \/ NoEffect
       \/ Emit /\ phase = "check" /\ Word \in Imports
       \/ Emit /\ phase = "run" /\ Word \in {"print", "send"}
       \/ Emit /\ phase = "interp" /\ Word \in {"print", "send"} \cup Imports
    /\ \/ tasks' = tasks
       \/ /\ phase \in {"run", "interp"} /\ Word = "task"
          /\ tasks' = tasks \cup {[req |-> req, pos |-> pos, run |-> phase, written |-> FALSE]}

\* Which actions are such steps.
LEMMA WordActions ==
    ASSUME IInv, CheckStep \/ RunStep \/ InterpStep
    PROVE  WordStep
<1>1. CASE CheckStep
  BY <1>1 DEF CheckStep, WordStep, IInv, TypeOK
<1>2. CASE RunStep
  BY <1>2 DEF RunStep, Executes, WordStep, IInv, TypeOK
<1>3. CASE InterpStep
  <2>1. loaded' \subseteq Imports
    BY <1>3 DEF InterpStep, IInv, TypeOK
  <2> QED
    BY <1>3, <2>1 DEF InterpStep, Executes, WordStep
<1> QED
  BY <1>1, <1>2, <1>3

\* The word at pos may be observed now: if it is a fenced one, it was not
\* observed before.
Observable == /\ ~Detached(req, pos)
              /\ Fenced(req, pos) => emitted[req][pos] = 0
              /\ phase = "check" => Word \in Imports
              /\ phase = "run" => Word \in {"print", "send"}

\* It keeps the invariant: what it observes had not been observed before,
\* since the passes before it observed other words or nothing.
LEMMA WordStepInv == ASSUME IInv, WordStep PROVE IInv'
<1>1. req \in Request /\ pos \in Nat /\ pos >= 1 /\ pos \in Positions(req)
  BY SourceFacts DEF IInv, Serving, TypeOK, WordStep, AtEnd, Words, Positions
<1>2. /\ UNCHANGED <<src, mode, req, phase, snap, effectsAt, outcome>>
      /\ pos' = pos + 1
      /\ phase # "idle"
  BY DEF WordStep
<1>3. \/ UNCHANGED <<emitted, ledger>>
      \/ Emit /\ Observable
  BY <1>1 DEF WordStep, IInv, Progress, Fenced, Detached, Word, Words, NoEffect, Observable,
              Imports, Unfenced
<1>4. emitted' \in [Request -> Seq(Nat)] /\ ledger' \in [Request -> Nat]
  BY <1>2, <1>3, EmitFacts DEF WordStep, IInv, TypeOK
<1>5. EmittedType'
  BY <1>2, <1>3, <1>4, EmitFacts DEF WordStep, IInv, EmittedType
<1>6. \A r \in Request : \A i \in Positions(r) :
         /\ emitted[r][i] \in Nat
         /\ \/ emitted'[r][i] = emitted[r][i]
            \/ /\ r = req /\ i = pos /\ emitted'[r][i] = emitted[r][i] + 1
               /\ Observable
  <2> SUFFICES ASSUME NEW r \in Request, NEW i \in Positions(r)
               PROVE  /\ emitted[r][i] \in Nat
                      /\ \/ emitted'[r][i] = emitted[r][i]
                         \/ /\ r = req /\ i = pos /\ emitted'[r][i] = emitted[r][i] + 1
                            /\ Observable
    OBVIOUS
  <2>1. emitted[r][i] \in Nat
    BY DEF IInv, EmittedType, Positions
  <2>2. CASE UNCHANGED <<emitted, ledger>>
    BY <2>1, <2>2
  <2>3. CASE Emit /\ Observable
    <3>1. emitted'[r][i] = IF r = req /\ i = pos THEN emitted[r][i] + 1 ELSE emitted[r][i]
      BY <1>2, <2>3, EmitFacts DEF WordStep
    <3> QED
      BY <2>1, <2>3, <3>1
  <2> QED
    BY <1>3, <2>2, <2>3
<1>7. \A r \in Request :
         \/ ledger'[r] = ledger[r]
         \/ /\ r = req /\ ledger'[r] = ledger[r] + 1
            /\ emitted'[req][pos] > 0
  <2> SUFFICES ASSUME NEW r \in Request, ledger'[r] # ledger[r]
               PROVE  r = req /\ ledger'[r] = ledger[r] + 1 /\ emitted'[req][pos] > 0
    OBVIOUS
  <2>1. Emit
    BY <1>3
  <2>2. emitted[req][pos] \in Nat
    BY <1>1, <1>6
  <2>3. emitted'[req][pos] = emitted[req][pos] + 1
    BY <1>1, <1>2, <2>1, EmitFacts DEF WordStep
  <2> QED
    BY <1>1, <1>2, <2>1, <2>2, <2>3, EmitFacts DEF WordStep
<1>8. \/ emitted' = emitted
      \/ ~Fenced(req, pos)
      \/ mode[req] = "auto" /\ phase \in {"check", "run"} => ledger'[req] = ledger[req] + 1
  BY <1>1, <1>2, <1>3, EmitFacts DEF WordStep, Fenced, Word, Words
<1>10. TypeOK'
  <2>1. defs' \in Seq(Request \X Nat)
    BY <1>1, BindType DEF WordStep, IInv, TypeOK
  <2>2. tasks' \subseteq Task
    <3>1. tasks \subseteq Task
      BY DEF IInv, TypeOK, Task
    <3>2. phase \in {"run", "interp"} =>
             [req |-> req, pos |-> pos, run |-> phase, written |-> FALSE] \in Task
      BY <1>1, TaskRecord
    <3> QED
      BY <3>1, <3>2 DEF WordStep
  <2>3. pos' \in Nat /\ loaded' \subseteq Imports
    BY <1>1, <1>2 DEF WordStep
  <2> QED
    BY <1>2, <1>4, <2>1, <2>2, <2>3 DEF IInv, TypeOK, Task
<1>11. Serving' /\ RefusedRestored' /\ BlockedByOwnEffect'
  <2>1. Serving'
    BY <1>1, <1>2 DEF IInv, Serving
  <2>2. RefusedRestored'
    BY <1>2 DEF WordStep, RefusedRestored
  <2>3. BlockedByOwnEffect'
    BY <1>2, <1>6 DEF IInv, BlockedByOwnEffect, Positions
  <2> QED
    BY <2>1, <2>2, <2>3
<1>12. TasksAreOurs'
  <2> SUFFICES ASSUME NEW t \in tasks'
               PROVE  /\ t.req <= req
                      /\ t.pos \in Positions(t.req)
                      /\ Detached(t.req, t.pos)
                      /\ t.written => emitted'[t.req][t.pos] > 0
                      /\ phase \in {"check", "refused"} => t.req # req
    BY <1>2 DEF TasksAreOurs, Positions, Detached
  <2>1. CASE t \in tasks
    <3>1. t.req \in Request
      BY <2>1 DEF IInv, TypeOK
    <3> QED
      BY <1>6, <2>1, <3>1 DEF IInv, TasksAreOurs
  <2>2. CASE t = [req |-> req, pos |-> pos, run |-> phase, written |-> FALSE]
             /\ phase \in {"run", "interp"} /\ Word = "task"
    BY <1>1, <2>2 DEF Detached, Word, Words, Request
  <2> QED
    BY <2>1, <2>2 DEF WordStep
<1>13. Untouched'
  <2> SUFFICES ASSUME NEW r \in Request, r > req
               PROVE  ledger'[r] = 0 /\ \A i \in Positions(r) : emitted'[r][i] = 0
    BY <1>2 DEF Untouched, Positions
  <2>1. r # req
    BY <1>1 DEF Request
  <2> QED
    BY <1>6, <1>7, <2>1 DEF IInv, Untouched
<1>14. Progress'
  <2> SUFFICES ASSUME NEW i \in Positions(req)
               PROVE  /\ phase = "check" /\ src[req][i] \notin Unfenced
                            /\ (src[req][i] # "import" \/ i >= pos + 1)
                            => emitted'[req][i] = 0
                      /\ phase = "run" /\ Fenced(req, i) /\ src[req][i] # "import"
                            /\ i >= pos + 1 => emitted'[req][i] = 0
                      /\ phase = "interp" /\ Fenced(req, i) /\ i >= pos + 1
                            => emitted'[req][i] = 0
    BY <1>1, <1>2, Zenon DEF Progress, Positions, Fenced, Detached, WordStep
  <2>1. i \in Nat
    BY <1>1, SourceFacts DEF IInv, Positions
  <2>2. i >= pos + 1 => i >= pos /\ i # pos
    BY <1>1, <2>1
  <2> QED
    BY <1>1, <1>6, <2>2 DEF IInv, Progress, Word, Words, Observable, Imports, Unfenced
<1>15. Fence'
  <2> SUFFICES ASSUME phase \in {"check", "run"}, mode[req] = "auto", ledger'[req] = 0,
                      NEW i \in Positions(req), Fenced(req, i)
               PROVE  emitted'[req][i] = 0
    BY <1>2 DEF Fence, Positions, Fenced, Detached
  <2>1. ledger[req] \in Nat
    BY <1>1 DEF IInv, TypeOK
  <2>2. (emitted' = emitted \/ ~Fenced(req, pos)) /\ ledger[req] = 0
    BY <1>1, <1>7, <1>8, <2>1
  <2>3. emitted'[req][i] = emitted[req][i]
    BY <1>1, <1>6, <2>2
  <2> QED
    BY <2>2, <2>3 DEF IInv, Fence
<1>16. Marks'
  <2> SUFFICES ASSUME NEW r \in Request, ledger'[r] > 0
               PROVE  \E i \in Positions(r) : emitted'[r][i] > 0
    BY <1>2 DEF Marks, Positions
  <2>1. CASE r = req /\ emitted'[req][pos] > 0
    BY <1>1, <2>1
  <2>2. CASE ledger'[r] = ledger[r]
    BY <1>6, <2>2 DEF IInv, Marks
  <2> QED
    BY <1>7, <2>1, <2>2
<1>17. EffectOnce'
  BY <1>2, <1>6 DEF IInv, EffectOnce, Positions, Fenced, Detached, Observable
<1> QED
  BY <1>5, <1>10, <1>11, <1>12, <1>13, <1>14, <1>15, <1>16, <1>17 DEF IInv

-----------------------------------------------------------------------------
\* A new request finds its ledger unmarked and nothing of it observed.
LEMMA BeginInv == ASSUME IInv, Begin PROVE IInv'
<1>1. /\ req \in Nat /\ req + 1 \in Request /\ req' = req + 1
      /\ phase' = "check" /\ pos' = 1
      /\ UNCHANGED <<src, mode, regVars, ledger, tasks, emitted, outcome>>
  BY CompiledRunAssumption DEF Begin, Enters, IInv, TypeOK, Request
<1>2. ledger[req + 1] = 0 /\ \A i \in Positions(req + 1) : emitted[req + 1][i] = 0
  BY <1>1 DEF IInv, Untouched
<1>3. effectsAt' = 0
  BY <1>1, <1>2 DEF Begin, LedgerOf
<1>4. TypeOK'
  <2>1. snap' \in [defs : Seq(Request \X Nat), loaded : SUBSET Imports]
    BY DEF Begin, IInv, TypeOK
  <2>2. req' \in 0..MaxRequest
    BY <1>1, CompiledRunAssumption DEF Request
  <2> QED
    BY <1>1, <1>3, <2>1, <2>2 DEF IInv, TypeOK, regVars
<1>5. EmittedType' /\ Marks' /\ EffectOnce' /\ BlockedByOwnEffect'
  BY <1>1 DEF IInv, EmittedType, Marks, EffectOnce, BlockedByOwnEffect, Positions, Fenced, Detached
<1>6. Serving' /\ RefusedRestored'
  BY <1>1, <1>3 DEF Serving, RefusedRestored
<1>7. TasksAreOurs'
  <2> SUFFICES ASSUME NEW t \in tasks
               PROVE  /\ t.req <= req + 1
                      /\ t.pos \in Positions(t.req)
                      /\ Detached(t.req, t.pos)
                      /\ t.written => emitted[t.req][t.pos] > 0
                      /\ t.req # req + 1
    BY <1>1 DEF TasksAreOurs, Positions, Detached
  <2>1. t.req \in Nat
    BY DEF IInv, TypeOK, Request
  <2>2. t.req <= req
    BY DEF IInv, TasksAreOurs
  <2> QED
    BY <1>1, <2>1, <2>2 DEF IInv, TasksAreOurs
<1>8. Untouched'
  <2> SUFFICES ASSUME NEW r \in Request, r > req + 1
               PROVE  ledger[r] = 0 /\ \A i \in Positions(r) : emitted[r][i] = 0
    BY <1>1 DEF Untouched, Positions
  <2>1. r > req
    BY <1>1 DEF Request
  <2> QED
    BY <2>1 DEF IInv, Untouched
<1>9. Progress' /\ Fence'
  BY <1>1, <1>2 DEF Progress, Fence, Positions
<1> QED
  BY <1>4, <1>5, <1>6, <1>7, <1>8, <1>9 DEF IInv

\* A detached goroutine writes: what it is observed by is a "task" word.
LEMMA TaskWritesInv == ASSUME IInv, NEW t \in tasks, TaskWrites(t) PROVE IInv'
<1>1. UNCHANGED <<src, mode, req, phase, pos, regVars, snap, ledger, effectsAt, outcome>>
  BY DEF TaskWrites
<1>2. /\ t.req \in Request /\ t.pos \in Nat /\ t.pos \in Positions(t.req)
      /\ t.req <= req /\ Detached(t.req, t.pos)
      /\ t \in Task /\ t.run \in {"run", "interp"}
  BY DEF IInv, TypeOK, TasksAreOurs, Task
<1>3. PICK r : r = t.req
  OBVIOUS
<1>4. PICK k : k = t.pos
  OBVIOUS
<1>5. r \in Request /\ k \in Positions(r) /\ r <= req /\ Detached(r, k)
  BY <1>2, <1>3, <1>4
<1>6. /\ emitted[r] \in Seq(Nat) /\ Len(emitted[r]) = Len(src[r])
      /\ emitted \in [Request -> Seq(Nat)]
      /\ \A q \in Request : Len(emitted[q]) = Len(src[q])
  BY <1>5 DEF IInv, EmittedType
<1>7. emitted' = [emitted EXCEPT ![r] = [emitted[r] EXCEPT ![k] = @ + 1]]
  BY <1>3, <1>4 DEF TaskWrites
<1>8. /\ [emitted[r] EXCEPT ![k] = @ + 1] \in Seq(Nat)
      /\ Len([emitted[r] EXCEPT ![k] = @ + 1]) = Len(emitted[r])
      /\ \A i \in Positions(r) : [emitted[r] EXCEPT ![k] = @ + 1][i]
            = IF i = k THEN emitted[r][i] + 1 ELSE emitted[r][i]
  BY <1>5, <1>6 DEF Positions
<1>9. EmittedType'
  BY <1>1, <1>5, <1>6, <1>7, <1>8 DEF EmittedType
<1>10. \A q \in Request : \A i \in Positions(q) :
          /\ emitted[q][i] \in Nat
          /\ emitted'[q][i] = IF q = r /\ i = k THEN emitted[q][i] + 1 ELSE emitted[q][i]
  <2>1. \A q \in Request : \A i \in Positions(q) : emitted[q][i] \in Nat
    BY <1>6 DEF Positions
  <2> QED
    BY <1>5, <1>6, <1>7, <1>8, <2>1
<1>11. \A q \in Request : \A i \in Positions(q) :
          /\ ~Detached(q, i) => emitted'[q][i] = emitted[q][i]
          /\ emitted[q][i] > 0 => emitted'[q][i] > 0
          /\ q # r => emitted'[q][i] = emitted[q][i]
  BY <1>5, <1>10
<1>12. [t EXCEPT !.written = TRUE] = [req |-> r, pos |-> k, run |-> t.run, written |-> TRUE]
  BY <1>2, <1>3, <1>4, TaskUpdate
<1>13. tasks' = (tasks \ {t}) \cup {[req |-> r, pos |-> k, run |-> t.run, written |-> TRUE]}
  BY <1>12 DEF TaskWrites
<1>14. TypeOK'
  <2>1. [req |-> r, pos |-> k, run |-> t.run, written |-> TRUE] \in Task
    BY <1>2, <1>3, <1>4, TaskRecord
  <2>2. tasks \subseteq Task
    BY DEF IInv, TypeOK, Task
  <2>3. tasks' \subseteq Task
    BY <1>13, <2>1, <2>2
  <2> QED
    BY <1>1, <1>9, <2>3 DEF IInv, TypeOK, EmittedType, regVars, Task
<1>15. phase \in {"check", "refused"} => r # req
  BY <1>3 DEF IInv, TasksAreOurs
<1>16. TasksAreOurs'
  <2> SUFFICES ASSUME NEW u \in tasks'
               PROVE  /\ u.req <= req
                      /\ u.pos \in Positions(u.req)
                      /\ Detached(u.req, u.pos)
                      /\ u.written => emitted'[u.req][u.pos] > 0
                      /\ phase \in {"check", "refused"} => u.req # req
    BY <1>1 DEF TasksAreOurs, Positions, Detached
  <2>1. CASE u \in tasks
    <3>1. u.req \in Request
      BY <2>1 DEF IInv, TypeOK
    <3> QED
      BY <1>11, <2>1, <3>1 DEF IInv, TasksAreOurs
  <2>2. CASE u = [req |-> r, pos |-> k, run |-> t.run, written |-> TRUE]
    <3>1. emitted'[r][k] = emitted[r][k] + 1 /\ emitted[r][k] \in Nat
      BY <1>5, <1>10
    <3> QED
      BY <1>5, <1>15, <2>2, <3>1
  <2> QED
    BY <1>13, <2>1, <2>2
<1>17. Serving' /\ RefusedRestored' /\ BlockedByOwnEffect' /\ Marks' /\ EffectOnce'
  <2>1. Serving' /\ RefusedRestored'
    BY <1>1 DEF IInv, Serving, RefusedRestored, regVars
  <2>2. BlockedByOwnEffect' /\ Marks'
    BY <1>1, <1>11 DEF IInv, BlockedByOwnEffect, Marks, Positions
  <2>3. EffectOnce'
    BY <1>1, <1>11 DEF IInv, EffectOnce, Positions, Fenced, Detached
  <2> QED
    BY <2>1, <2>2, <2>3
<1>18. Untouched'
  <2> SUFFICES ASSUME NEW q \in Request, q > req
               PROVE  ledger[q] = 0 /\ \A i \in Positions(q) : emitted'[q][i] = 0
    BY <1>1 DEF Untouched, Positions
  <2>1. q # r
    BY <1>5 DEF Request, IInv, TypeOK
  <2> QED
    BY <1>11, <2>1 DEF IInv, Untouched
<1>19. phase # "idle" => req \in Request
  BY DEF IInv, Serving
<1>20. Progress'
  <2> SUFFICES ASSUME phase # "idle", NEW i \in Positions(req)
               PROVE  /\ phase = "check" /\ src[req][i] \notin Unfenced
                            /\ (src[req][i] # "import" \/ i >= pos)
                            => emitted'[req][i] = 0
                      /\ phase = "run" /\ Fenced(req, i) /\ src[req][i] # "import"
                            /\ i >= pos => emitted'[req][i] = 0
                      /\ phase = "interp" /\ Fenced(req, i) /\ i >= pos
                            => emitted'[req][i] = 0
                      /\ phase = "refused" /\ src[req][i] \notin Unfenced
                            => emitted'[req][i] = 0
    BY <1>1, Zenon DEF Progress, Positions, Fenced, Detached
  <2> QED
    BY <1>11, <1>15, <1>19 DEF IInv, Progress, Fenced
<1>21. Fence'
  BY <1>1, <1>11, <1>19 DEF IInv, Fence, Positions, Fenced, Detached
<1> QED
  BY <1>9, <1>14, <1>16, <1>17, <1>18, <1>20, <1>21 DEF IInv

\* Its mark comes after the bytes, and lands on its own request's ledger.
LEMMA TaskNotesInv == ASSUME IInv, NEW t \in tasks, TaskNotes(t) PROVE IInv'
<1>1. UNCHANGED <<src, mode, req, phase, pos, regVars, snap, effectsAt, emitted, outcome>>
  BY DEF TaskNotes
<1>2. /\ t.req \in Request /\ t.req \in Nat /\ t.pos \in Positions(t.req)
      /\ t.req <= req /\ emitted[t.req][t.pos] > 0
  BY DEF IInv, TypeOK, TasksAreOurs, TaskNotes, Request
<1>3. /\ ledger' \in [Request -> Nat]
      /\ \A r \in Request : ledger'[r] = IF r = t.req THEN ledger[r] + 1 ELSE ledger[r]
      /\ \A r \in Request : ledger[r] \in Nat
  BY <1>2 DEF TaskNotes, LedgerOf, IInv, TypeOK
<1>4. TypeOK'
  BY <1>1, <1>3 DEF IInv, TypeOK, TaskNotes, regVars
<1>5. EmittedType' /\ Serving' /\ Progress' /\ RefusedRestored' /\ EffectOnce' /\ BlockedByOwnEffect'
  BY <1>1 DEF IInv, EmittedType, Serving, Progress, RefusedRestored, EffectOnce,
              BlockedByOwnEffect, Positions, Fenced, Detached, regVars
<1>6. TasksAreOurs'
  BY <1>1 DEF IInv, TasksAreOurs, TaskNotes, Positions, Detached
<1>7. Untouched'
  <2> SUFFICES ASSUME NEW r \in Request, r > req
               PROVE  ledger'[r] = 0 /\ \A i \in Positions(r) : emitted[r][i] = 0
    BY <1>1 DEF Untouched, Positions
  <2>1. r # t.req
    BY <1>2 DEF Request, IInv, TypeOK
  <2> QED
    BY <1>3, <2>1 DEF IInv, Untouched
<1>8. Fence'
  <2> SUFFICES ASSUME phase \in {"check", "run"}, mode[req] = "auto", ledger'[req] = 0,
                      NEW i \in Positions(req), Fenced(req, i)
               PROVE  emitted[req][i] = 0
    BY <1>1 DEF Fence, Positions, Fenced, Detached
  <2>1. req \in Request
    BY DEF IInv, Serving
  <2>2. ledger[req] = 0
    BY <1>3, <2>1
  <2> QED
    BY <2>2 DEF IInv, Fence
<1>9. Marks'
  <2> SUFFICES ASSUME NEW r \in Request, ledger'[r] > 0
               PROVE  \E i \in Positions(r) : emitted[r][i] > 0
    BY <1>1 DEF Marks, Positions
  <2> QED
    BY <1>2, <1>3 DEF IInv, Marks
<1> QED
  BY <1>4, <1>5, <1>6, <1>7, <1>8, <1>9 DEF IInv

\* Every step keeps the invariant.
LEMMA NextInv == IInv /\ [Next]_vars => IInv'
<1> SUFFICES ASSUME IInv, [Next]_vars PROVE IInv'
  OBVIOUS
<1>1. CASE Begin
  BY <1>1, BeginInv
<1>2. CASE CheckStep \/ RunStep \/ InterpStep
  BY <1>2, WordActions, WordStepInv
<1>3. CASE \/ RefusePerformance \/ RefuseStatic \/ RefuseStrict \/ CallerReruns
           \/ CallerGivesUp \/ RunProgram \/ RunBails \/ RunErrors \/ InterpErrors \/ Returns
  BY <1>3, TurnActions, TurnsInv
<1>4. ASSUME NEW t \in tasks, TaskWrites(t) PROVE IInv'
  BY <1>4, TaskWritesInv
<1>5. ASSUME NEW t \in tasks, TaskNotes(t) PROVE IInv'
  BY <1>5, TaskNotesInv
<1>6. CASE UNCHANGED vars
  BY <1>6 DEF vars, regVars, IInv, TypeOK, EmittedType, Serving, TasksAreOurs, Untouched,
              Progress, Fence, Marks, RefusedRestored, EffectOnce, BlockedByOwnEffect,
              Positions, Fenced, Detached
<1> QED
  BY <1>1, <1>2, <1>3, <1>4, <1>5, <1>6 DEF Next

\* Whichever arm a request takes, whoever re-runs it and whatever detached
\* work is still printing, an effect of its own goroutine that marks the
\* ledger is observed once: the fence of RunAutoValues lets no re-run repeat
\* it.  (Effects that mark nothing, the network sends, are not protected.)
THEOREM OwnEffectsOnce == Spec => []EffectOnce
<1>1. Spec => []IInv
  BY InitInv, NextInv, PTL DEF Spec
<1>2. IInv => EffectOnce
  BY DEF IInv
<1> QED
  BY <1>1, <1>2, PTL

\* When RunAutoValues returns compile_refused, no effect of the request that
\* marks the ledger was observed, those of its imports included, and bindings
\* and modules are as the caller left them.
THEOREM RefusedLeavesNoTrace == Spec => []RefusedIsClean
<1>1. Spec => []IInv
  BY InitInv, NextInv, PTL DEF Spec
<1>2. IInv => RefusedIsClean
  BY DEF IInv, Progress, RefusedRestored, RefusedIsClean, Words, Positions
<1> QED
  BY <1>1, <1>2, PTL

\* A request is denied its fallback only when something of it was observed;
\* detached goroutines of other requests mark other ledgers.
THEOREM FallbackDeniedForCause == Spec => []BlockedByOwnEffect
<1>1. Spec => []IInv
  BY InitInv, NextInv, PTL DEF Spec
<1>2. IInv => BlockedByOwnEffect
  BY DEF IInv
<1> QED
  BY <1>1, <1>2, PTL

-----------------------------------------------------------------------------
(***************************************************************************)
(* The bindings a request leaves.  What the interpreter would leave is a   *)
(* recursion over the words, so that its equations come first: a recursion *)
(* with a step given as a function has a solution, by the least number up  *)
(* to which there is none.                                                 *)
(***************************************************************************)

\* Every nonempty set of numbers has a least element.
LEMMA LeastNumber ==
    ASSUME NEW S \in SUBSET Nat, S # {}
    PROVE  \E i \in S : \A j \in S : i <= j
<1>1. PICK i \in S : \A j \in S : ~(<<j, i>> \in OpToRel(<, Nat))
  BY NatLessThanWellFounded, WFMin
<1>2. ASSUME NEW j \in S PROVE i <= j
  <2>1. i \in Nat /\ j \in Nat /\ <<j, i>> \in Nat \X Nat
    OBVIOUS
  <2>2. j < i => <<j, i>> \in OpToRel(<, Nat)
    BY <2>1 DEF OpToRel
  <2>3. ~(j < i)
    BY <1>1, <2>2
  <2> QED
    BY <2>1, <2>3
<1> QED
  BY <1>2

\* A recursion computed for the first n positions.
IsRun(g, n, b, step) ==
    g[0] = b /\ \A i \in 1..n : g[i] = step[<<g[i - 1], i>>]

\* Two of them agree where both are defined.
LEMMA RunsAgree ==
    ASSUME NEW b, NEW step, NEW m \in Nat, NEW n \in Nat, NEW g, NEW h,
           IsRun(g, m, b, step), IsRun(h, n, b, step)
    PROVE  \A i \in Nat : i <= m /\ i <= n => g[i] = h[i]
<1> DEFINE S == {i \in Nat : i <= m /\ i <= n /\ g[i] # h[i]}
<1> SUFFICES ASSUME S # {} PROVE FALSE
  OBVIOUS
<1>1. PICK i \in S : \A j \in S : i <= j
  BY LeastNumber
<1>2. i # 0
  BY DEF IsRun
<1>3. i - 1 \in Nat /\ i - 1 \notin S /\ i \in 1..m /\ i \in 1..n
  BY <1>1, <1>2
<1>4. g[i - 1] = h[i - 1]
  BY <1>3
<1> QED
  BY <1>3, <1>4 DEF IsRun

\* It can be computed for any number of positions.
LEMMA RunExists ==
    ASSUME NEW T, NEW b \in T, NEW step \in [T \X Nat -> T], NEW n \in Nat
    PROVE  \E g \in [0..n -> T] : IsRun(g, n, b, step)
<1> DEFINE S == {k \in Nat : ~ \E g \in [0..k -> T] : IsRun(g, k, b, step)}
<1> SUFFICES ASSUME S # {} PROVE FALSE
  OBVIOUS
<1>1. PICK k \in S : \A j \in S : k <= j
  BY LeastNumber
<1>2. k # 0
  <2>1. [i \in 0..0 |-> b] \in [0..0 -> T] /\ IsRun([i \in 0..0 |-> b], 0, b, step)
    BY DEF IsRun
  <2> QED
    BY <2>1
<1>3. k - 1 \in Nat /\ k - 1 \notin S
  BY <1>1, <1>2
<1>4. PICK g \in [0..(k - 1) -> T] : IsRun(g, k - 1, b, step)
  BY <1>3
<1> DEFINE h == [i \in 0..k |-> IF i = k THEN step[<<g[k - 1], k>>] ELSE g[i]]
<1>5. h \in [0..k -> T]
  <2>1. g[k - 1] \in T /\ \A i \in 0..k : i # k => g[i] \in T
    BY <1>3
  <2>2. step[<<g[k - 1], k>>] \in T
    BY <2>1
  <2> QED
    BY <2>1, <2>2
<1>6. IsRun(h, k, b, step)
  <2>1. h[0] = b
    BY <1>2, <1>4 DEF IsRun
  <2>2. ASSUME NEW i \in 1..k PROVE h[i] = step[<<h[i - 1], i>>]
    <3>1. i - 1 \in 0..k /\ i - 1 # k /\ h[i - 1] = g[i - 1]
      OBVIOUS
    <3>2. CASE i = k
      BY <3>1, <3>2
    <3>3. CASE i # k
      BY <1>4, <3>1, <3>3 DEF IsRun
    <3> QED
      BY <3>2, <3>3
  <2> QED
    BY <2>1, <2>2 DEF IsRun
<1> QED
  BY <1>5, <1>6

\* And so for all of them at once.
Solves(f, b, step) ==
    f[0] = b /\ \A i \in Nat \ {0} : f[i] = step[<<f[i - 1], i>>]

\* A recursion over the numbers has a solution.
LEMMA Recursion ==
    ASSUME NEW T, NEW b \in T, NEW step \in [T \X Nat -> T]
    PROVE  \E f \in [Nat -> T] : Solves(f, b, step)
<1> DEFINE Run(n) == CHOOSE g \in [0..n -> T] : IsRun(g, n, b, step)
           f == [n \in Nat |-> Run(n)[n]]
<1>1. \A n \in Nat : Run(n) \in [0..n -> T] /\ IsRun(Run(n), n, b, step)
  BY RunExists
<1> HIDE DEF Run
<1>2. f \in [Nat -> T]
  BY <1>1
<1>3. f[0] = b
  BY <1>1 DEF IsRun
<1>4. ASSUME NEW i \in Nat \ {0} PROVE f[i] = step[<<f[i - 1], i>>]
  <2>1. i - 1 \in Nat /\ i \in 1..i
    OBVIOUS
  <2>2. Run(i)[i] = step[<<Run(i)[i - 1], i>>]
    BY <1>1, <2>1 DEF IsRun
  <2>3. Run(i)[i - 1] = Run(i - 1)[i - 1]
    BY <1>1, <2>1, RunsAgree
  <2> QED
    BY <2>1, <2>2, <2>3
<1> HIDE DEF f
<1>5. Solves(f, b, step)
  BY <1>3, <1>4 DEF Solves
<1> QED
  BY <1>2, <1>5

\* The equations of Interpreted.
LEMMA InterpretedIs ==
    ASSUME NEW r \in Request, NEW d \in Seq(Request \X Nat)
    PROVE  /\ Interpreted(r, d)[0] = d
           /\ \A i \in Nat \ {0} : Interpreted(r, d)[i] = Bind(Interpreted(r, d)[i - 1], r, i)
<1> DEFINE T == Seq(Request \X Nat)
           step == [x \in T \X Nat |-> Bind(x[1], r, x[2])]
           IsAfter(a) == a = [i \in Nat |-> IF i = 0 THEN d ELSE Bind(a[i - 1], r, i)]
<1>1. step \in [T \X Nat -> T] /\ d \in T
  BY BindType
<1>2. \A x \in T : \A i \in Nat : step[<<x, i>>] = Bind(x, r, i)
  OBVIOUS
<1> HIDE DEF T, step
<1>3. PICK f \in [Nat -> T] : Solves(f, d, step)
  BY <1>1, Recursion
<1>4. f[0] = d /\ \A i \in Nat \ {0} : f[i] = Bind(f[i - 1], r, i)
  <2>1. f[0] = d
    BY <1>3 DEF Solves
  <2>2. ASSUME NEW i \in Nat \ {0} PROVE f[i] = Bind(f[i - 1], r, i)
    <3>1. i \in Nat /\ i - 1 \in Nat
      OBVIOUS
    <3>2. f[i - 1] \in T
      BY <3>1
    <3> QED
      BY <1>2, <1>3, <3>1, <3>2 DEF Solves
  <2> QED
    BY <2>1, <2>2
<1>5. IsAfter(f)
  BY <1>4
<1>6. Interpreted(r, d) = CHOOSE a : IsAfter(a)
  BY DEF Interpreted
<1>7. IsAfter(Interpreted(r, d))
  BY <1>5, <1>6
<1>8. PICK a : a = Interpreted(r, d)
  OBVIOUS
<1>9. a = [i \in Nat |-> IF i = 0 THEN d ELSE Bind(a[i - 1], r, i)]
  BY <1>7, <1>8
<1>10. a[0] = d /\ \A i \in Nat \ {0} : a[i] = Bind(a[i - 1], r, i)
  BY <1>9
<1> QED
  BY <1>8, <1>10

\* A run, on the VM or by the interpreter, has made the bindings of the words
\* before the one it is at, and those are what it leaves when it ends.
Follows ==
    (phase \in {"run", "interp"}
        \/ (phase = "idle" /\ req > 0 /\ outcome[req] \in {"ok", "error"}))
        => defs = Interpreted(req, snap.defs)[pos - 1]

BindInv == IInv /\ Follows

\* A word executed adds its own binding to those of the words before it.
LEMMA WordFollows == ASSUME BindInv, WordStep PROVE Follows'
<1>1. req \in Request /\ pos \in Nat /\ pos >= 1 /\ snap.defs \in Seq(Request \X Nat)
  BY DEF BindInv, IInv, Serving, TypeOK, WordStep
<1>2. /\ UNCHANGED <<src, req, phase, snap, outcome>> /\ pos' = pos + 1
      /\ defs' = Bind(defs, req, pos)
      /\ phase # "idle"
  BY DEF WordStep
<1>3. Interpreted(req, snap.defs)' = Interpreted(req, snap.defs)
  BY <1>2 DEF Interpreted, Bind
<1>4. Interpreted(req, snap.defs)[pos] = Bind(Interpreted(req, snap.defs)[pos - 1], req, pos)
  BY <1>1, InterpretedIs
<1>5. CASE phase \in {"run", "interp"}
  BY <1>1, <1>2, <1>3, <1>4, <1>5 DEF BindInv, Follows
<1> QED
  BY <1>2, <1>5 DEF Follows

\* A run begins where the request found the bindings, and one that ends
\* changes them no more, unless it ends with another outcome.
LEMMA TurnFollows ==
    ASSUME BindInv,
           \/ RefusePerformance \/ RefuseStatic \/ RefuseStrict \/ CallerReruns
           \/ CallerGivesUp \/ RunProgram \/ RunBails \/ RunErrors \/ InterpErrors \/ Returns
    PROVE  Follows'
<1>1. UNCHANGED <<src, req, snap>> /\ phase # "idle"
  BY TurnActions DEF BindInv, Turns
<1>2. req \in Request /\ snap.defs \in Seq(Request \X Nat) /\ outcome \in [Request -> Outcomes]
  BY <1>1 DEF BindInv, IInv, Serving, TypeOK
<1>3. Interpreted(req, snap.defs)' = Interpreted(req, snap.defs)
  BY <1>1 DEF Interpreted, Bind
<1>4. CASE phase' = "interp" \/ phase' = "run"
  <2>1. pos' = 1 /\ defs' = snap.defs
    BY <1>4 DEF RefusePerformance, RefuseStatic, RefuseStrict, CallerReruns, CallerGivesUp,
                RunProgram, RunBails, RunErrors, InterpErrors, Returns, Ends, Enters,
                RestoreForCompile, regVars, BindInv, IInv, RefusedRestored
  <2>2. Interpreted(req, snap.defs)[0] = snap.defs
    BY <1>2, InterpretedIs
  <2> QED
    BY <1>1, <1>3, <2>1, <2>2 DEF Follows
<1>5. CASE phase' = "idle" /\ outcome'[req] \in {"ok", "error"}
  <2>1. RunErrors \/ InterpErrors \/ Returns
    BY <1>2, <1>5 DEF RefusePerformance, RefuseStatic, RefuseStrict, CallerReruns, CallerGivesUp,
                RunProgram, RunBails, Ends, Enters
  <2>2. phase \in {"run", "interp"} /\ UNCHANGED <<pos, defs>>
    BY <2>1 DEF RunErrors, InterpErrors, Returns, Ends, regVars
  <2> QED
    BY <1>1, <1>3, <2>2 DEF BindInv, Follows
<1> QED
  BY <1>1, <1>4, <1>5 DEF Follows

\* Every step keeps it.
LEMMA NextBindInv == BindInv /\ [Next]_vars => BindInv'
<1> SUFFICES ASSUME BindInv, [Next]_vars PROVE Follows'
  BY NextInv DEF BindInv
<1>1. CASE Begin
  BY <1>1 DEF Begin, Enters, Follows
<1>2. CASE CheckStep \/ RunStep \/ InterpStep
  BY <1>2, WordActions, WordFollows DEF BindInv
<1>3. CASE \/ RefusePerformance \/ RefuseStatic \/ RefuseStrict \/ CallerReruns
           \/ CallerGivesUp \/ RunProgram \/ RunBails \/ RunErrors \/ InterpErrors \/ Returns
  BY <1>3, TurnFollows
<1>4. ASSUME UNCHANGED <<src, req, phase, pos, defs, snap, outcome>> PROVE Follows'
  BY <1>4 DEF BindInv, Follows, Interpreted, Bind
<1>5. ASSUME NEW t \in tasks, TaskWrites(t) \/ TaskNotes(t) PROVE Follows'
  BY <1>4, <1>5 DEF TaskWrites, TaskNotes, regVars
<1>6. CASE UNCHANGED vars
  BY <1>4, <1>6 DEF vars, regVars
<1> QED
  BY <1>1, <1>2, <1>3, <1>5, <1>6 DEF Next

\* Whichever arm a request takes, the bindings it leaves behind with its own
\* result or error are those the interpreter alone would leave, for sources
\* of any length: the installs of the check pass and of a run that bailed
\* out are all taken back, and none is made twice.
THEOREM BindingsAsInterpreted == Spec => []BindingsLikeInterpreter
<1>1. Init => BindInv
  BY InitInv DEF Init, BindInv, Follows
<1>2. BindInv => BindingsLikeInterpreter
  BY DEF BindInv, Follows, BindingsLikeInterpreter
<1> QED
  BY <1>1, <1>2, NextBindInv, PTL DEF Spec
=============================================================================

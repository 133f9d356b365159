-------------------------------- MODULE Await --------------------------------
(***************************************************************************)
(* The `await` word (lang/go/native/native_temporal_await.go): the four    *)
(* ways of waiting for branches that run on goroutines of their own, and   *)
(* how a branch runs, compiled and, should the VM bail out without having  *)
(* printed, again on the interpreter.                                      *)
(*                                                                         *)
(* all and full wait for every branch (a WaitGroup); first and any read    *)
(* results from a channel with room for all of them and may return while   *)
(* other branches go on.  The branches are forks of one registry, so they  *)
(* share its effect ledger, which their armed writers mark (a compiled     *)
(* request arms them; the forced mode does not).                           *)
(***************************************************************************)
EXTENDS Naturals, Sequences, FiniteSets

CONSTANTS N,        \* the number of branches
          Modes     \* the modes used

ASSUME AwaitAssumption == /\ N \in Nat \ {0}
                          /\ Modes \subseteq {"all", "full", "first", "any"}

Branch == 1..N

VARIABLES mode,       \* the mode of this await
          pc,         \* branches: "idle", "start", "vm", "interp", "finished", "ended"
          effectsAt,  \* each branch: the Count() its compiled run began with
          ledger,     \* EffectLedger, shared by the forks
          said,       \* branches whose present run has printed
          printed,    \* history: how often each branch's output came out
          outcome,    \* parallelResult.err of each branch: "none", "ok", "err"
          ch,         \* the channel of first and any
          taken,      \* history: branches whose result was read, in order
          result      \* what await gave: nothing yet, an error of its own, a list
                      \* or the result of a branch

branchVars == <<pc, effectsAt, ledger, said, printed, outcome>>
vars == <<mode, branchVars, ch, taken, result>>

NotYet == <<"none">>
Refused == <<"refused">>

TypeOK == /\ mode \in Modes
          /\ pc \in [Branch -> {"idle", "start", "vm", "interp", "finished", "ended"}]
          /\ effectsAt \in [Branch -> Nat] /\ ledger \in Nat
          /\ printed \in [Branch -> Nat]
          /\ said \subseteq Branch
          /\ outcome \in [Branch -> {"none", "ok", "err"}]
          /\ ch \in Seq(Branch) /\ taken \in Seq(Branch)
          /\ result \in {NotYet, Refused, <<"list">>} \cup ({"branch"} \X Branch)

Init == /\ mode \in Modes
        /\ pc = [i \in Branch |-> "idle"]
        /\ effectsAt = [i \in Branch |-> 0]
        /\ ledger = 0
        /\ printed = [i \in Branch |-> 0]
        /\ said = {}
        /\ outcome = [i \in Branch |-> "none"]
        /\ ch = <<>> /\ taken = <<>>
        /\ result = NotYet

Channelled == mode \in {"first", "any"}

-----------------------------------------------------------------------------
\* makeBranchForks: await refuses branches that reach a mutable container, or
\* forks a registry and starts a goroutine for each of them.
MakeBranchForks(sharing) ==
    /\ \A i \in Branch : pc[i] = "idle"
    /\ result = NotYet
    /\ IF sharing THEN result' = Refused /\ UNCHANGED pc
                  ELSE pc' = [i \in Branch |-> "start"] /\ UNCHANGED result
    /\ UNCHANGED <<mode, effectsAt, ledger, said, printed, outcome, ch, taken>>

\* runParallelBranch: a compiled body (with the ledger's Count() before it),
\* or a raw list of words.
StartCompiled(i) == /\ pc[i] = "start"
                    /\ pc' = [pc EXCEPT ![i] = "vm"]
                    /\ effectsAt' = [effectsAt EXCEPT ![i] = ledger]
                    /\ UNCHANGED <<mode, ledger, said, printed, outcome, ch, taken,
                                   result>>

StartInterpreted(i) == /\ pc[i] = "start"
                       /\ pc' = [pc EXCEPT ![i] = "interp"]
                       /\ UNCHANGED <<mode, effectsAt, ledger, said, printed, outcome,
                                      ch, taken, result>>

\* An element that is no list is its own result.
StartValue(i) == /\ pc[i] = "start"
                 /\ pc' = [pc EXCEPT ![i] = "finished"]
                 /\ outcome' = [outcome EXCEPT ![i] = "ok"]
                 /\ UNCHANGED <<mode, effectsAt, ledger, said, printed, ch, taken, result>>

\* The body prints (a body with one print; a re-run may come to it again).
Output(i) == /\ pc[i] \in {"vm", "interp"}
             /\ i \notin said
             /\ said' = said \cup {i}
             /\ printed' = [printed EXCEPT ![i] = @ + 1]
             /\ ledger' = ledger + 1
             /\ UNCHANGED <<mode, pc, effectsAt, outcome, ch, taken, result>>

\* Mutant: the body is run again whatever it has printed.
Quiet_Always(i) == TRUE

\* The fence: Count() == effectsAt.
Quiet(i) == ledger = effectsAt[i]

\* RunUnit returns an internal_error: interpretBranchBody, or an error.
Bail(i) == /\ pc[i] = "vm"
           /\ IF Quiet(i)
              THEN /\ pc' = [pc EXCEPT ![i] = "interp"]
                   /\ said' = said \ {i}
                   /\ UNCHANGED outcome
              ELSE /\ pc' = [pc EXCEPT ![i] = "finished"]
                   /\ outcome' = [outcome EXCEPT ![i] = "err"]
                   /\ UNCHANGED said
           /\ UNCHANGED <<mode, effectsAt, ledger, printed, ch, taken, result>>

\* branchOutcome: the body returns, with an error or without. Nothing makes
\* it return.
Finish(i, o) == /\ pc[i] \in {"vm", "interp"}
                /\ pc' = [pc EXCEPT ![i] = "finished"]
                /\ outcome' = [outcome EXCEPT ![i] = o]
                /\ UNCHANGED <<mode, effectsAt, ledger, said, printed, ch, taken, result>>

\* Mutant: an unbuffered channel, which takes a value when somebody reads it.
HasSlot_Unbuffered == ch = <<>> /\ result = NotYet

\* make(chan parallelResult, len(elems))
HasSlot == Len(ch) < N

\* The goroutine of a branch delivers its result and ends: results[idx] and
\* wg.Done, or ch <- pr.
Deliver(i) == /\ pc[i] = "finished"
              /\ Channelled => HasSlot
              /\ pc' = [pc EXCEPT ![i] = "ended"]
              /\ ch' = IF Channelled THEN Append(ch, i) ELSE ch
              /\ UNCHANGED <<mode, effectsAt, ledger, said, printed, outcome, taken,
                             result>>

-----------------------------------------------------------------------------
Failed == {i \in Branch : outcome[i] = "err"}

\* Mutant: the branch that failed last instead of the first.
FirstError_Last == CHOOSE i \in Failed : \A j \in Failed : i >= j

\* awaitAll: the first of results with err.
FirstError == CHOOSE i \in Failed : \A j \in Failed : i <= j

\* awaitAll and awaitFull after wg.Wait().
ReturnAll == /\ ~Channelled
             /\ result = NotYet
             /\ \A i \in Branch : pc[i] = "ended"
             /\ result' = IF mode = "all" /\ Failed # {} THEN <<"branch", FirstError>>
                                                         ELSE <<"list">>
             /\ UNCHANGED <<mode, branchVars, ch, taken>>

\* Mutant: reads the results of all branches before it looks at them.
Settles_Last(i) == Len(taken) = N - 1

\* awaitFirst takes the first result; awaitAny reads on after an error, up to
\* the last branch.
Settles(i) == mode = "first" \/ outcome[i] = "ok" \/ Len(taken) = N - 1

\* awaitFirst and awaitAny: <-ch.
Receive == /\ Channelled
           /\ result = NotYet
           /\ ch # <<>>
           /\ ch' = Tail(ch)
           /\ taken' = Append(taken, Head(ch))
           /\ result' = IF Settles(Head(ch)) THEN <<"branch", Head(ch)>> ELSE NotYet
           /\ UNCHANGED <<mode, branchVars>>

Next == \/ \E sharing \in BOOLEAN : MakeBranchForks(sharing)
        \/ \E i \in Branch : \/ StartCompiled(i) \/ StartInterpreted(i) \/ StartValue(i)
                             \/ Output(i) \/ Bail(i)
                             \/ \E o \in {"ok", "err"} : Finish(i, o)
                             \/ Deliver(i)
        \/ ReturnAll \/ Receive

Spec == Init /\ [][Next]_vars

\* Goroutines that can go on do; the bodies of branches need not end.
LiveSpec == Spec /\ WF_vars(ReturnAll) /\ WF_vars(Receive)
                 /\ \A i \in Branch : WF_vars(Deliver(i))

-----------------------------------------------------------------------------
\* What each mode promises, whatever the order in which branches end: all
\* fails with the lowest failing branch and only if one fails, any fails only
\* if all fail, first and any give the outcome of a branch that ended.
ResultIsOwed ==
    result \notin {NotYet, Refused} =>
        /\ mode = "full" => result = <<"list">>
        /\ mode = "all" => IF Failed = {} THEN result = <<"list">>
                           ELSE /\ outcome[result[2]] = "err"
                                /\ \A j \in 1..(result[2] - 1) : outcome[j] = "ok"
        /\ mode = "any" => \/ outcome[result[2]] = "ok"
                           \/ Failed = Branch /\ result[2] = taken[N]
        /\ mode = "first" => pc[result[2]] = "ended" /\ taken = <<result[2]>>

\* "a VM soundness bail with NO observable effect" is re-run: the output of
\* a branch does not come out twice, whatever its siblings print meanwhile.
PrintedOnce == \A i \in Branch : printed[i] <= 1

\* first returns as soon as one branch ends, and any as soon as one ends well,
\* although the others never do.
FirstWins == (Channelled /\ \E i \in Branch : pc[i] = "finished"
                                            /\ (mode = "first" \/ outcome[i] = "ok"))
                 ~> (result # NotYet)

\* A branch that ends after await has returned, when nobody reads its result
\* any more, is not stuck on the channel: no goroutine is leaked.
StragglersEnd == \A i \in Branch : (pc[i] = "finished") ~> (pc[i] = "ended")
=============================================================================

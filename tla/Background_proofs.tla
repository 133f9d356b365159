-------------------------- MODULE Background_proofs --------------------------
(***************************************************************************)
(* Proofs about the words that leave goroutines running behind the program:*)
(* await, timers and watch.  Each part is about one module and stands by   *)
(* itself.                                                                 *)
(***************************************************************************)
EXTENDS Await, Timers, Watch, FiniteSetTheorems, WellFoundedInduction, TLAPS

-----------------------------------------------------------------------------
(***************************************************************************)
(* Await, for any number of branches: the fence of a branch keeps its      *)
(* output from coming out twice, although the branches share the ledger the*)
(* fence looks at, and each mode gives what it promises in whatever order  *)
(* the branches end.                                                       *)
(***************************************************************************)
BranchTypes ==
    /\ pc \in [Branch -> {"idle", "start", "vm", "interp", "finished", "ended"}]
    /\ effectsAt \in [Branch -> Nat] /\ ledger \in Nat
    /\ printed \in [Branch -> Nat]
    /\ said \subseteq Branch

\* What has come out of a branch came out of its present run.
SaidIsPrinted == \A i \in Branch : printed[i] = IF i \in said THEN 1 ELSE 0

\* A branch that has not begun has printed nothing.
SilentBefore == \A i \in Branch : pc[i] \in {"idle", "start"} => i \notin said

\* The ledger only grows, and has grown past the count with which a compiled
\* run began that has printed.
LedgerTells ==
    \A i \in Branch : /\ pc[i] = "vm" => effectsAt[i] <= ledger
                      /\ pc[i] = "vm" /\ i \in said => effectsAt[i] < ledger

Inv == BranchTypes /\ SaidIsPrinted /\ SilentBefore /\ LedgerTells

\* No branch has begun.
LEMMA InitInv == Init => Inv
BY DEF Init, Inv, BranchTypes, SaidIsPrinted, SilentBefore, LedgerTells

\* The steps that run a branch.
LEMMA BranchStep ==
    ASSUME Inv, NEW i \in Branch,
           \/ StartCompiled(i) \/ StartInterpreted(i) \/ StartValue(i)
           \/ Output(i) \/ Bail(i)
           \/ \E o \in {"ok", "err"} : Finish(i, o)
           \/ Deliver(i)
    PROVE  Inv'
<1>1. CASE StartCompiled(i)
  BY <1>1 DEF StartCompiled, Inv, BranchTypes, SaidIsPrinted, SilentBefore, LedgerTells
<1>2. CASE StartInterpreted(i)
  BY <1>2 DEF StartInterpreted, Inv, BranchTypes, SaidIsPrinted, SilentBefore, LedgerTells
<1>3. CASE StartValue(i)
  BY <1>3 DEF StartValue, Inv, BranchTypes, SaidIsPrinted, SilentBefore, LedgerTells
<1>4. CASE Output(i)
  <2>1. /\ pc[i] \in {"vm", "interp"} /\ i \notin said /\ said' = said \cup {i}
        /\ printed' = [printed EXCEPT ![i] = printed[i] + 1] /\ ledger' = ledger + 1
        /\ UNCHANGED <<pc, effectsAt>>
    BY <1>4 DEF Output
  <2>2. BranchTypes' /\ SaidIsPrinted' /\ SilentBefore'
    BY <2>1 DEF Inv, BranchTypes, SaidIsPrinted, SilentBefore
  <2>3. LedgerTells'
    BY <2>1 DEF Inv, BranchTypes, LedgerTells
  <2> QED BY <2>2, <2>3 DEF Inv
<1>5. CASE Bail(i)
  <2>1. CASE Quiet(i)
    <3>1. i \notin said
      BY <1>5, <2>1 DEF Bail, Quiet, Inv, BranchTypes, LedgerTells
    <3>2. /\ pc' = [pc EXCEPT ![i] = "interp"] /\ said' = said
          /\ UNCHANGED <<effectsAt, ledger, printed>>
      BY <1>5, <2>1, <3>1 DEF Bail
    <3> QED BY <3>1, <3>2 DEF Inv, BranchTypes, SaidIsPrinted, SilentBefore, LedgerTells
  <2>2. CASE ~Quiet(i)
    BY <1>5, <2>2 DEF Bail, Inv, BranchTypes, SaidIsPrinted, SilentBefore, LedgerTells
  <2> QED BY <2>1, <2>2
<1>6. ASSUME NEW o \in {"ok", "err"}, Finish(i, o) PROVE Inv'
  BY <1>6 DEF Finish, Inv, BranchTypes, SaidIsPrinted, SilentBefore, LedgerTells
<1>7. CASE Deliver(i)
  BY <1>7 DEF Deliver, Inv, BranchTypes, SaidIsPrinted, SilentBefore, LedgerTells
<1> QED BY <1>1, <1>2, <1>3, <1>4, <1>5, <1>6, <1>7

\* Every step keeps the invariant.
LEMMA NextInv == Inv /\ [Next]_vars => Inv'
<1> SUFFICES ASSUME Inv, [Next]_vars PROVE Inv'
  OBVIOUS
<1>1. ASSUME NEW sharing \in BOOLEAN, MakeBranchForks(sharing) PROVE Inv'
  <2>1. UNCHANGED <<effectsAt, ledger, said, printed>>
    BY <1>1 DEF MakeBranchForks
  <2>2. UNCHANGED pc \/ pc' = [i \in Branch |-> "start"]
    BY <1>1 DEF MakeBranchForks
  <2>3. \A i \in Branch : pc[i] = "idle"
    BY <1>1 DEF MakeBranchForks
  <2> QED BY <2>1, <2>2, <2>3 DEF Inv, BranchTypes, SaidIsPrinted, SilentBefore, LedgerTells
<1>2. ASSUME NEW i \in Branch,
             \/ StartCompiled(i) \/ StartInterpreted(i) \/ StartValue(i)
             \/ Output(i) \/ Bail(i)
             \/ \E o \in {"ok", "err"} : Finish(i, o)
             \/ Deliver(i)
      PROVE  Inv'
  BY <1>2, BranchStep
<1>3. CASE ReturnAll \/ Receive \/ UNCHANGED vars
  <2>1. UNCHANGED branchVars
    BY <1>3 DEF ReturnAll, Receive, vars
  <2> QED BY <2>1 DEF branchVars, Inv, BranchTypes, SaidIsPrinted, SilentBefore, LedgerTells
<1> QED BY <1>1, <1>2, <1>3 DEF Next

(***************************************************************************)
(* A branch whose compiled run bails is re-run by the interpreter only     *)
(* when nothing has come out of it: its output never comes out twice,      *)
(* however many branches mark the one ledger that the fence compares.      *)
(***************************************************************************)
THEOREM BranchOutputOnce == Spec => []PrintedOnce
<1>1. Inv => PrintedOnce
  BY DEF Inv, SaidIsPrinted, PrintedOnce
<1> QED BY InitInv, NextInv, <1>1, PTL DEF Spec
-----------------------------------------------------------------------------
(***************************************************************************)
(* The results.  Those read and those still in the channel are one         *)
(* sequence, to which delivering appends and which reading leaves alone:   *)
(* it names branches that have ended, none of them twice.                  *)
(***************************************************************************)
Arrived == taken \o ch

ResultTypes ==
    /\ mode \in {"all", "full", "first", "any"}
    /\ pc \in [Branch -> {"idle", "start", "vm", "interp", "finished", "ended"}]
    /\ outcome \in [Branch -> {"none", "ok", "err"}]
    /\ ch \in Seq(Branch) /\ taken \in Seq(Branch)

\* A branch that has returned has an outcome.
HaveOutcomes == \A i \in Branch : pc[i] \in {"finished", "ended"} => outcome[i] \in {"ok", "err"}

ArrivedEnded == \A k \in 1..Len(Arrived) : pc[Arrived[k]] = "ended"

ArrivedOnce == \A j, k \in 1..Len(Arrived) : Arrived[j] = Arrived[k] => j = k

\* await reads on only past errors, and first does not read on at all.
ReadsOn == result = NotYet => /\ mode = "first" => taken = <<>>
                              /\ \A k \in 1..Len(taken) : outcome[taken[k]] = "err"

\* ResultIsOwed, with the branches ended on whose outcomes the result rests:
\* those outcomes change no more.
Owed ==
    result \notin {NotYet, Refused} =>
        /\ mode = "full" => result = <<"list">>
        /\ mode = "all" => /\ \A i \in Branch : pc[i] = "ended"
                           /\ IF Failed = {} THEN result = <<"list">>
                              ELSE /\ outcome[result[2]] = "err"
                                   /\ \A j \in 1..(result[2] - 1) : outcome[j] = "ok"
        /\ mode = "any" => \/ /\ result[2] \in Branch /\ pc[result[2]] = "ended"
                              /\ outcome[result[2]] = "ok"
                           \/ /\ \A i \in Branch : pc[i] = "ended" /\ outcome[i] = "err"
                              /\ result[2] = taken[N]
        /\ mode = "first" => /\ result[2] \in Branch /\ pc[result[2]] = "ended"
                             /\ taken = <<result[2]>>

ResultInv == ResultTypes /\ HaveOutcomes /\ ArrivedEnded /\ ArrivedOnce /\ ReadsOn /\ Owed

\* A set of natural numbers has a least element.
LEMMA LeastNat ==
    ASSUME NEW S \in SUBSET Nat, S # {}
    PROVE  \E i \in S : \A j \in S : i <= j
<1>1. \E i \in S : \A j \in S : ~(<<j, i>> \in OpToRel(<, Nat))
  BY NatLessThanWellFounded, WFMin
<1>2. PICK i \in S : \A j \in S : ~(<<j, i>> \in OpToRel(<, Nat))
  BY <1>1
<1>3. ASSUME NEW j \in S PROVE i <= j
  <2>1. i \in Nat /\ j \in Nat /\ <<j, i>> \in Nat \X Nat
    OBVIOUS
  <2>2. j < i => <<j, i>> \in OpToRel(<, Nat)
    BY <2>1 DEF OpToRel
  <2>3. ~(j < i)
    BY <1>2, <2>2
  <2> QED
    BY <2>1, <2>3
<1> QED
  BY <1>3

\* A sequence of N branches, none twice, names all of them.
LEMMA AllNamed ==
    ASSUME NEW s \in Seq(Branch), Len(s) = N, \A j, k \in 1..N : s[j] = s[k] => j = k
    PROVE  \A i \in Branch : \E k \in 1..N : s[k] = i
<1>1. s \in [Branch -> Branch]
  BY DEF Branch
<1>2. s \in Injection(Branch, Branch)
  BY <1>1 DEF Branch, Injection, IsInjective
<1>3. IsFiniteSet(Branch)
  BY FS_Interval, AwaitAssumption DEF Branch
<1>4. s \in Surjection(Branch, Branch)
  BY <1>2, <1>3, FS_Injection
<1> QED
  BY <1>4 DEF Surjection, Branch

\* Reading moves the head of the channel to the end of what was read.
LEMMA ReadKeepsArrived ==
    ASSUME NEW s \in Seq(Branch), NEW c \in Seq(Branch), c # <<>>
    PROVE  /\ Append(s, Head(c)) \in Seq(Branch) /\ Tail(c) \in Seq(Branch)
           /\ Append(s, Head(c)) \o Tail(c) = s \o c
OBVIOUS

\* Delivering appends to what has arrived.
LEMMA DeliverAppends ==
    ASSUME NEW s \in Seq(Branch), NEW c \in Seq(Branch), NEW i \in Branch
    PROVE  s \o Append(c, i) = Append(s \o c, i)
OBVIOUS

\* No branch has ended.
LEMMA ResultInitInv == Init => ResultInv
<1> SUFFICES ASSUME Init PROVE ResultInv
  OBVIOUS
<1>1. taken = <<>> /\ ch = <<>> /\ Len(Arrived) = 0 /\ result = NotYet
  BY DEF Init, Arrived
<1>2. ResultTypes /\ HaveOutcomes
  BY AwaitAssumption DEF Init, ResultTypes, HaveOutcomes
<1> QED
  BY <1>1, <1>2 DEF ResultInv, ArrivedEnded, ArrivedOnce, ReadsOn, Owed

\* What any step of a branch keeps: await's own state, and the outcome of
\* every branch that had ended.
LEMMA BranchKeeps ==
    ASSUME ResultInv, NEW i \in Branch,
           \/ StartCompiled(i) \/ StartInterpreted(i) \/ StartValue(i)
           \/ Output(i) \/ Bail(i)
           \/ \E o \in {"ok", "err"} : Finish(i, o)
           \/ Deliver(i)
    PROVE  /\ UNCHANGED <<mode, taken, result>>
           /\ pc' \in [Branch -> {"idle", "start", "vm", "interp", "finished", "ended"}]
           /\ outcome' \in [Branch -> {"none", "ok", "err"}]
           /\ HaveOutcomes'
           /\ \A j \in Branch : pc[j] = "ended" => pc'[j] = "ended" /\ outcome'[j] = outcome[j]
           /\ \/ ch' = ch
              \/ ch' = Append(ch, i) /\ pc[i] = "finished" /\ pc'[i] = "ended"
<1> USE DEF ResultInv, ResultTypes, HaveOutcomes
<1>1. CASE StartCompiled(i)
  BY <1>1 DEF StartCompiled
<1>2. CASE StartInterpreted(i)
  BY <1>2 DEF StartInterpreted
<1>3. CASE StartValue(i)
  BY <1>3 DEF StartValue
<1>4. CASE Output(i)
  BY <1>4 DEF Output
<1>5. CASE Bail(i)
  <2>1. /\ pc[i] = "vm" /\ UNCHANGED <<mode, taken, result, ch>>
        /\ \/ pc' = [pc EXCEPT ![i] = "interp"] /\ outcome' = outcome
           \/ pc' = [pc EXCEPT ![i] = "finished"] /\ outcome' = [outcome EXCEPT ![i] = "err"]
    BY <1>5 DEF Bail
  <2> QED
    BY <2>1
<1>6. CASE \E o \in {"ok", "err"} : Finish(i, o)
  BY <1>6 DEF Finish
<1>7. CASE Deliver(i)
  BY <1>7 DEF Deliver
<1> QED
  BY <1>1, <1>2, <1>3, <1>4, <1>5, <1>6, <1>7

\* So it keeps the invariant.
LEMMA BranchResultStep ==
    ASSUME ResultInv, NEW i \in Branch,
           \/ StartCompiled(i) \/ StartInterpreted(i) \/ StartValue(i)
           \/ Output(i) \/ Bail(i)
           \/ \E o \in {"ok", "err"} : Finish(i, o)
           \/ Deliver(i)
    PROVE  ResultInv'
<1>1. /\ UNCHANGED <<mode, taken, result>>
      /\ pc' \in [Branch -> {"idle", "start", "vm", "interp", "finished", "ended"}]
      /\ outcome' \in [Branch -> {"none", "ok", "err"}]
      /\ HaveOutcomes'
      /\ \A j \in Branch : pc[j] = "ended" => pc'[j] = "ended" /\ outcome'[j] = outcome[j]
      /\ \/ ch' = ch
         \/ ch' = Append(ch, i) /\ pc[i] = "finished" /\ pc'[i] = "ended"
  BY BranchKeeps
<1>2. ch \in Seq(Branch) /\ taken \in Seq(Branch) /\ Arrived \in Seq(Branch)
  BY DEF ResultInv, ResultTypes, Arrived
<1>3. ResultTypes'
  <2>1. Append(ch, i) \in Seq(Branch)
    BY <1>2
  <2>2. ch' \in Seq(Branch) /\ taken' \in Seq(Branch) /\ mode' = mode
    BY <1>1, <1>2, <2>1
  <2> QED
    BY <1>1, <2>2 DEF ResultInv, ResultTypes
<1>4. ArrivedEnded' /\ ArrivedOnce'
  <2>1. CASE ch' = ch
    BY <1>1, <1>2, <2>1 DEF ResultInv, Arrived, ArrivedEnded, ArrivedOnce
  <2>2. CASE ch' = Append(ch, i) /\ pc[i] = "finished" /\ pc'[i] = "ended"
    <3>1. Arrived' = Append(Arrived, i)
      BY <1>1, <1>2, <2>2, DeliverAppends DEF Arrived
    <3>2. \A k \in 1..Len(Arrived) : Arrived[k] \in Branch /\ pc[Arrived[k]] = "ended"
      BY <1>2 DEF ResultInv, ArrivedEnded
    <3>3. ArrivedEnded'
      BY <1>1, <1>2, <2>2, <3>1, <3>2 DEF ArrivedEnded
    <3>4. ArrivedOnce'
      BY <1>2, <2>2, <3>1, <3>2 DEF ResultInv, ArrivedOnce
    <3> QED
      BY <3>3, <3>4
  <2> QED
    BY <1>1, <2>1, <2>2
<1>5. \A k \in 1..Len(taken) : taken[k] \in Branch /\ pc[taken[k]] = "ended"
  <2>1. ASSUME NEW k \in 1..Len(taken) PROVE k \in 1..Len(Arrived) /\ Arrived[k] = taken[k]
    BY <1>2 DEF Arrived
  <2> QED
    BY <1>2, <2>1 DEF ResultInv, ArrivedEnded
<1>6. ReadsOn'
  BY <1>1, <1>5 DEF ResultInv, ReadsOn
<1>7. Owed'
  <2> SUFFICES ASSUME result \notin {NotYet, Refused}
               PROVE  Owed!2'
    BY <1>1 DEF Owed
  <2>1. Owed!2
    BY DEF ResultInv, Owed
  <2>2. mode = "full" => result' = <<"list">>
    BY <1>1, <2>1
  <2>3. ASSUME mode = "all"
        PROVE  /\ \A j \in Branch : pc'[j] = "ended"
               /\ IF Failed' = {} THEN result' = <<"list">>
                  ELSE /\ outcome'[result'[2]] = "err"
                       /\ \A j \in 1..(result'[2] - 1) : outcome'[j] = "ok"
    <3>1. outcome' = outcome
      BY <1>1, <2>1, <2>3 DEF ResultInv, ResultTypes
    <3>2. Failed' = Failed
      BY <3>1 DEF Failed
    <3> QED
      BY <1>1, <2>1, <2>3, <3>1, <3>2
  <2>4. ASSUME mode = "any"
        PROVE  \/ /\ result'[2] \in Branch /\ pc'[result'[2]] = "ended"
                  /\ outcome'[result'[2]] = "ok"
               \/ /\ \A j \in Branch : pc'[j] = "ended" /\ outcome'[j] = "err"
                  /\ result'[2] = taken'[N]
    BY <1>1, <2>1, <2>4
  <2>5. ASSUME mode = "first"
        PROVE  /\ result'[2] \in Branch /\ pc'[result'[2]] = "ended"
               /\ taken' = <<result'[2]>>
    BY <1>1, <2>1, <2>5
  <2> QED
    BY <1>1, <2>2, <2>3, <2>4, <2>5
<1> QED
  BY <1>1, <1>3, <1>4, <1>6, <1>7 DEF ResultInv

\* awaitAll and awaitFull, when every branch has ended.
LEMMA ReturnAllStep == ASSUME ResultInv, ReturnAll PROVE ResultInv'
<1>1. /\ UNCHANGED <<mode, pc, outcome, ch, taken>>
      /\ mode \notin {"first", "any"}
      /\ \A i \in Branch : pc[i] = "ended"
      /\ result' = IF mode = "all" /\ Failed # {} THEN <<"branch", FirstError>> ELSE <<"list">>
  BY DEF ReturnAll, branchVars, Channelled
<1>2. Failed' = Failed /\ Failed \subseteq Branch
  BY <1>1 DEF Failed
<1>3. result' # NotYet
  BY <1>1 DEF NotYet
<1>4. \A i \in Branch : outcome[i] \in {"ok", "err"}
  BY <1>1 DEF ResultInv, HaveOutcomes
<1>5. ASSUME mode = "all", Failed # {}
      PROVE  /\ outcome[result'[2]] = "err"
             /\ \A j \in 1..(result'[2] - 1) : outcome[j] = "ok"
  <2>1. Failed \in SUBSET Nat
    BY <1>2, AwaitAssumption DEF Branch
  <2>2. \E i \in Failed : \A j \in Failed : i <= j
    BY <1>5, <2>1, LeastNat
  <2>3. FirstError \in Failed /\ \A j \in Failed : FirstError <= j
    BY <2>2 DEF FirstError
  <2>4. result'[2] = FirstError
    BY <1>1, <1>5
  <2>5. FirstError \in 1..N
    BY <1>2, <2>3 DEF Branch
  <2>6. ASSUME NEW j \in 1..(FirstError - 1) PROVE outcome[j] = "ok"
    <3>1. j \in Branch /\ ~(FirstError <= j)
      BY <2>5, AwaitAssumption DEF Branch
    <3> QED
      BY <1>4, <2>3, <3>1 DEF Failed
  <2> QED
    BY <2>3, <2>4, <2>6 DEF Failed
<1>6. Owed'
  <2>1. CASE mode = "all"
    BY <1>1, <1>2, <1>5, <2>1 DEF Owed
  <2>2. CASE mode # "all"
    BY <1>1, <2>2 DEF Owed
  <2> QED
    BY <2>1, <2>2
<1> QED
  BY <1>1, <1>3, <1>6 DEF ResultInv, ResultTypes, HaveOutcomes, Arrived, ArrivedEnded, ArrivedOnce, ReadsOn

\* awaitFirst and awaitAny, when a result is read.
LEMMA ReceiveStep == ASSUME ResultInv, Receive PROVE ResultInv'
<1>1. /\ UNCHANGED <<mode, pc, outcome>>
      /\ mode \in {"first", "any"} /\ result = NotYet
      /\ ch # <<>> /\ ch' = Tail(ch) /\ taken' = Append(taken, Head(ch))
      /\ result' = IF Settles(Head(ch)) THEN <<"branch", Head(ch)>> ELSE NotYet
  BY DEF Receive, branchVars, Channelled
<1>2. ch \in Seq(Branch) /\ taken \in Seq(Branch)
  BY DEF ResultInv, ResultTypes
<1>3. Arrived' = Arrived /\ taken' \in Seq(Branch) /\ ch' \in Seq(Branch)
  BY <1>1, <1>2, ReadKeepsArrived DEF Arrived
<1>4. ArrivedEnded' /\ ArrivedOnce'
  BY <1>1, <1>3 DEF ResultInv, ArrivedEnded, ArrivedOnce
<1>5. Len(taken') = Len(taken) + 1 /\ taken'[Len(taken) + 1] = Head(ch) /\ Len(taken) \in Nat
  BY <1>1, <1>2
<1>6. \A k \in 1..Len(taken') : k \in 1..Len(Arrived) /\ Arrived[k] = taken'[k]
  BY <1>2, <1>3 DEF Arrived
<1>7. Head(ch) \in Branch /\ pc[Head(ch)] = "ended" /\ outcome[Head(ch)] \in {"ok", "err"}
  <2>1. Head(ch) \in Branch
    BY <1>1, <1>2
  <2>2. pc[Head(ch)] = "ended"
    BY <1>5, <1>6 DEF ResultInv, ArrivedEnded
  <2> QED
    BY <2>1, <2>2 DEF ResultInv, HaveOutcomes
<1>8. \A k \in 1..Len(taken) : taken'[k] = taken[k] /\ outcome[taken[k]] = "err"
  BY <1>1, <1>2 DEF ResultInv, ReadsOn
<1>9. mode = "first" => taken' = <<Head(ch)>>
  BY <1>1, <1>2 DEF ResultInv, ReadsOn
<1>10. CASE Settles(Head(ch))
  <2>1. result' = <<"branch", Head(ch)>> /\ result'[2] = Head(ch) /\ result' # NotYet
    BY <1>1, <1>10 DEF NotYet
  <2>2. ASSUME mode = "any", outcome[Head(ch)] # "ok"
        PROVE  /\ \A i \in Branch : pc[i] = "ended" /\ outcome[i] = "err"
               /\ Head(ch) = taken'[N]
    <3>1. Len(taken) = N - 1
      BY <1>10, <2>2 DEF Settles
    <3>2. Len(taken') = N
      BY <1>5, <3>1, AwaitAssumption
    <3>3. \A k \in 1..N : /\ pc[taken'[k]] = "ended" /\ outcome[taken'[k]] = "err"
      <4> SUFFICES ASSUME NEW k \in 1..N
                   PROVE  pc[taken'[k]] = "ended" /\ outcome[taken'[k]] = "err"
        OBVIOUS
      <4>1. pc[taken'[k]] = "ended"
        BY <1>6, <3>2 DEF ResultInv, ArrivedEnded
      <4>2. CASE k = N
        BY <1>5, <1>7, <2>2, <3>1, <4>1, <4>2, AwaitAssumption
      <4>3. CASE k # N
        BY <1>8, <3>1, <4>1, <4>3, AwaitAssumption
      <4> QED
        BY <4>2, <4>3
    <3>4. \A j, k \in 1..N : taken'[j] = taken'[k] => j = k
      BY <1>6, <3>2 DEF ResultInv, ArrivedOnce
    <3>5. \A i \in Branch : \E k \in 1..N : taken'[k] = i
      BY <1>3, <3>2, <3>4, AllNamed
    <3> QED
      BY <1>5, <3>1, <3>3, <3>5, AwaitAssumption
  <2>3. Owed'
    BY <1>1, <1>7, <1>9, <2>1, <2>2 DEF Owed
  <2>4. ReadsOn'
    BY <2>1 DEF ReadsOn
  <2> QED
    BY <1>1, <1>3, <1>4, <2>3, <2>4 DEF ResultInv, ResultTypes, HaveOutcomes
<1>11. CASE ~Settles(Head(ch))
  <2>1. result' = NotYet /\ mode # "first" /\ outcome[Head(ch)] = "err"
    BY <1>1, <1>7, <1>11 DEF Settles
  <2>2. ReadsOn'
    BY <1>1, <1>5, <1>8, <2>1 DEF ReadsOn
  <2>3. Owed'
    BY <2>1 DEF Owed
  <2> QED
    BY <1>1, <1>3, <1>4, <2>2, <2>3 DEF ResultInv, ResultTypes, HaveOutcomes
<1> QED
  BY <1>10, <1>11

\* Every step keeps the invariant.
LEMMA ResultNextInv == ResultInv /\ [Next]_vars => ResultInv'
<1> SUFFICES ASSUME ResultInv, [Next]_vars PROVE ResultInv'
  OBVIOUS
<1>1. ASSUME NEW sharing \in BOOLEAN, MakeBranchForks(sharing) PROVE ResultInv'
  <2>1. /\ UNCHANGED <<mode, outcome, ch, taken>> /\ \A i \in Branch : pc[i] = "idle"
        /\ result = NotYet /\ result' \in {NotYet, Refused}
        /\ pc' = pc \/ pc' = [i \in Branch |-> "start"]
    BY <1>1 DEF MakeBranchForks
  <2>2. ch \in Seq(Branch) /\ taken \in Seq(Branch) /\ Arrived \in Seq(Branch)
    BY DEF ResultInv, ResultTypes, Arrived
  <2>3. Arrived' = Arrived /\ Len(Arrived) = 0
    <3>1. ASSUME Len(Arrived) # 0 PROVE FALSE
      <4>1. 1 \in 1..Len(Arrived) /\ Arrived[1] \in Branch
        BY <2>2, <3>1
      <4> QED
        BY <2>1, <4>1 DEF ResultInv, ArrivedEnded
    <3> QED
      BY <2>1, <3>1 DEF Arrived
  <2>4. ArrivedEnded' /\ ArrivedOnce' /\ Owed' /\ ReadsOn'
    BY <2>1, <2>3 DEF ArrivedEnded, ArrivedOnce, Owed, ReadsOn, ResultInv
  <2> QED
    BY <2>1, <2>4 DEF ResultInv, ResultTypes, HaveOutcomes
<1>2. ASSUME NEW i \in Branch,
             \/ StartCompiled(i) \/ StartInterpreted(i) \/ StartValue(i)
             \/ Output(i) \/ Bail(i)
             \/ \E o \in {"ok", "err"} : Finish(i, o)
             \/ Deliver(i)
      PROVE  ResultInv'
  BY <1>2, BranchResultStep
<1>3. CASE UNCHANGED vars
  BY <1>3 DEF vars, branchVars, ResultInv, ResultTypes, HaveOutcomes, Arrived, ArrivedEnded,
              ArrivedOnce, ReadsOn, Owed, Failed
<1> QED
  BY <1>1, <1>2, <1>3, ReturnAllStep, ReceiveStep DEF Next

(***************************************************************************)
(* Each mode gives what it promises, in whatever order the branches end    *)
(* and go on ending after await has returned: all fails with the lowest    *)
(* failing branch and only if one fails, any fails only if all fail, full  *)
(* gives the list, first and any the result of a branch that ended.        *)
(***************************************************************************)
THEOREM ModesKeepPromises == Spec => []ResultIsOwed
<1>1. ASSUME ResultInv PROVE ResultIsOwed
  <2> SUFFICES ASSUME result \notin {NotYet, Refused} PROVE ResultIsOwed!2
    BY DEF ResultIsOwed
  <2>1. Owed!2
    BY <1>1 DEF ResultInv, Owed
  <2>2. (\A i \in Branch : pc[i] = "ended" /\ outcome[i] = "err") => Failed = Branch
    BY DEF Failed
  <2> QED
    BY <2>1, <2>2
<1> QED
  BY ResultInitInv, ResultNextInv, <1>1, PTL DEF Spec

-----------------------------------------------------------------------------
(***************************************************************************)
(* Timers, for any timers, programs, ticks and cancels: at most one callback*)
(* of a timer begins after a cancel has returned, and only cancels which   *)
(* overlap panic.                                                          *)
(***************************************************************************)
CancelState ==
    {NotCancelling} \cup [step : {"stop", "close", "clear"}, timer : Timers]

TimersTypeOK ==
    /\ armed \in [Timers -> BOOLEAN]
    /\ pending \in [Timers -> BOOLEAN]
    /\ stage \in [Timers -> {"new", "idle", "received", "running", "ended"}]
    /\ handle \in [Timers -> BOOLEAN]
    /\ done \in [Timers -> BOOLEAN]
    /\ cancel \in [Goroutines -> CancelState]
    /\ crashed \in BOOLEAN
    /\ late \in [Timers -> Nat]
    /\ returned \subseteq Timers
    /\ failed \subseteq Goroutines
    /\ raced \subseteq Goroutines

\* A timer that was not started has no Go timer, no handle and no history.
Fresh ==
    \A t \in Timers : stage[t] = "new" =>
        /\ ~armed[t] /\ ~pending[t] /\ ~handle[t] /\ ~done[t]
        /\ t \notin returned
        /\ \A g \in Goroutines : ~Cancelling(g, t)

\* Past Stop, and for good once the handle is cleared, the Go timer is off.
StoppedIsOff ==
    \A t \in Timers :
        \/ ~handle[t]
        \/ \E g \in Goroutines : Cancelling(g, t) /\ cancel[g].step # "stop"
        => ~armed[t] /\ ~pending[t]

\* A cancel that has returned has left the handle cleared.
ReturnedIsCleared == \A t \in returned : ~handle[t]

\* The one late callback has begun, so none is due.
LateHasBegun ==
    \A t \in Timers : /\ t \notin returned => late[t] = 0
                      /\ late[t] > 0 => stage[t] # "received"

\* Two cancels of one timer under way at the same time are both on record.
OverlapsRecorded ==
    \A t \in Timers : \A g, h \in Goroutines :
        g # h /\ Cancelling(g, t) /\ Cancelling(h, t) => g \in raced

\* A cancel on its own finds the handle set and the channel open.
AloneIsSafe ==
    \A t \in Timers : \A g \in Goroutines :
        Cancelling(g, t) /\ g \notin raced =>
            /\ handle[t]
            /\ cancel[g].step # "clear" => ~done[t]

\* Between closing the channel and clearing the handle a cancel is under way.
ClosedIsBeingCleared ==
    \A t \in Timers : done[t] /\ handle[t] /\ ~crashed =>
        \E g \in Goroutines : Cancelling(g, t) /\ cancel[g].step = "clear"

LateInv == TimersTypeOK /\ Fresh /\ StoppedIsOff /\ ReturnedIsCleared /\ LateHasBegun
           /\ AtMostOneLate

PanicInv == OverlapsRecorded /\ AloneIsSafe /\ ClosedIsBeingCleared
            /\ OnlyOverlapsPanic

TimersInv == LateInv /\ PanicInv

\* Every invariant holds before the first timer is started.
LEMMA TimersInitInv == TimersInit => TimersInv
<1> SUFFICES ASSUME TimersInit PROVE TimersInv
  OBVIOUS
<1>1. TimersTypeOK
  BY DEF TimersInit, TimersTypeOK, CancelState, NotCancelling
<1>2. \A g \in Goroutines, t \in Timers : ~Cancelling(g, t)
  BY DEF TimersInit, Cancelling, NotCancelling
<1> QED
  BY <1>1, <1>2 DEF TimersInit, TimersInv, LateInv, PanicInv, Fresh, StoppedIsOff, ReturnedIsCleared,
     LateHasBegun, AtMostOneLate, OverlapsRecorded, AloneIsSafe,
     ClosedIsBeingCleared, OnlyOverlapsPanic

\* Steps that leave the cancels, the handles and the channels alone.
LEMMA TimerStep ==
    ASSUME TimersInv, NEW t \in Timers,
           Tick(t) \/ Take(t) \/ LoopEnd(t) \/ Fire(t) \/ Begin(t) \/ Return(t)
    PROVE  TimersInv'
<1>1. /\ UNCHANGED <<handle, done, cancel, cancels, failed, crashed, returned, raced>>
      /\ stage[t] # "new"
  BY DEF TimersInv, LateInv, TimersTypeOK, Fresh, Tick, Take, LoopEnd, Fire, Begin, Return,
         cancelVars, history
<1>2. TimersTypeOK'
  <2>1. TimersTypeOK
    BY DEF TimersInv, LateInv
  <2>2. CASE Tick(t)
    BY <1>1, <2>1, <2>2 DEF TimersTypeOK, Tick, history
  <2>3. CASE Take(t)
    BY <1>1, <2>1, <2>3 DEF TimersTypeOK, Take, history
  <2>4. CASE LoopEnd(t)
    BY <1>1, <2>1, <2>4 DEF TimersTypeOK, LoopEnd, history
  <2>5. CASE Fire(t)
    BY <1>1, <2>1, <2>5 DEF TimersTypeOK, Fire, history
  <2>6. CASE Begin(t)
    BY <1>1, <2>1, <2>6 DEF TimersTypeOK, Begin
  <2>7. CASE Return(t)
    BY <1>1, <2>1, <2>7 DEF TimersTypeOK, Return, history
  <2> QED BY <2>2, <2>3, <2>4, <2>5, <2>6, <2>7
<1>3. \A u \in Timers : /\ stage'[u] = "new" => stage[u] = "new"
                        /\ (armed'[u] => armed[u])
                        /\ (pending'[u] => pending[u] \/ armed[u])
  BY DEF TimersInv, LateInv, TimersTypeOK, Tick, Take, LoopEnd, Fire, Begin, Return
<1>4. \A u \in Timers, g \in Goroutines : Cancelling(g, u)' <=> Cancelling(g, u)
  BY <1>1 DEF Cancelling
<1>5. Fresh' /\ StoppedIsOff' /\ ReturnedIsCleared'
  BY <1>1, <1>2, <1>3, <1>4 DEF TimersInv, LateInv, TimersTypeOK, Fresh, StoppedIsOff, ReturnedIsCleared
<1>6. LateHasBegun' /\ AtMostOneLate'
  <2> SUFFICES ASSUME NEW u \in Timers
               PROVE  /\ u \notin returned' => late'[u] = 0
                      /\ late'[u] > 0 => stage'[u] # "received"
                      /\ late'[u] <= 1
    BY DEF LateHasBegun, AtMostOneLate
  <2>1. /\ late[u] \in Nat /\ (u \notin returned => late[u] = 0)
        /\ (late[u] > 0 => stage[u] # "received") /\ late[u] <= 1
        /\ (late[u] > 0 => ~armed[u] /\ ~pending[u])
    BY DEF TimersInv, LateInv, TimersTypeOK, LateHasBegun, AtMostOneLate, ReturnedIsCleared, StoppedIsOff
  <2>2. CASE Begin(t)
    BY <1>1, <2>1, <2>2 DEF Begin, TimersInv, LateInv, TimersTypeOK
  <2>3. CASE ~Begin(t)
    BY <1>1, <2>1, <2>3 DEF Tick, Take, LoopEnd, Fire, Return, TimersInv, LateInv, TimersTypeOK, history
  <2> QED BY <2>2, <2>3
<1>7. PanicInv'
  BY <1>1, <1>4 DEF TimersInv, PanicInv, OverlapsRecorded, AloneIsSafe, ClosedIsBeingCleared,
                    OnlyOverlapsPanic
<1> QED BY <1>2, <1>5, <1>6, <1>7 DEF TimersInv, LateInv

\* startInterval and doTimeout: the timer has no history yet.
LEMMA StartStep ==
    ASSUME TimersInv, NEW t \in Timers, Start(t)
    PROVE  TimersInv'
<1>1. /\ UNCHANGED <<pending, done, ticks, cancel, cancels, failed, crashed, late,
                     returned, raced>>
      /\ stage[t] = "new" /\ ~done[t] /\ ~pending[t] /\ t \notin returned
      /\ \A g \in Goroutines : ~Cancelling(g, t)
  BY DEF Start, cancelVars, history, TimersInv, LateInv, Fresh
<1>2. TimersTypeOK'
  BY <1>1 DEF TimersInv, LateInv, TimersTypeOK, Start
<1>3. /\ \A u \in Timers, g \in Goroutines : Cancelling(g, u)' <=> Cancelling(g, u)
      /\ \A u \in Timers : u # t => /\ handle'[u] = handle[u] /\ stage'[u] = stage[u]
                                    /\ armed'[u] = armed[u]
      /\ handle'[t] /\ stage'[t] = "idle"
  BY <1>1 DEF Cancelling, Start, TimersInv, LateInv, TimersTypeOK
<1>4. LateInv'
  BY <1>1, <1>2, <1>3 DEF TimersInv, LateInv, TimersTypeOK, Fresh, StoppedIsOff, ReturnedIsCleared,
                          LateHasBegun, AtMostOneLate
<1>5. PanicInv'
  BY <1>1, <1>2, <1>3 DEF TimersInv, LateInv, TimersTypeOK, PanicInv, OverlapsRecorded, AloneIsSafe,
                          ClosedIsBeingCleared, OnlyOverlapsPanic
<1> QED BY <1>4, <1>5 DEF TimersInv

\* A cancel begins, or finds that the timer has been cancelled.
LEMMA CancelBegins ==
    ASSUME TimersInv, NEW g \in Goroutines, NEW t \in Timers, Cancel(g, t)
    PROVE  TimersInv'
<1>1. /\ UNCHANGED <<armed, pending, stage, handle, done, ticks, failed, crashed, late>>
      /\ cancel[g] = NotCancelling /\ stage[t] # "new"
  BY DEF Cancel, timerVars
<1>2. CASE ~handle[t]
  <2>1. UNCHANGED <<cancel, raced>> /\ returned' = returned \cup {t}
    BY <1>2 DEF Cancel
  <2>2. TimersTypeOK'
    BY <1>1, <2>1 DEF TimersInv, LateInv, TimersTypeOK
  <2>3. \A u \in Timers, h \in Goroutines : Cancelling(h, u)' <=> Cancelling(h, u)
    BY <2>1 DEF Cancelling
  <2>4. LateInv'
    BY <1>1, <1>2, <2>1, <2>2, <2>3 DEF TimersInv, LateInv, Fresh, StoppedIsOff, ReturnedIsCleared,
                                        LateHasBegun, AtMostOneLate
  <2>5. PanicInv'
    BY <1>1, <2>1, <2>3 DEF TimersInv, PanicInv, OverlapsRecorded, AloneIsSafe,
                            ClosedIsBeingCleared, OnlyOverlapsPanic
  <2> QED BY <2>4, <2>5 DEF TimersInv
<1>3. CASE handle[t]
  <2> DEFINE others == {h \in Goroutines : Cancelling(h, t)}
  <2>1. /\ cancel' = [cancel EXCEPT ![g] = [step |-> "stop", timer |-> t]]
        /\ raced' = IF others = {} THEN raced ELSE raced \cup others \cup {g}
        /\ UNCHANGED returned
    BY <1>3 DEF Cancel
  <2>2. TimersTypeOK'
    BY <1>1, <2>1 DEF TimersInv, LateInv, TimersTypeOK, CancelState
  <2>3. /\ cancel'[g] = [step |-> "stop", timer |-> t]
        /\ \A h \in Goroutines : h # g => cancel'[h] = cancel[h]
        /\ raced \subseteq raced'
    BY <2>1 DEF TimersInv, LateInv, TimersTypeOK
  <2>4. /\ \A u \in Timers : Cancelling(g, u)' <=> u = t
        /\ \A u \in Timers : ~Cancelling(g, u)
        /\ \A u \in Timers, h \in Goroutines :
              h # g => (Cancelling(h, u)' <=> Cancelling(h, u))
    BY <1>1, <2>3 DEF Cancelling, NotCancelling
  <2>5. LateInv'
    BY <1>1, <1>3, <2>1, <2>2, <2>3, <2>4
       DEF TimersInv, LateInv, Fresh, StoppedIsOff, ReturnedIsCleared, LateHasBegun, AtMostOneLate
  <2>6. OverlapsRecorded'
    <3> SUFFICES ASSUME NEW u \in Timers, NEW h \in Goroutines, NEW k \in Goroutines,
                        h # k, Cancelling(h, u)', Cancelling(k, u)'
                 PROVE  h \in raced'
      BY DEF OverlapsRecorded
    <3>1. CASE h # g /\ k # g
      BY <3>1, <2>3, <2>4 DEF TimersInv, PanicInv, OverlapsRecorded
    <3>2. CASE h = g
      <4>1. k \in others /\ u = t
        BY <3>2, <2>4
      <4> QED BY <4>1, <3>2, <2>1
    <3>3. CASE k = g
      <4>1. h \in others
        BY <3>3, <2>4
      <4> QED BY <4>1, <2>1
    <3> QED BY <3>1, <3>2, <3>3
  <2>7. AloneIsSafe'
    <3> SUFFICES ASSUME NEW u \in Timers, NEW h \in Goroutines,
                        Cancelling(h, u)', h \notin raced'
                 PROVE  handle'[u] /\ (cancel'[h].step # "clear" => ~done'[u])
      BY DEF AloneIsSafe
    <3>1. CASE h # g
      BY <3>1, <1>1, <2>3, <2>4 DEF TimersInv, PanicInv, AloneIsSafe
    <3>2. CASE h = g
      <4>1. u = t /\ others = {}
        BY <3>2, <2>1, <2>4
      <4>2. ~crashed
        BY DEF Cancel
      <4>3. ~done[t]
        BY <1>3, <4>1, <4>2 DEF TimersInv, PanicInv, ClosedIsBeingCleared
      <4> QED BY <4>1, <4>3, <1>1, <1>3
    <3> QED BY <3>1, <3>2
  <2>8. ClosedIsBeingCleared' /\ OnlyOverlapsPanic'
    BY <1>1, <2>3, <2>4 DEF TimersInv, PanicInv, ClosedIsBeingCleared, OnlyOverlapsPanic, Cancelling, NotCancelling
  <2> QED BY <2>5, <2>6, <2>7, <2>8 DEF TimersInv, PanicInv
<1> QED BY <1>2, <1>3

\* A panic takes the goroutine out of its cancel and changes no timer.
LEMMA PanicStep ==
    ASSUME TimersInv, NEW g \in Goroutines, NEW t \in Timers, Cancelling(g, t), g \in raced,
           cancel[g].step # "clear", ~crashed, Panic(g)
    PROVE  TimersInv'
<1>1. /\ UNCHANGED <<armed, pending, stage, handle, done, ticks, cancels, late, returned, raced>>
      /\ cancel' = [cancel EXCEPT ![g] = NotCancelling]
      /\ failed' = failed \cup {g} /\ crashed' = (g \in Timers)
  BY DEF Panic, timerVars, history
<1>2. TimersTypeOK'
  BY <1>1 DEF TimersInv, LateInv, TimersTypeOK, CancelState
<1>3. /\ cancel'[g] = NotCancelling
      /\ \A h \in Goroutines : h # g => cancel'[h] = cancel[h]
  BY <1>1 DEF TimersInv, LateInv, TimersTypeOK
<1>4. /\ \A u \in Timers : ~Cancelling(g, u)'
      /\ \A u \in Timers, h \in Goroutines : h # g => (Cancelling(h, u)' <=> Cancelling(h, u))
  BY <1>3 DEF Cancelling, NotCancelling
<1>5. LateInv'
  BY <1>1, <1>2, <1>3, <1>4
     DEF TimersInv, LateInv, Fresh, StoppedIsOff, ReturnedIsCleared, LateHasBegun, AtMostOneLate
<1>6. OverlapsRecorded' /\ AloneIsSafe' /\ OnlyOverlapsPanic'
  BY <1>1, <1>3, <1>4 DEF TimersInv, PanicInv, OverlapsRecorded, AloneIsSafe, OnlyOverlapsPanic
<1>7. ClosedIsBeingCleared'
  <2> SUFFICES ASSUME NEW u \in Timers, done[u], handle[u], ~crashed'
               PROVE  \E h \in Goroutines : Cancelling(h, u)' /\ cancel'[h].step = "clear"
    BY <1>1 DEF ClosedIsBeingCleared
  <2>1. PICK h \in Goroutines : Cancelling(h, u) /\ cancel[h].step = "clear"
    BY DEF TimersInv, PanicInv, ClosedIsBeingCleared
  <2> QED BY <2>1, <1>3, <1>4
<1> QED BY <1>5, <1>6, <1>7 DEF TimersInv, PanicInv

\* A cancel names a timer that was started.
LEMMA CancelNames ==
    ASSUME TimersInv, NEW g \in Goroutines, cancel[g].step # "none"
    PROVE  /\ cancel[g].timer \in Timers
           /\ cancel[g] = [step |-> cancel[g].step, timer |-> cancel[g].timer]
           /\ Cancelling(g, cancel[g].timer)
           /\ stage[cancel[g].timer] # "new"
<1>1. cancel[g] \in [step : {"stop", "close", "clear"}, timer : Timers]
  BY DEF TimersInv, LateInv, TimersTypeOK, CancelState, NotCancelling
<1> QED BY <1>1 DEF TimersInv, LateInv, Fresh, Cancelling

\* A step of a cancel that stays under way: g goes on to `step` with timer t.
LEMMA StepToFacts ==
    ASSUME TimersInv, NEW g \in Goroutines, cancel[g].step # "none",
           NEW step \in {"stop", "close", "clear"}, StepTo(g, step)
    PROVE  /\ cancel' \in [Goroutines -> CancelState]
           /\ cancel'[g].step = step
           /\ cancel'[g].timer = cancel[g].timer
           /\ \A h \in Goroutines : h # g => cancel'[h] = cancel[h]
           /\ \A u \in Timers, h \in Goroutines : Cancelling(h, u)' <=> Cancelling(h, u)
<1>1. cancel[g] \in [step : {"stop", "close", "clear"}, timer : Timers]
  BY DEF TimersInv, LateInv, TimersTypeOK, CancelState, NotCancelling
<1>2. cancel' = [cancel EXCEPT ![g] = [cancel[g] EXCEPT !.step = step]]
  BY DEF StepTo
<1>3. [cancel[g] EXCEPT !.step = step] = [step |-> step, timer |-> cancel[g].timer]
  BY <1>1
<1>4. cancel' \in [Goroutines -> CancelState]
  BY <1>1, <1>2, <1>3 DEF TimersInv, LateInv, TimersTypeOK, CancelState
<1>5. /\ cancel'[g] = [step |-> step, timer |-> cancel[g].timer]
      /\ \A h \in Goroutines : h # g => cancel'[h] = cancel[h]
  BY <1>2, <1>3 DEF TimersInv, LateInv, TimersTypeOK
<1>6. \A u \in Timers, h \in Goroutines : Cancelling(h, u)' <=> Cancelling(h, u)
  BY <1>5 DEF Cancelling
<1> QED BY <1>4, <1>5, <1>6

\* Stop: either the field is still set, or the cancel overlaps another.
LEMMA TimerStopStep ==
    ASSUME TimersInv, NEW g \in Goroutines, StopTimer(g)
    PROVE  TimersInv'
<1> DEFINE t == cancel[g].timer
<1>1. ~crashed /\ cancel[g].step = "stop"
  BY DEF StopTimer
<1>2. t \in Timers /\ Cancelling(g, t) /\ stage[t] # "new"
  BY <1>1, CancelNames
<1>3. CASE ~handle[t] /\ Panic(g)
  <2>1. g \in raced
    BY <1>2, <1>3 DEF TimersInv, PanicInv, AloneIsSafe
  <2> QED BY <1>1, <1>2, <1>3, <2>1, PanicStep
<1>4. CASE /\ handle[t]
           /\ armed' = [armed EXCEPT ![t] = FALSE]
           /\ pending' = [pending EXCEPT ![t] = FALSE]
           /\ StepTo(g, IF t \in Intervals THEN "close" ELSE "clear")
           /\ UNCHANGED <<stage, handle, done, ticks, cancels, failed, crashed, history>>
  <2>1. PICK step \in {"close", "clear"} : StepTo(g, step)
    BY <1>4
  <2>2. /\ cancel' \in [Goroutines -> CancelState]
        /\ cancel'[g].step = step
        /\ \A h \in Goroutines : h # g => cancel'[h] = cancel[h]
        /\ \A u \in Timers, h \in Goroutines : Cancelling(h, u)' <=> Cancelling(h, u)
    BY <1>1, <2>1, StepToFacts
  <2>3. TimersTypeOK'
    BY <1>4, <2>2 DEF TimersInv, LateInv, TimersTypeOK, history
  <2>4. /\ \A u \in Timers : u # t => armed'[u] = armed[u] /\ pending'[u] = pending[u]
        /\ ~armed'[t] /\ ~pending'[t]
    BY <1>2, <1>4 DEF TimersInv, LateInv, TimersTypeOK
  <2>5. Fresh' /\ StoppedIsOff'
    <3>1. Fresh'
      BY <1>2, <1>4, <2>2, <2>4 DEF TimersInv, LateInv, Fresh, history
    <3>2. StoppedIsOff'
      <4> SUFFICES ASSUME NEW u \in Timers,
                          \/ ~handle'[u]
                          \/ \E h \in Goroutines : Cancelling(h, u)' /\ cancel'[h].step # "stop"
                   PROVE  ~armed'[u] /\ ~pending'[u]
        BY DEF StoppedIsOff
      <4>1. CASE u = t
        BY <4>1, <2>4
      <4>2. CASE u # t
        <5>1. ~Cancelling(g, u)
          BY <4>2 DEF Cancelling
        <5> QED BY <4>2, <5>1, <1>4, <2>2, <2>4 DEF TimersInv, LateInv, StoppedIsOff
      <4> QED BY <4>1, <4>2
    <3> QED BY <3>1, <3>2
  <2>6. ReturnedIsCleared' /\ LateHasBegun' /\ AtMostOneLate'
    BY <1>4 DEF TimersInv, LateInv, ReturnedIsCleared, LateHasBegun, AtMostOneLate, history
  <2>7. OverlapsRecorded' /\ AloneIsSafe' /\ OnlyOverlapsPanic'
    BY <1>1, <1>4, <2>2 DEF TimersInv, PanicInv, OverlapsRecorded, AloneIsSafe, OnlyOverlapsPanic,
                            history
  <2>8. ClosedIsBeingCleared'
    BY <1>1, <1>4, <2>2 DEF TimersInv, PanicInv, ClosedIsBeingCleared, history
  <2> QED BY <2>3, <2>5, <2>6, <2>7, <2>8 DEF TimersInv, LateInv, PanicInv
<1> QED BY <1>3, <1>4 DEF StopTimer

\* close(Done): either the channel is open, or the cancel overlaps another.
LEMMA CloseStep ==
    ASSUME TimersInv, NEW g \in Goroutines, CloseDone(g)
    PROVE  TimersInv'
<1> DEFINE t == cancel[g].timer
<1>1. ~crashed /\ cancel[g].step = "close"
  BY DEF CloseDone
<1>2. t \in Timers /\ Cancelling(g, t) /\ stage[t] # "new"
  BY <1>1, CancelNames
<1>3. CASE done[t] /\ Panic(g)
  <2>1. g \in raced
    BY <1>1, <1>2, <1>3 DEF TimersInv, PanicInv, AloneIsSafe
  <2> QED BY <1>1, <1>2, <1>3, <2>1, PanicStep
<1>4. CASE /\ ~done[t]
           /\ done' = [done EXCEPT ![t] = TRUE]
           /\ StepTo(g, "clear")
           /\ UNCHANGED <<armed, pending, stage, handle, ticks, cancels, failed, crashed,
                          history>>
  <2>1. /\ cancel' \in [Goroutines -> CancelState]
        /\ cancel'[g].step = "clear"
        /\ \A h \in Goroutines : h # g => cancel'[h] = cancel[h]
        /\ \A u \in Timers, h \in Goroutines : Cancelling(h, u)' <=> Cancelling(h, u)
    BY <1>1, <1>4, StepToFacts
  <2>2. \A u \in Timers : u # t => done'[u] = done[u]
    BY <1>4 DEF TimersInv, LateInv, TimersTypeOK
  <2>3. TimersTypeOK'
    BY <1>4, <2>1 DEF TimersInv, LateInv, TimersTypeOK, history
  <2>4. Fresh' /\ StoppedIsOff' /\ ReturnedIsCleared' /\ LateHasBegun' /\ AtMostOneLate'
    BY <1>1, <1>2, <1>4, <2>1, <2>2
       DEF TimersInv, LateInv, Fresh, StoppedIsOff, ReturnedIsCleared, LateHasBegun,
           AtMostOneLate, history
  <2>5. OverlapsRecorded' /\ OnlyOverlapsPanic'
    BY <1>4, <2>1 DEF TimersInv, PanicInv, OverlapsRecorded, OnlyOverlapsPanic, history
  <2>6. AloneIsSafe'
    <3> SUFFICES ASSUME NEW u \in Timers, NEW h \in Goroutines,
                        Cancelling(h, u)', h \notin raced'
                 PROVE  handle'[u] /\ (cancel'[h].step # "clear" => ~done'[u])
      BY DEF AloneIsSafe
    <3>1. Cancelling(h, u) /\ h \notin raced /\ handle[u]
      BY <1>4, <2>1 DEF history, TimersInv, PanicInv, AloneIsSafe
    <3>2. CASE h = g
      BY <3>1, <3>2, <1>4, <2>1
    <3>3. CASE h # g
      <4>1. u # t
        BY <3>1, <3>3, <1>2 DEF TimersInv, PanicInv, OverlapsRecorded
      <4> QED BY <3>1, <3>3, <4>1, <1>4, <2>1, <2>2 DEF TimersInv, PanicInv, AloneIsSafe
    <3> QED BY <3>2, <3>3
  <2>7. ClosedIsBeingCleared'
    <3> SUFFICES ASSUME NEW u \in Timers, done'[u], handle'[u], ~crashed'
                 PROVE  \E h \in Goroutines : Cancelling(h, u)' /\ cancel'[h].step = "clear"
      BY DEF ClosedIsBeingCleared
    <3>1. CASE u = t
      BY <3>1, <1>2, <2>1
    <3>2. CASE u # t
      BY <3>2, <1>1, <1>4, <2>1, <2>2 DEF TimersInv, PanicInv, ClosedIsBeingCleared
    <3> QED BY <3>1, <3>2
  <2> QED BY <2>3, <2>4, <2>5, <2>6, <2>7 DEF TimersInv, LateInv, PanicInv
<1> QED BY <1>3, <1>4 DEF CloseDone

\* The handle is cleared; a cancel of the timer still under way is on record.
LEMMA ClearStep ==
    ASSUME TimersInv, NEW g \in Goroutines, ClearHandle(g)
    PROVE  TimersInv'
<1> DEFINE t == cancel[g].timer
<1>1. /\ ~crashed /\ cancel[g].step = "clear"
      /\ handle' = [handle EXCEPT ![t] = FALSE]
      /\ cancel' = [cancel EXCEPT ![g] = NotCancelling]
      /\ returned' = returned \cup {t}
      /\ UNCHANGED <<armed, pending, stage, done, ticks, cancels, failed, crashed, late, raced>>
  BY DEF ClearHandle
<1>2. t \in Timers /\ Cancelling(g, t) /\ stage[t] # "new"
  BY <1>1, CancelNames
<1>3. /\ ~handle'[t]
      /\ \A u \in Timers : u # t => handle'[u] = handle[u]
  BY <1>1, <1>2 DEF TimersInv, LateInv, TimersTypeOK
<1>4. TimersTypeOK'
  BY <1>1, <1>2 DEF TimersInv, LateInv, TimersTypeOK, CancelState
<1>5. /\ cancel'[g] = NotCancelling
      /\ \A h \in Goroutines : h # g => cancel'[h] = cancel[h]
  BY <1>1 DEF TimersInv, LateInv, TimersTypeOK
<1>6. /\ \A u \in Timers : ~Cancelling(g, u)'
      /\ \A u \in Timers, h \in Goroutines : h # g => (Cancelling(h, u)' <=> Cancelling(h, u))
      /\ \A u \in Timers : u # t => ~Cancelling(g, u)
  BY <1>5 DEF Cancelling, NotCancelling
<1>7. ~armed[t] /\ ~pending[t]
  BY <1>1, <1>2 DEF TimersInv, LateInv, StoppedIsOff
<1>8. Fresh'
  BY <1>1, <1>2, <1>3, <1>6 DEF TimersInv, LateInv, Fresh
<1>9. StoppedIsOff'
  BY <1>1, <1>3, <1>5, <1>6, <1>7 DEF TimersInv, LateInv, StoppedIsOff
<1>10. ReturnedIsCleared' /\ LateHasBegun' /\ AtMostOneLate'
  BY <1>1, <1>2, <1>3 DEF TimersInv, LateInv, TimersTypeOK, ReturnedIsCleared, LateHasBegun, AtMostOneLate
<1>11. OverlapsRecorded' /\ OnlyOverlapsPanic'
  BY <1>1, <1>6 DEF TimersInv, PanicInv, OverlapsRecorded, OnlyOverlapsPanic
<1>12. AloneIsSafe'
  <2> SUFFICES ASSUME NEW u \in Timers, NEW h \in Goroutines, Cancelling(h, u)', h \notin raced'
               PROVE  handle'[u] /\ (cancel'[h].step # "clear" => ~done'[u])
    BY DEF AloneIsSafe
  <2>1. h # g /\ Cancelling(h, u) /\ h \notin raced
    BY <1>1, <1>6
  <2>2. u # t
    BY <2>1, <1>2 DEF TimersInv, PanicInv, OverlapsRecorded
  <2> QED BY <2>1, <2>2, <1>1, <1>3, <1>5 DEF TimersInv, PanicInv, AloneIsSafe
<1>13. ClosedIsBeingCleared'
  <2> SUFFICES ASSUME NEW u \in Timers, done'[u], handle'[u], ~crashed'
               PROVE  \E h \in Goroutines : Cancelling(h, u)' /\ cancel'[h].step = "clear"
    BY DEF ClosedIsBeingCleared
  <2>1. u # t
    BY <1>3
  <2>2. PICK h \in Goroutines : Cancelling(h, u) /\ cancel[h].step = "clear"
    BY <2>1, <1>1, <1>3 DEF TimersInv, PanicInv, ClosedIsBeingCleared
  <2>3. h # g
    BY <2>1, <2>2, <1>6
  <2> QED BY <2>2, <2>3, <1>5, <1>6
<1> QED BY <1>4, <1>8, <1>9, <1>10, <1>11, <1>12, <1>13 DEF TimersInv, LateInv, PanicInv

\* Every step keeps the invariants.
LEMMA TimersNextInv == TimersInv /\ [TimersNext]_timersVars => TimersInv'
<1> SUFFICES ASSUME TimersInv, [TimersNext]_timersVars PROVE TimersInv'
  OBVIOUS
<1>1. ASSUME NEW t \in Timers,
             Tick(t) \/ Take(t) \/ LoopEnd(t) \/ Fire(t) \/ Begin(t) \/ Return(t)
      PROVE  TimersInv'
  BY <1>1, TimerStep
<1>2. ASSUME NEW t \in Timers, Start(t) PROVE TimersInv'
  BY <1>2, StartStep
<1>3. ASSUME NEW g \in Goroutines, NEW t \in Timers, Cancel(g, t) PROVE TimersInv'
  BY <1>3, CancelBegins
<1>4. ASSUME NEW g \in Goroutines, StopTimer(g) PROVE TimersInv'
  BY <1>4, TimerStopStep
<1>5. ASSUME NEW g \in Goroutines, CloseDone(g) PROVE TimersInv'
  BY <1>5, CloseStep
<1>6. ASSUME NEW g \in Goroutines, ClearHandle(g) PROVE TimersInv'
  BY <1>6, ClearStep
<1>7. CASE UNCHANGED timersVars
  BY <1>7 DEF timersVars, TimersInv, LateInv, PanicInv, TimersTypeOK, Fresh, StoppedIsOff, ReturnedIsCleared,
              LateHasBegun, AtMostOneLate, OverlapsRecorded, AloneIsSafe,
              ClosedIsBeingCleared, OnlyOverlapsPanic, Cancelling
<1> QED BY <1>1, <1>2, <1>3, <1>4, <1>5, <1>6, <1>7 DEF TimersNext

(***************************************************************************)
(* Once a cancel-interval or cancel-timeout has returned, at most the one  *)
(* callback that was already due begins, whoever else cancels the timer.   *)
(***************************************************************************)
THEOREM LateCallbacks == TimersSpec => []AtMostOneLate
<1>1. TimersInv => AtMostOneLate
  BY DEF TimersInv, LateInv
<1> QED BY TimersInitInv, TimersNextInv, <1>1, PTL DEF TimersSpec

(***************************************************************************)
(* The cancel words panic only in goroutines whose cancel overlapped       *)
(* another of the same timer: never for a single caller, however often it  *)
(* cancels and from whichever callback.                                    *)
(***************************************************************************)
THEOREM PanicsOverlap == TimersSpec => []OnlyOverlapsPanic
<1>1. TimersInv => OnlyOverlapsPanic
  BY DEF TimersInv, PanicInv
<1> QED BY TimersInitInv, TimersNextInv, <1>1, PTL DEF TimersSpec

-----------------------------------------------------------------------------
(***************************************************************************)
(* Watch, for any number of layers of either kind, any buffer and any      *)
(* number of events: no event is sent on a closed stream.                  *)
(***************************************************************************)
Shape ==
    /\ DOMAIN stream = Layers \cup {"out"}
    /\ DOMAIN holding = Senders
    /\ stopping \in Nat

\* The stream of a layer is closed only between two sends of its source.
SourceIsIdle == \A l \in Layers : l \in closed => Idle(Source(l))

\* out is closed when all the forwarders have signalled.
OutClosedLast == "out" \in closed => signalled = Layers

\* A forwarder that has signalled has nothing left and will get nothing more.
DoneIsDrained ==
    \A l \in signalled : l \in Layers /\ l \in closed /\ stream[l] = <<>> /\ Idle(Forward(l))

\* stop has passed every layer whose source or stream is closed.
StopHasPassed ==
    \A i \in 1..Len(StopOrder) :
        StopOrder[i] \in closed \/ StopOrder[i] \in ended => i < stopping

WatchInv == Shape /\ SourceIsIdle /\ OutClosedLast /\ DoneIsDrained /\ StopHasPassed

\* Sources and forwarders are different senders, one of each per layer.
LEMMA SenderFacts ==
    /\ \A l \in Layers : /\ Source(l) \in Senders /\ Forward(l) \in Senders
                         /\ Target(Source(l)) = l /\ Target(Forward(l)) = "out"
                         /\ l # "out"
    /\ \A l, m \in Layers : /\ Source(l) # Forward(m)
                            /\ Source(l) = Source(m) => l = m
                            /\ Forward(l) = Forward(m) => l = m
    /\ \A s \in Senders : \E l \in Layers : s = Source(l) \/ s = Forward(l)
BY WatchAssumption DEF Source, Forward, Senders, Target

\* The invariant is what the property needs.
LEMMA InvSafe == WatchInv => NoSendOnClosed
<1> SUFFICES ASSUME WatchInv PROVE NoSendOnClosed
  OBVIOUS
<1>1. ASSUME NEW s \in Senders, Target(s) \in closed PROVE Idle(s)
  <2>1. PICK l \in Layers : s = Source(l) \/ s = Forward(l)
    BY SenderFacts
  <2>2. CASE s = Source(l)
    BY <1>1, <2>2, SenderFacts DEF WatchInv, SourceIsIdle
  <2>3. CASE s = Forward(l)
    <3>1. "out" \in closed
      BY <1>1, <2>3, SenderFacts
    <3> QED BY <2>3, <3>1 DEF WatchInv, OutClosedLast, DoneIsDrained
  <2> QED BY <2>1, <2>2, <2>3
<1>2. "out" \in closed => \A l \in Layers : stream[l] = <<>> /\ l \in closed
  BY DEF WatchInv, OutClosedLast, DoneIsDrained
<1> QED BY <1>1, <1>2 DEF NoSendOnClosed

\* It holds before anything is sent.
LEMMA WatchInitInv == WatchInit => WatchInv
BY DEF WatchInit, WatchInv, Shape, SourceIsIdle, OutClosedLast, DoneIsDrained, StopHasPassed, Idle

\* A sender sends or gives up: its stream is open, so its receiver is not done.
LEMMA SendStep ==
    ASSUME WatchInv, NEW s \in Senders, SendMarker(s) \/ SendEvent(s)
    PROVE  WatchInv'
<1>1. /\ UNCHANGED <<closed, stopping, ended, signalled>>
      /\ ~Idle(s)
      /\ DOMAIN stream' = DOMAIN stream
      /\ \A c \in DOMAIN stream : c # Target(s) => stream'[c] = stream[c]
      /\ DOMAIN holding' = DOMAIN holding
      /\ \A r \in DOMAIN holding : holding'[r] = holding[r] \/ holding'[r] = <<>>
  BY DEF SendMarker, SendEvent, WatchInv, Shape
<1>2. \A r \in Senders : Idle(r) => Idle(r)'
  BY <1>1 DEF Idle, WatchInv, Shape
<1>3. Target(s) \notin closed
  BY <1>1, InvSafe DEF NoSendOnClosed
<1>4. Shape'
  BY <1>1 DEF WatchInv, Shape
<1>5. SourceIsIdle' /\ OutClosedLast' /\ StopHasPassed'
  BY <1>1, <1>2, SenderFacts DEF WatchInv, SourceIsIdle, OutClosedLast, StopHasPassed
<1>6. DoneIsDrained'
  BY <1>1, <1>2, <1>3, SenderFacts DEF WatchInv, Shape, DoneIsDrained
<1> QED BY <1>4, <1>5, <1>6 DEF WatchInv

\* A layer reports a change: its source becomes busy while its stream is open.
LEMMA EmitStep ==
    ASSUME WatchInv, NEW l \in Layers, Emit(l)
    PROVE  WatchInv'
<1>1. /\ UNCHANGED <<stream, closed, stopping, ended, signalled>>
      /\ l \notin closed
      /\ DOMAIN holding' = DOMAIN holding
      /\ \A r \in DOMAIN holding : r # Source(l) => holding'[r] = holding[r]
  BY DEF Emit
<1>2. \A r \in Senders : r # Source(l) /\ Idle(r) => Idle(r)'
  BY <1>1 DEF Idle, WatchInv, Shape
<1>3. Shape'
  BY <1>1 DEF WatchInv, Shape
<1>4. SourceIsIdle' /\ OutClosedLast' /\ StopHasPassed'
  BY <1>1, <1>2, SenderFacts DEF WatchInv, SourceIsIdle, OutClosedLast, StopHasPassed
<1>5. DoneIsDrained'
  BY <1>1, <1>2, SenderFacts DEF WatchInv, DoneIsDrained
<1> QED BY <1>3, <1>4, <1>5 DEF WatchInv

\* A forwarder takes an event: there is one, so it has not signalled.
LEMMA ForwardReceiveStep ==
    ASSUME WatchInv, NEW l \in Layers, ForwardReceive(l)
    PROVE  WatchInv'
<1>1. /\ UNCHANGED <<closed, stopping, ended, signalled>>
      /\ stream[l] # <<>>
      /\ DOMAIN stream' = DOMAIN stream
      /\ \A c \in DOMAIN stream : c # l => stream'[c] = stream[c]
      /\ DOMAIN holding' = DOMAIN holding
      /\ \A r \in DOMAIN holding : r # Forward(l) => holding'[r] = holding[r]
  BY DEF ForwardReceive
<1>2. l \notin signalled
  BY <1>1 DEF WatchInv, DoneIsDrained
<1>3. \A r \in Senders : r # Forward(l) /\ Idle(r) => Idle(r)'
  BY <1>1 DEF Idle, WatchInv, Shape
<1>4. Shape'
  BY <1>1 DEF WatchInv, Shape
<1>5. SourceIsIdle' /\ OutClosedLast' /\ StopHasPassed'
  BY <1>1, <1>3, SenderFacts DEF WatchInv, SourceIsIdle, OutClosedLast, StopHasPassed
<1>6. DoneIsDrained'
  BY <1>1, <1>2, <1>3, SenderFacts DEF WatchInv, Shape, DoneIsDrained
<1> QED BY <1>4, <1>5, <1>6 DEF WatchInv

\* A forwarder signals: its stream is closed and drained.
LEMMA ForwardEndStep ==
    ASSUME WatchInv, NEW l \in Layers, ForwardEnd(l)
    PROVE  WatchInv'
<1>1. /\ UNCHANGED <<closed, holding, stopping, ended>>
      /\ l \in closed /\ stream[l] = <<>> /\ Idle(Forward(l)) /\ l \notin signalled
      /\ signalled' = signalled \cup {l}
      /\ DOMAIN stream' = DOMAIN stream
      /\ \A c \in DOMAIN stream : c # "out" => stream'[c] = stream[c]
  BY DEF ForwardEnd
<1>2. \A r \in Senders : Idle(r)' <=> Idle(r)
  BY <1>1 DEF Idle
<1>3. Shape'
  BY <1>1 DEF WatchInv, Shape
<1>4. SourceIsIdle' /\ OutClosedLast' /\ StopHasPassed'
  BY <1>1, <1>2, SenderFacts DEF WatchInv, SourceIsIdle, OutClosedLast, StopHasPassed
<1>5. DoneIsDrained'
  BY <1>1, <1>2, SenderFacts DEF WatchInv, Shape, DoneIsDrained
<1> QED BY <1>3, <1>4, <1>5 DEF WatchInv

\* The stream of a layer is closed, with at most a last marker on it.
LEMMA CloseLayer ==
    ASSUME WatchInv, NEW l \in Layers, l \notin closed, Idle(Source(l)),
           closed' = closed \cup {l},
           stream' = [stream EXCEPT ![l] = Flushed(Source(l))],
           UNCHANGED <<holding, signalled>>
    PROVE  /\ DOMAIN stream' = Layers \cup {"out"}
           /\ DOMAIN holding' = Senders
           /\ SourceIsIdle' /\ OutClosedLast' /\ DoneIsDrained'
<1>1. /\ DOMAIN stream' = DOMAIN stream
      /\ \A c \in DOMAIN stream : c # l => stream'[c] = stream[c]
      /\ \A r \in Senders : Idle(r)' <=> Idle(r)
  BY DEF Idle
<1>2. l \notin signalled
  BY DEF WatchInv, DoneIsDrained
<1>3. SourceIsIdle' /\ OutClosedLast'
  BY <1>1, SenderFacts DEF WatchInv, SourceIsIdle, OutClosedLast
<1>4. DoneIsDrained'
  BY <1>1, <1>2, SenderFacts DEF WatchInv, Shape, DoneIsDrained
<1> QED BY <1>1, <1>3, <1>4 DEF WatchInv, Shape

\* stop releases the next layer, which nothing has closed before.
LEMMA StopStep ==
    ASSUME WatchInv, StopNext
    PROVE  WatchInv'
<1> DEFINE l == StopOrder[stopping]
<1>1. /\ stopping \in 1..Len(StopOrder) /\ stopping' = stopping + 1
      /\ UNCHANGED <<holding, signalled>>
  BY DEF StopNext
<1>2. l \in Layers /\ l \notin closed
  BY <1>1, WatchAssumption DEF Layers, WatchInv, StopHasPassed, Shape
<1>3. \A i \in 1..Len(StopOrder) : StopOrder[i] = l => i < stopping'
  BY <1>1, WatchAssumption
<1>4. \A i \in 1..Len(StopOrder) : i < stopping => i < stopping'
  BY <1>1, WatchAssumption
<1>5. CASE /\ Idle(Source(l)) /\ closed' = closed \cup {l}
           /\ stream' = [stream EXCEPT ![l] = Flushed(Source(l))]
           /\ UNCHANGED ended
  <2>1. /\ DOMAIN stream' = Layers \cup {"out"}
        /\ DOMAIN holding' = Senders
        /\ SourceIsIdle' /\ OutClosedLast' /\ DoneIsDrained'
    BY <1>1, <1>2, <1>5, CloseLayer
  <2>2. StopHasPassed'
    BY <1>3, <1>4, <1>5 DEF WatchInv, StopHasPassed
  <2>3. stopping' \in Nat
    BY <1>1, WatchAssumption
  <2> QED BY <2>1, <2>2, <2>3 DEF WatchInv, Shape
<1>6. CASE ended' = ended \cup {l} /\ UNCHANGED <<stream, closed>>
  <2>1. StopHasPassed'
    BY <1>3, <1>4, <1>6 DEF WatchInv, StopHasPassed
  <2>2. stopping' \in Nat
    BY <1>1, WatchAssumption
  <2> QED BY <1>1, <1>6, <2>1, <2>2
          DEF WatchInv, Shape, SourceIsIdle, OutClosedLast, DoneIsDrained, Idle
<1> QED BY <1>5, <1>6 DEF StopNext

\* The pump of fsnotify closes the stream of a source that stop has passed.
LEMMA FsnotifyEndStep ==
    ASSUME WatchInv, NEW l \in Layers, FsnotifyEnd(l)
    PROVE  WatchInv'
<1>1. /\ DOMAIN stream' = Layers \cup {"out"}
      /\ DOMAIN holding' = Senders
      /\ SourceIsIdle' /\ OutClosedLast' /\ DoneIsDrained'
  BY CloseLayer DEF FsnotifyEnd
<1>2. StopHasPassed' /\ stopping' \in Nat
  BY DEF FsnotifyEnd, WatchInv, Shape, StopHasPassed
<1> QED BY <1>1, <1>2 DEF WatchInv, Shape

\* Every step keeps the invariant.
LEMMA WatchNextInv == WatchInv /\ [WatchNext]_watchVars => WatchInv'
<1> SUFFICES ASSUME WatchInv, [WatchNext]_watchVars PROVE WatchInv'
  OBVIOUS
<1>1. ASSUME NEW s \in Senders, SendMarker(s) \/ SendEvent(s) PROVE WatchInv'
  BY <1>1, SendStep
<1>2. ASSUME NEW l \in Layers, Emit(l) PROVE WatchInv'
  BY <1>2, EmitStep
<1>3. ASSUME NEW l \in Layers, ForwardReceive(l) PROVE WatchInv'
  BY <1>3, ForwardReceiveStep
<1>4. ASSUME NEW l \in Layers, ForwardEnd(l) PROVE WatchInv'
  BY <1>4, ForwardEndStep
<1>5. ASSUME NEW l \in Layers, FsnotifyEnd(l) PROVE WatchInv'
  BY <1>5, FsnotifyEndStep
<1>6. CASE CloseOut
  BY <1>6, SenderFacts, WatchAssumption
     DEF CloseOut, WatchInv, Shape, SourceIsIdle, OutClosedLast, DoneIsDrained, StopHasPassed,
         Idle, Layers
<1>7. CASE Unwatch
  <2>1. UNCHANGED <<stream, closed, holding, ended, signalled>> /\ stopping = 0 /\ stopping' = 1
    BY <1>7 DEF Unwatch
  <2>2. \A i \in 1..Len(StopOrder) : i < stopping => i < stopping'
    BY <2>1, WatchAssumption
  <2> QED BY <2>1, <2>2 DEF WatchInv, Shape, SourceIsIdle, OutClosedLast, DoneIsDrained,
                            StopHasPassed, Idle
<1>8. CASE StopNext
  BY <1>8, StopStep
<1>9. CASE Pump
  <2>1. /\ UNCHANGED <<closed, holding, stopping, ended, signalled>>
        /\ DOMAIN stream' = DOMAIN stream
        /\ \A c \in DOMAIN stream : c # "out" => stream'[c] = stream[c]
    BY <1>9 DEF Pump
  <2> QED BY <2>1, SenderFacts DEF WatchInv, Shape, SourceIsIdle, OutClosedLast, DoneIsDrained,
                                   StopHasPassed, Idle
<1>10. CASE PumpEnd
  BY <1>10 DEF PumpEnd, WatchInv, Shape, SourceIsIdle, OutClosedLast, DoneIsDrained,
               StopHasPassed, Idle
<1>11. CASE UNCHANGED watchVars
  BY <1>11 DEF watchVars, WatchInv, Shape, SourceIsIdle, OutClosedLast, DoneIsDrained,
               StopHasPassed, Idle
<1> QED BY <1>1, <1>2, <1>3, <1>4, <1>5, <1>6, <1>7, <1>8, <1>9, <1>10, <1>11 DEF WatchNext

(***************************************************************************)
(* Neither a layer nor a forwarder of an overlay watcher sends on a closed *)
(* channel, and the merged channel is closed last, with every layer closed *)
(* and drained: stop, the pumps of fsnotify and the forwarders may run in  *)
(* any order.                                                              *)
(***************************************************************************)
THEOREM WatchSendsAreSafe == WatchSpec => []NoSendOnClosed
BY WatchInitInv, WatchNextInv, InvSafe, PTL DEF WatchSpec

-----------------------------------------------------------------------------
(***************************************************************************)
(* Watch, the gaps.  The invariant follows one layer through the whole     *)
(* pipe, from what the callback has been told back to the source: every    *)
(* item, the markers that are still owed included, stands for a number of  *)
(* the layer's changes that is accounted for when it has been told, so     *)
(* that a dropped item can leave its number to the marker that replaces it.*)
(***************************************************************************)
Item == [op : {"change", "overflow"}, layer : Layers, n : Nat]

\* What is accounted for: the changes up to number n, by an item of kind op.
Mark == [op : {"change", "overflow"}, n : Nat]
Nothing == [op |-> "change", n |-> 0]

\* Item e of layer l, told after a, accounts for b: it goes on from a, and a
\* change that follows a change is the very next one.
Told(l, a, e, b) ==
    /\ e.layer = l /\ b.op = e.op /\ b.n > a.n
    /\ e.op = "change" => b.n = e.n /\ (a.op = "change" => b.n = a.n + 1)

\* The items of a stream of layer l, told after a, account for b.
IsTrace(l, s, f) == \A k \in 1..Len(s) : Told(l, f[k - 1], s[k], f[k])
Trace(l, s, a, b) ==
    \E f \in [0..Len(s) -> Mark] : f[0] = a /\ f[Len(s)] = b /\ IsTrace(l, s, f)

\* The same of the merged stream, where other layers' items pass as well.
IsMerged(l, s, f) ==
    \A k \in 1..Len(s) : IF s[k].layer = l THEN Told(l, f[k - 1], s[k], f[k])
                                           ELSE f[k] = f[k - 1]
Merged(l, s, b) ==
    \E f \in [0..Len(s) -> Mark] : f[0] = Nothing /\ f[Len(s)] = b /\ IsMerged(l, s, f)

\* A marker that is owed, and what a sender holds.
Owes(a, b) == b.op = "overflow" /\ b.n > a.n
Held(l, h, a, b) == IF h = <<>> THEN b = a ELSE Told(l, a, h[1], b)

SourceOwes(l) == Source(l) \in overflow /\ l \notin closed
ForwardOwes(l) == Forward(l) \in overflow /\ l \notin signalled

\* What is left to account for behind a, at the source, ...
AtSource(l, a) ==
    \E b, c \in Mark : /\ IF SourceOwes(l) THEN Owes(a, b) ELSE b = a
                       /\ Held(l, holding[Source(l)], b, c)
                       /\ c.n <= emitted[l]
                       /\ l \notin closed /\ c.op = "change" => c.n = emitted[l]

\* ... from what the forwarder holds on, ...
AtForward(l, a) ==
    \E b, c \in Mark : /\ Held(l, holding[Forward(l)], a, b)
                       /\ Trace(l, stream[l], b, c)
                       /\ AtSource(l, c)

\* ... and from the end of the merged stream on.
AtOut(l, a) ==
    \E b \in Mark : /\ IF ForwardOwes(l) THEN Owes(a, b) ELSE b = a
                    /\ AtForward(l, b)

Accounted(l) == \E a \in Mark : Merged(l, seen \o stream["out"], a) /\ AtOut(l, a)

ItemTypes ==
    /\ stream \in [Layers \cup {"out"} -> Seq(Item)]
    /\ holding \in [Senders -> Seq(Item)]
    /\ \A s \in Senders : holding[s] # <<>> => holding[s][1] \in Item
    /\ seen \in Seq(Item)
    /\ emitted \in [Layers -> Nat]

GapInv == WatchInv /\ ItemTypes /\ \A l \in Layers : Accounted(l)

\* An empty stream accounts for nothing.
LEMMA TraceEmpty ==
    ASSUME NEW l, NEW a \in Mark, NEW b \in Mark
    PROVE  Trace(l, <<>>, a, b) <=> a = b
<1>1. ASSUME a = b PROVE Trace(l, <<>>, a, b)
  <2> DEFINE f == [k \in 0..0 |-> a]
  <2>1. f \in [0..Len(<<>>) -> Mark] /\ f[0] = a /\ f[Len(<<>>)] = b
    BY <1>1
  <2>2. IsTrace(l, <<>>, f)
    BY DEF IsTrace
  <2> HIDE DEF f
  <2> QED
    BY <2>1, <2>2 DEF Trace
<1>2. ASSUME Trace(l, <<>>, a, b) PROVE a = b
  BY <1>2 DEF Trace
<1> QED
  BY <1>1, <1>2

\* An item more at the end.
LEMMA TraceAppend ==
    ASSUME NEW l, NEW s \in Seq(Item), NEW e \in Item,
           NEW a \in Mark, NEW b \in Mark, NEW c \in Mark,
           Trace(l, s, a, b), Told(l, b, e, c)
    PROVE  Trace(l, Append(s, e), a, c)
<1>1. PICK f \in [0..Len(s) -> Mark] : f[0] = a /\ f[Len(s)] = b /\ IsTrace(l, s, f)
  BY DEF Trace
<1> DEFINE t == Append(s, e)
           g == [k \in 0..Len(t) |-> IF k = Len(t) THEN c ELSE f[k]]
<1>2. /\ Len(s) \in Nat /\ Len(t) = Len(s) + 1 /\ t[Len(t)] = e
      /\ \A k \in 1..Len(s) : t[k] = s[k]
  OBVIOUS
<1> HIDE DEF t
<1>3. g \in [0..Len(t) -> Mark]
  BY <1>2
<1>4. g[0] = a /\ g[Len(t)] = c
  BY <1>1, <1>2
<1>5. ASSUME NEW k \in 1..Len(t) PROVE Told(l, g[k - 1], t[k], g[k])
  <2>1. g[k - 1] = f[k - 1]
    BY <1>2
  <2>2. CASE k = Len(t)
    BY <1>1, <1>2, <2>1, <2>2
  <2>3. CASE k # Len(t)
    BY <1>1, <1>2, <2>1, <2>3 DEF IsTrace
  <2> QED
    BY <2>2, <2>3
<1> HIDE DEF g
<1>6. IsTrace(l, t, g)
  BY <1>5 DEF IsTrace
<1> QED
  BY <1>3, <1>4, <1>6 DEF Trace, t

\* The first item taken off.
LEMMA TraceHead ==
    ASSUME NEW l, NEW s \in Seq(Item), s # <<>>, NEW a \in Mark, NEW c \in Mark,
           Trace(l, s, a, c)
    PROVE  \E b \in Mark : Told(l, a, Head(s), b) /\ Trace(l, Tail(s), b, c)
<1>1. PICK f \in [0..Len(s) -> Mark] : f[0] = a /\ f[Len(s)] = c /\ IsTrace(l, s, f)
  BY DEF Trace
<1> DEFINE t == Tail(s)
           g == [k \in 0..Len(t) |-> f[k + 1]]
<1>2. /\ Len(s) \in Nat \ {0} /\ Len(t) = Len(s) - 1 /\ Head(s) = s[1]
      /\ \A k \in 1..Len(t) : t[k] = s[k + 1]
  OBVIOUS
<1> HIDE DEF t
<1>3. Told(l, a, Head(s), f[1]) /\ f[1] \in Mark
  BY <1>1, <1>2 DEF IsTrace
<1>4. g \in [0..Len(t) -> Mark]
  BY <1>2
<1>5. g[0] = f[1] /\ g[Len(t)] = c
  BY <1>1, <1>2
<1>6. ASSUME NEW k \in 1..Len(t) PROVE Told(l, g[k - 1], t[k], g[k])
  <2>1. g[k - 1] = f[k] /\ g[k] = f[k + 1] /\ k + 1 \in 1..Len(s)
    BY <1>2
  <2> QED
    BY <1>1, <1>2, <2>1 DEF IsTrace
<1> HIDE DEF g
<1>7. IsTrace(l, t, g)
  BY <1>6 DEF IsTrace
<1>8. Trace(l, t, f[1], c)
  BY <1>4, <1>5, <1>7 DEF Trace
<1> QED
  BY <1>3, <1>8 DEF t

\* An item more on the merged stream: of the layer, or of another one.
LEMMA MergedAppend ==
    ASSUME NEW l, NEW s \in Seq(Item), NEW e \in Item, NEW b \in Mark, NEW c \in Mark,
           Merged(l, s, b), IF e.layer = l THEN Told(l, b, e, c) ELSE c = b
    PROVE  Merged(l, Append(s, e), c)
<1>1. PICK f \in [0..Len(s) -> Mark] : f[0] = Nothing /\ f[Len(s)] = b /\ IsMerged(l, s, f)
  BY DEF Merged
<1> DEFINE t == Append(s, e)
           g == [k \in 0..Len(t) |-> IF k = Len(t) THEN c ELSE f[k]]
<1>2. /\ Len(s) \in Nat /\ Len(t) = Len(s) + 1 /\ t[Len(t)] = e
      /\ \A k \in 1..Len(s) : t[k] = s[k]
  OBVIOUS
<1> HIDE DEF t
<1>3. g \in [0..Len(t) -> Mark]
  BY <1>2
<1>4. g[0] = Nothing /\ g[Len(t)] = c
  BY <1>1, <1>2
<1>5. ASSUME NEW k \in 1..Len(t)
      PROVE  IF t[k].layer = l THEN Told(l, g[k - 1], t[k], g[k]) ELSE g[k] = g[k - 1]
  <2>1. g[k - 1] = f[k - 1]
    BY <1>2
  <2>2. CASE k = Len(t)
    BY <1>1, <1>2, <2>1, <2>2
  <2>3. CASE k # Len(t)
    BY <1>1, <1>2, <2>1, <2>3 DEF IsMerged
  <2> QED
    BY <2>2, <2>3
<1> HIDE DEF g
<1>6. IsMerged(l, t, g)
  BY <1>5 DEF IsMerged
<1> QED
  BY <1>3, <1>4, <1>6 DEF Merged, t

\* A marker in the place of an item accounts for as much: what follows the
\* item can follow the marker.
Replaces(b, a) == b.n = a.n /\ (b.op = a.op \/ b.op = "overflow")

\* So for an item held by a goroutine.
LEMMA HeldReplaced ==
    ASSUME NEW l, NEW h, NEW a \in Mark, NEW b \in Mark, NEW c \in Mark,
           Held(l, h, a, c), Replaces(b, a)
    PROVE  \E d \in Mark : Held(l, h, b, d) /\ Replaces(d, c)
BY DEF Held, Told, Replaces, Mark

\* So for the items of a channel.
LEMMA TraceReplaced ==
    ASSUME NEW l, NEW s \in Seq(Item), NEW a \in Mark, NEW b \in Mark, NEW c \in Mark,
           Trace(l, s, a, c), Replaces(b, a)
    PROVE  \E d \in Mark : Trace(l, s, b, d) /\ Replaces(d, c)
<1>1. CASE s = <<>>
  BY <1>1, TraceEmpty
<1>2. CASE s # <<>>
  <2>1. PICK f \in [0..Len(s) -> Mark] : f[0] = a /\ f[Len(s)] = c /\ IsTrace(l, s, f)
    BY DEF Trace
  <2>2. Len(s) \in Nat \ {0}
    BY <1>2
  <2> DEFINE g == [f EXCEPT ![0] = b]
  <2>3. g \in [0..Len(s) -> Mark] /\ g[0] = b /\ g[Len(s)] = c
    BY <2>1, <2>2
  <2>4. ASSUME NEW k \in 1..Len(s) PROVE Told(l, g[k - 1], s[k], g[k])
    <3>1. g[k] = f[k] /\ Told(l, f[k - 1], s[k], f[k])
      BY <2>1, <2>2 DEF IsTrace
    <3>2. CASE k = 1
      <4>1. g[k - 1] = b /\ f[k - 1] = a
        BY <2>1, <2>3, <3>2
      <4> QED
        BY <3>1, <4>1 DEF Told, Replaces
    <3>3. CASE k # 1
      <4>1. g[k - 1] = f[k - 1]
        BY <2>2, <3>3
      <4> QED
        BY <3>1, <4>1
    <3> QED
      BY <3>2, <3>3
  <2> HIDE DEF g
  <2>5. Trace(l, s, b, c)
    BY <2>3, <2>4 DEF Trace, IsTrace
  <2> QED
    BY <2>5 DEF Replaces
<1> QED
  BY <1>1, <1>2

\* A stream only goes on.
LEMMA TraceGrows ==
    ASSUME NEW l, NEW s \in Seq(Item), NEW a \in Mark, NEW b \in Mark, Trace(l, s, a, b)
    PROVE  a.n <= b.n
<1>1. PICK f \in [0..Len(s) -> Mark] : f[0] = a /\ f[Len(s)] = b /\ IsTrace(l, s, f)
  BY DEF Trace
<1> DEFINE S == {k \in 0..Len(s) : ~(a.n <= f[k].n)}
<1>2. Len(s) \in Nat /\ a.n \in Nat /\ \A k \in 0..Len(s) : f[k].n \in Nat
  BY DEF Mark
<1>3. CASE S = {}
  BY <1>1, <1>2, <1>3
<1>4. CASE S # {}
  <2>1. S \in SUBSET Nat
    BY <1>2
  <2>2. PICK k \in S : \A j \in S : k <= j
    BY <1>4, <2>1, LeastNat
  <2>3. k # 0
    BY <1>1, <1>2, <2>2
  <2>4. k \in 1..Len(s) /\ k - 1 \in 0..Len(s) /\ k - 1 \notin S
    BY <1>2, <2>2, <2>3
  <2>5. f[k].n > f[k - 1].n
    BY <1>1, <2>4 DEF IsTrace, Told
  <2> QED
    BY <1>2, <2>2, <2>4, <2>5
<1> QED
  BY <1>3, <1>4

\* What an action leaves alone, as far as layer l is concerned: its source,
\* its forwarder and what that has to forward, and the markers they owe.
SameSource(l) ==
    /\ holding'[Source(l)] = holding[Source(l)]
    /\ SourceOwes(l)' <=> SourceOwes(l)
    /\ emitted'[l] = emitted[l]
    /\ l \in closed' <=> l \in closed

SameForward(l) ==
    /\ holding'[Forward(l)] = holding[Forward(l)]
    /\ ForwardOwes(l)' <=> ForwardOwes(l)

SameOut == seen' \o stream'["out"] = seen \o stream["out"]

\* A source the action does not touch stays where it is.
LEMMA SourceFrame ==
    ASSUME NEW l \in Layers, NEW a \in Mark, AtSource(l, a), SameSource(l)
    PROVE  AtSource(l, a)'
BY DEF AtSource, SameSource

\* A layer that the action does not touch is accounted for as before.
LEMMA LayerFrame ==
    ASSUME NEW l \in Layers, NEW a \in Mark, AtOut(l, a),
           SameSource(l), SameForward(l), stream'[l] = stream[l]
    PROVE  AtOut(l, a)'
<1>1. PICK b \in Mark : (IF ForwardOwes(l) THEN Owes(a, b) ELSE b = a) /\ AtForward(l, b)
  BY DEF AtOut
<1>2. PICK c, d \in Mark : /\ Held(l, holding[Forward(l)], b, c)
                           /\ Trace(l, stream[l], c, d)
                           /\ AtSource(l, d)
  BY <1>1 DEF AtForward
<1>3. AtSource(l, d)'
  BY <1>2, SourceFrame
<1>4. AtForward(l, b)'
  BY <1>2, <1>3 DEF AtForward, SameForward
<1>5. IF ForwardOwes(l)' THEN Owes(a, b) ELSE b = a
  BY <1>1 DEF SameForward
<1> QED
  BY <1>4, <1>5 DEF AtOut

\* A layer none of whose parts the action touches is accounted for as before.
LEMMA AccountedFrame ==
    ASSUME NEW l \in Layers, Accounted(l),
           SameSource(l), SameForward(l), stream'[l] = stream[l], SameOut
    PROVE  Accounted(l)'
<1>1. PICK a \in Mark : Merged(l, seen \o stream["out"], a) /\ AtOut(l, a)
  BY DEF Accounted
<1>2. AtOut(l, a)'
  BY <1>1, LayerFrame
<1> QED
  BY <1>1, <1>2 DEF Accounted, SameOut

\* An item of another layer passes on the merged stream.
LEMMA OtherItem ==
    ASSUME NEW l \in Layers, Accounted(l), ItemTypes, NEW e \in Item, e.layer # l,
           SameSource(l), SameForward(l), stream'[l] = stream[l],
           seen' \o stream'["out"] = Append(seen \o stream["out"], e)
    PROVE  Accounted(l)'
<1>1. PICK a \in Mark : Merged(l, seen \o stream["out"], a) /\ AtOut(l, a)
  BY DEF Accounted
<1>2. AtOut(l, a)'
  BY <1>1, LayerFrame
<1>3. seen \o stream["out"] \in Seq(Item)
  BY DEF ItemTypes
<1>4. Merged(l, Append(seen \o stream["out"], e), a)
  BY <1>1, <1>3, MergedAppend
<1> QED
  BY <1>2, <1>4 DEF Accounted

\* A step of the source: what was accounted for by it and its stream still is.
SourceGoesOn(l) ==
    \A b, c \in Mark : Trace(l, stream[l], b, c) /\ AtSource(l, c) =>
        \E d \in Mark : Trace(l, stream'[l], b, d) /\ AtSource(l, d)'

\* Such a step keeps the whole layer accounted for.
LEMMA SourceSide ==
    ASSUME NEW l \in Layers, Accounted(l), SourceGoesOn(l), SameForward(l), SameOut
    PROVE  Accounted(l)'
<1>1. PICK a \in Mark : Merged(l, seen \o stream["out"], a) /\ AtOut(l, a)
  BY DEF Accounted
<1>2. PICK b \in Mark : (IF ForwardOwes(l) THEN Owes(a, b) ELSE b = a) /\ AtForward(l, b)
  BY <1>1 DEF AtOut
<1>3. PICK c, d \in Mark : /\ Held(l, holding[Forward(l)], b, c)
                           /\ Trace(l, stream[l], c, d)
                           /\ AtSource(l, d)
  BY <1>2 DEF AtForward
<1>4. PICK e \in Mark : Trace(l, stream'[l], c, e) /\ AtSource(l, e)'
  BY <1>3 DEF SourceGoesOn
<1>5. AtForward(l, b)'
  BY <1>3, <1>4 DEF AtForward, SameForward
<1>6. IF ForwardOwes(l)' THEN Owes(a, b) ELSE b = a
  BY <1>2 DEF SameForward
<1>7. AtOut(l, a)'
  BY <1>5, <1>6 DEF AtOut
<1> QED
  BY <1>1, <1>7 DEF Accounted, SameOut

\* A marker in the place of an item, at the source.
LEMMA SourceReplaced ==
    ASSUME NEW l \in Layers, NEW a \in Mark, NEW b \in Mark, AtSource(l, a), Replaces(b, a),
           emitted[l] \in Nat
    PROVE  AtSource(l, b)
<1>1. PICK c, d \in Mark : /\ IF SourceOwes(l) THEN Owes(a, c) ELSE c = a
                           /\ Held(l, holding[Source(l)], c, d)
                           /\ d.n <= emitted[l]
                           /\ l \notin closed /\ d.op = "change" => d.n = emitted[l]
  BY DEF AtSource
<1>2. CASE SourceOwes(l)
  <2>1. Owes(b, c)
    BY <1>1, <1>2 DEF Owes, Replaces
  <2> QED
    BY <1>1, <1>2, <2>1 DEF AtSource
<1>3. CASE ~SourceOwes(l)
  <2>1. PICK e \in Mark : Held(l, holding[Source(l)], b, e) /\ Replaces(e, d)
    BY <1>1, <1>3, HeldReplaced
  <2>2. /\ e.n <= emitted[l]
        /\ l \notin closed /\ e.op = "change" => e.n = emitted[l]
    BY <1>1, <2>1 DEF Replaces
  <2> QED
    BY <1>3, <2>1, <2>2 DEF AtSource
<1> QED
  BY <1>2, <1>3

\* What a source has accounted for is at most what it has reported.
LEMMA SourceBound ==
    ASSUME NEW l \in Layers, NEW a \in Mark, AtSource(l, a), emitted[l] \in Nat
    PROVE  a.n <= emitted[l]
BY DEF AtSource, Owes, Held, Told, Mark

\* Markers and changes are items.
LEMMA Items ==
    ASSUME NEW l \in Layers
    PROVE  /\ Marker(l) \in Item /\ Marker(l).op = "overflow" /\ Marker(l).layer = l
           /\ \A n \in Nat : /\ Event(l, n) \in Item /\ Event(l, n).op = "change"
                             /\ Event(l, n).layer = l /\ Event(l, n).n = n
BY DEF Marker, Event, Item

\* The merged stream after an item more, or after the pump has read one.
LEMMA OutGrows ==
    ASSUME NEW s \in Seq(Item), NEW t \in Seq(Item), NEW e \in Item
    PROVE  s \o Append(t, e) = Append(s \o t, e)
OBVIOUS

\* Reading an item moves it, and changes nothing of the whole.
LEMMA OutRead ==
    ASSUME NEW s \in Seq(Item), NEW t \in Seq(Item), t # <<>>
    PROVE  Append(s, Head(t)) \o Tail(t) = s \o t
OBVIOUS

\* The source sends what it holds, and owes no marker.
LEMMA SourceSends ==
    ASSUME GapInv, NEW l \in Layers, ~Idle(Source(l)), l \notin closed,
           Source(l) \notin overflow,
           stream'[l] = Append(stream[l], holding[Source(l)][1]),
           holding'[Source(l)] = <<>>,
           UNCHANGED <<overflow, closed, emitted>>
    PROVE  SourceGoesOn(l)
<1> SUFFICES ASSUME NEW b \in Mark, NEW c \in Mark, Trace(l, stream[l], b, c), AtSource(l, c)
             PROVE  \E d \in Mark : Trace(l, stream'[l], b, d) /\ AtSource(l, d)'
  BY DEF SourceGoesOn
<1>1. ~SourceOwes(l) /\ ~SourceOwes(l)'
  BY DEF SourceOwes
<1>2. PICK d \in Mark : /\ Told(l, c, holding[Source(l)][1], d)
                        /\ d.n <= emitted[l]
                        /\ l \notin closed /\ d.op = "change" => d.n = emitted[l]
  BY <1>1 DEF AtSource, Held, Idle
<1>3. stream[l] \in Seq(Item) /\ holding[Source(l)][1] \in Item
  BY SenderFacts DEF GapInv, ItemTypes, Idle
<1>4. Trace(l, stream'[l], b, d)
  BY <1>2, <1>3, TraceAppend
<1>5. AtSource(l, d)'
  BY <1>1, <1>2 DEF AtSource, Held
<1> QED
  BY <1>4, <1>5

\* The source finds no room: the marker it owes now stands for the change.
LEMMA SourceDrops ==
    ASSUME GapInv, NEW l \in Layers, ~Idle(Source(l)), l \notin closed,
           Source(l) \notin overflow,
           stream'[l] = stream[l],
           holding'[Source(l)] = <<>>, overflow' = overflow \cup {Source(l)},
           UNCHANGED <<closed, emitted>>
    PROVE  SourceGoesOn(l)
<1> SUFFICES ASSUME NEW c \in Mark, AtSource(l, c)
             PROVE  AtSource(l, c)'
  BY DEF SourceGoesOn
<1>1. ~SourceOwes(l) /\ SourceOwes(l)'
  BY DEF SourceOwes
<1>2. PICK d \in Mark : /\ Told(l, c, holding[Source(l)][1], d)
                        /\ d.n <= emitted[l]
  BY <1>1 DEF AtSource, Held, Idle
<1> DEFINE e == [op |-> "overflow", n |-> d.n]
<1>3. e \in Mark /\ Owes(c, e) /\ e.n <= emitted[l] /\ e.op # "change"
  BY <1>2 DEF Told, Owes, Mark
<1> HIDE DEF e
<1>4. Held(l, holding'[Source(l)], e, e)
  BY DEF Held
<1> QED
  BY <1>1, <1>3, <1>4 DEF AtSource

\* The source sends the marker it owes.
LEMMA SourceMarks ==
    ASSUME GapInv, NEW l \in Layers, l \notin closed, Source(l) \in overflow,
           stream'[l] = Append(stream[l], Marker(l)),
           holding'[Source(l)] = holding[Source(l)], overflow' = overflow \ {Source(l)},
           UNCHANGED <<closed, emitted>>
    PROVE  SourceGoesOn(l)
<1> SUFFICES ASSUME NEW b \in Mark, NEW c \in Mark, Trace(l, stream[l], b, c), AtSource(l, c)
             PROVE  \E d \in Mark : Trace(l, stream'[l], b, d) /\ AtSource(l, d)'
  BY DEF SourceGoesOn
<1>1. SourceOwes(l) /\ ~SourceOwes(l)'
  BY DEF SourceOwes
<1>2. PICK d, e \in Mark : /\ Owes(c, d)
                           /\ Held(l, holding[Source(l)], d, e)
                           /\ e.n <= emitted[l]
                           /\ l \notin closed /\ e.op = "change" => e.n = emitted[l]
  BY <1>1 DEF AtSource
<1>3. Told(l, c, Marker(l), d)
  BY <1>2, Items DEF Told, Owes
<1>4. Trace(l, stream'[l], b, d)
  BY <1>3, Items, TraceAppend DEF GapInv, ItemTypes
<1>5. AtSource(l, d)'
  BY <1>1, <1>2 DEF AtSource
<1> QED
  BY <1>4, <1>5

\* The source owes a marker, finds no room for it and gives the change up.
LEMMA SourceGivesUp ==
    ASSUME GapInv, NEW l \in Layers, ~Idle(Source(l)), l \notin closed, Source(l) \in overflow,
           stream'[l] = stream[l],
           holding'[Source(l)] = <<>>,
           UNCHANGED <<overflow, closed, emitted>>
    PROVE  SourceGoesOn(l)
<1> SUFFICES ASSUME NEW c \in Mark, AtSource(l, c)
             PROVE  AtSource(l, c)'
  BY DEF SourceGoesOn
<1>1. SourceOwes(l) /\ SourceOwes(l)'
  BY DEF SourceOwes
<1>2. PICK b, d \in Mark : /\ Owes(c, b)
                           /\ Told(l, b, holding[Source(l)][1], d)
                           /\ d.n <= emitted[l]
  BY <1>1 DEF AtSource, Held, Idle
<1> DEFINE e == [op |-> "overflow", n |-> d.n]
<1>3. e \in Mark /\ Owes(c, e) /\ e.n <= emitted[l] /\ e.op # "change"
  BY <1>2 DEF Told, Owes, Mark
<1> HIDE DEF e
<1>4. Held(l, holding'[Source(l)], e, e)
  BY DEF Held
<1> QED
  BY <1>1, <1>3, <1>4 DEF AtSource

\* A change is reported: it is the next one, or a marker is between.
LEMMA SourceReports ==
    ASSUME GapInv, NEW l \in Layers, Idle(Source(l)), l \notin closed,
           stream'[l] = stream[l],
           holding'[Source(l)] = <<Event(l, emitted[l] + 1)>>,
           emitted'[l] = emitted[l] + 1,
           UNCHANGED <<overflow, closed>>
    PROVE  SourceGoesOn(l)
<1> SUFFICES ASSUME NEW c \in Mark, AtSource(l, c)
             PROVE  AtSource(l, c)'
  BY DEF SourceGoesOn
<1>1. emitted[l] \in Nat
  BY DEF GapInv, ItemTypes
<1>2. SourceOwes(l)' <=> SourceOwes(l)
  BY DEF SourceOwes
<1>3. PICK b \in Mark : /\ IF SourceOwes(l) THEN Owes(c, b) ELSE b = c
                        /\ b.n <= emitted[l]
                        /\ b.op = "change" => b.n = emitted[l]
  BY DEF AtSource, Held, Idle
<1> DEFINE d == [op |-> "change", n |-> emitted[l] + 1]
<1>4. d \in Mark /\ d.n = emitted'[l] /\ d.op = "change"
  BY <1>1 DEF Mark
<1>5. Told(l, b, Event(l, emitted[l] + 1), d)
  <2>1. b.n \in Nat
    BY DEF Mark
  <2> QED
    BY <1>1, <1>3, <2>1, Items DEF Told
<1> HIDE DEF d
<1>6. Held(l, holding'[Source(l)], b, d)
  BY <1>5 DEF Held
<1>7. d.n <= emitted'[l]
  BY <1>1, <1>4
<1> QED
  BY <1>2, <1>3, <1>4, <1>6, <1>7 DEF AtSource

\* The stream of a layer is closed: the marker it owes is sent if there is
\* room, and if there is none nothing comes after the gap.
LEMMA SourceCloses ==
    ASSUME GapInv, NEW l \in Layers, Idle(Source(l)), l \notin closed, l \in closed',
           stream'[l] = Flushed(Source(l)),
           UNCHANGED <<holding, overflow, emitted>>
    PROVE  SourceGoesOn(l)
<1> SUFFICES ASSUME NEW b \in Mark, NEW c \in Mark, Trace(l, stream[l], b, c), AtSource(l, c)
             PROVE  \E d \in Mark : Trace(l, stream'[l], b, d) /\ AtSource(l, d)'
  BY DEF SourceGoesOn
<1>1. ~SourceOwes(l)' /\ (SourceOwes(l) <=> Source(l) \in overflow)
  BY DEF SourceOwes
<1>2. Target(Source(l)) = l /\ Source(l)[2] = l
  BY SenderFacts DEF Source
<1>3. PICK d \in Mark : /\ IF SourceOwes(l) THEN Owes(c, d) ELSE d = c
                        /\ d.n <= emitted[l]
  BY DEF AtSource, Held, Idle
<1>4. emitted[l] \in Nat
  BY DEF GapInv, ItemTypes
<1>5. \A a \in Mark : a.n <= emitted[l] => AtSource(l, a)'
  BY <1>1 DEF AtSource, Held, Idle
<1>6. CASE Source(l) \in overflow /\ Room(l)
  <2>1. stream'[l] = Append(stream[l], Marker(l))
    BY <1>2, <1>6 DEF Flushed
  <2>2. Told(l, c, Marker(l), d)
    BY <1>1, <1>3, <1>6, Items DEF Told, Owes
  <2>3. Trace(l, stream'[l], b, d)
    BY <2>1, <2>2, Items, TraceAppend DEF GapInv, ItemTypes
  <2> QED
    BY <1>3, <1>5, <2>3
<1>7. CASE ~(Source(l) \in overflow /\ Room(l))
  <2>1. stream'[l] = stream[l]
    BY <1>2, <1>7 DEF Flushed
  <2>2. c.n <= emitted[l]
    BY <1>4, SourceBound
  <2> QED
    BY <1>5, <2>1, <2>2
<1> QED
  BY <1>6, <1>7

\* The forwarder sends what it holds, and owes no marker.
LEMMA ForwardSends ==
    ASSUME GapInv, NEW l \in Layers, ~Idle(Forward(l)), Forward(l) \notin overflow,
           seen' \o stream'["out"]
              = Append(seen \o stream["out"], holding[Forward(l)][1]),
           stream'[l] = stream[l], holding'[Forward(l)] = <<>>,
           SameSource(l), UNCHANGED overflow
    PROVE  Accounted(l)'
<1>1. PICK a \in Mark : Merged(l, seen \o stream["out"], a) /\ AtOut(l, a)
  BY DEF GapInv, Accounted
<1>2. ~ForwardOwes(l) /\ ~ForwardOwes(l)'
  BY DEF ForwardOwes
<1>3. AtForward(l, a)
  BY <1>1, <1>2 DEF AtOut
<1>4. PICK b, c \in Mark : /\ Told(l, a, holding[Forward(l)][1], b)
                           /\ Trace(l, stream[l], b, c)
                           /\ AtSource(l, c)
  BY <1>3 DEF AtForward, Held, Idle
<1>5. seen \o stream["out"] \in Seq(Item) /\ holding[Forward(l)][1] \in Item
  BY SenderFacts DEF GapInv, ItemTypes, Idle
<1>6. Merged(l, seen' \o stream'["out"], b)
  <2>1. holding[Forward(l)][1].layer = l
    BY <1>4 DEF Told
  <2> QED
    BY <1>1, <1>4, <1>5, <2>1, MergedAppend
<1>7. AtSource(l, c)'
  BY <1>4, SourceFrame
<1>8. AtForward(l, b)'
  BY <1>4, <1>7 DEF AtForward, Held
<1>9. AtOut(l, b)'
  BY <1>2, <1>8 DEF AtOut
<1> QED
  BY <1>6, <1>9 DEF Accounted

\* The item a forwarder holds is given up: the marker it owes stands for it.
LEMMA ForwardDrops ==
    ASSUME GapInv, NEW l \in Layers, ~Idle(Forward(l)),
           SameOut, stream'[l] = stream[l], holding'[Forward(l)] = <<>>,
           SameSource(l), Forward(l) \in overflow', UNCHANGED signalled
    PROVE  Accounted(l)'
<1>1. PICK a \in Mark : Merged(l, seen \o stream["out"], a) /\ AtOut(l, a)
  BY DEF GapInv, Accounted
<1>2. PICK b \in Mark : (IF ForwardOwes(l) THEN Owes(a, b) ELSE b = a) /\ AtForward(l, b)
  BY <1>1 DEF AtOut
<1>3. ForwardOwes(l)'
  BY DEF ForwardOwes, GapInv, WatchInv, DoneIsDrained
<1>4. PICK c, d \in Mark : /\ Told(l, b, holding[Forward(l)][1], c)
                           /\ Trace(l, stream[l], c, d)
                           /\ AtSource(l, d)
  BY <1>2 DEF AtForward, Held, Idle
<1> DEFINE e == [op |-> "overflow", n |-> c.n]
<1>5. e \in Mark /\ Owes(a, e) /\ Replaces(e, c)
  BY <1>2, <1>4 DEF Told, Owes, Mark, Replaces
<1> HIDE DEF e
<1>6. stream[l] \in Seq(Item) /\ emitted[l] \in Nat
  BY DEF GapInv, ItemTypes
<1>7. PICK g \in Mark : Trace(l, stream[l], e, g) /\ Replaces(g, d)
  BY <1>4, <1>5, <1>6, TraceReplaced
<1>8. AtSource(l, g)'
  BY <1>4, <1>6, <1>7, SourceReplaced, SourceFrame
<1>9. AtForward(l, e)'
  BY <1>5, <1>7, <1>8 DEF AtForward, Held
<1>10. AtOut(l, a)'
  BY <1>3, <1>5, <1>9 DEF AtOut
<1> QED
  BY <1>1, <1>10 DEF Accounted, SameOut

\* The forwarder sends the marker it owes.
LEMMA ForwardMarks ==
    ASSUME GapInv, NEW l \in Layers, ForwardOwes(l), ~ForwardOwes(l)',
           seen' \o stream'["out"] = Append(seen \o stream["out"], Marker(l)),
           stream'[l] = stream[l], holding'[Forward(l)] = holding[Forward(l)],
           SameSource(l)
    PROVE  Accounted(l)'
<1>1. PICK a \in Mark : Merged(l, seen \o stream["out"], a) /\ AtOut(l, a)
  BY DEF GapInv, Accounted
<1>2. PICK b \in Mark : Owes(a, b) /\ AtForward(l, b)
  BY <1>1 DEF AtOut
<1>3. Told(l, a, Marker(l), b)
  BY <1>2, Items DEF Told, Owes
<1>4. seen \o stream["out"] \in Seq(Item) /\ Marker(l) \in Item /\ Marker(l).layer = l
  BY Items DEF GapInv, ItemTypes
<1>5. Merged(l, seen' \o stream'["out"], b)
  BY <1>1, <1>3, <1>4, MergedAppend
<1>6. PICK c, d \in Mark : /\ Held(l, holding[Forward(l)], b, c)
                           /\ Trace(l, stream[l], c, d)
                           /\ AtSource(l, d)
  BY <1>2 DEF AtForward
<1>7. AtSource(l, d)'
  BY <1>6, SourceFrame
<1>8. AtForward(l, b)'
  BY <1>6, <1>7 DEF AtForward
<1>9. AtOut(l, b)'
  BY <1>8 DEF AtOut
<1> QED
  BY <1>5, <1>9 DEF Accounted

\* The forwarder takes the next item of its stream.
LEMMA ForwardTakes ==
    ASSUME GapInv, NEW l \in Layers, Idle(Forward(l)), stream[l] # <<>>,
           SameOut, stream'[l] = Tail(stream[l]),
           holding'[Forward(l)] = <<Head(stream[l])>>,
           SameSource(l), ForwardOwes(l)' <=> ForwardOwes(l)
    PROVE  Accounted(l)'
<1>1. PICK a \in Mark : Merged(l, seen \o stream["out"], a) /\ AtOut(l, a)
  BY DEF GapInv, Accounted
<1>2. PICK b \in Mark : (IF ForwardOwes(l) THEN Owes(a, b) ELSE b = a) /\ AtForward(l, b)
  BY <1>1 DEF AtOut
<1>3. PICK d \in Mark : Trace(l, stream[l], b, d) /\ AtSource(l, d)
  BY <1>2 DEF AtForward, Held, Idle
<1>4. PICK c \in Mark : Told(l, b, Head(stream[l]), c) /\ Trace(l, Tail(stream[l]), c, d)
  BY <1>3, TraceHead DEF GapInv, ItemTypes
<1>5. AtSource(l, d)'
  BY <1>3, SourceFrame
<1>6. Held(l, holding'[Forward(l)], b, c)
  BY <1>4 DEF Held
<1>7. AtForward(l, b)'
  BY <1>4, <1>5, <1>6 DEF AtForward
<1>8. AtOut(l, a)'
  BY <1>2, <1>7 DEF AtOut
<1> QED
  BY <1>1, <1>8 DEF Accounted, SameOut

\* The forwarder of a closed and drained stream signals: nothing is left
\* behind it, and the marker it owes, if there is room, is the last item.
LEMMA ForwardSignals ==
    ASSUME GapInv, NEW l \in Layers, Idle(Forward(l)), stream[l] = <<>>, l \in closed,
           \/ SameOut
           \/ /\ ForwardOwes(l)
              /\ seen' \o stream'["out"] = Append(seen \o stream["out"], Marker(l)),
           stream'[l] = stream[l], holding'[Forward(l)] = holding[Forward(l)],
           SameSource(l), ~ForwardOwes(l)'
    PROVE  Accounted(l)'
<1>1. CASE ~SameOut
  BY <1>1, ForwardMarks
<1>2. CASE SameOut
  <2>1. PICK a \in Mark : Merged(l, seen \o stream["out"], a) /\ AtOut(l, a)
    BY DEF GapInv, Accounted
  <2>2. PICK b \in Mark : (IF ForwardOwes(l) THEN Owes(a, b) ELSE b = a) /\ AtForward(l, b)
    BY <2>1 DEF AtOut
  <2>3. AtSource(l, b)
    BY <2>2, TraceEmpty DEF AtForward, Held, Idle
  <2>4. emitted[l] \in Nat
    BY DEF GapInv, ItemTypes
  <2>5. a.n <= b.n /\ b.n <= emitted[l]
    BY <2>2, <2>3, <2>4, SourceBound DEF Owes, Mark
  <2>6. a.n <= emitted[l]
    BY <2>4, <2>5 DEF Mark
  <2>7. Idle(Source(l))
    BY DEF GapInv, WatchInv, SourceIsIdle
  <2>8. AtSource(l, a)
    BY <2>6, <2>7 DEF AtSource, SourceOwes, Held, Idle
  <2>9. AtSource(l, a)'
    BY <2>8, SourceFrame
  <2>10. AtForward(l, a)'
    BY <2>9, TraceEmpty DEF AtForward, Held, Idle
  <2>11. AtOut(l, a)'
    BY <2>10 DEF AtOut
  <2> QED
    BY <1>2, <2>1, <2>11 DEF Accounted, SameOut
<1> QED
  BY <1>1, <1>2

\* A sender sends a marker or an item, or gives one up.
LEMMA SendTypes ==
    ASSUME GapInv, NEW s \in Senders, SendMarker(s) \/ SendEvent(s)
    PROVE  ItemTypes'
<1>1. Target(s) \in Layers \cup {"out"} /\ Marker(s[2]) \in Item
  BY Items DEF Senders, Target
<1>2. ~Idle(s) /\ holding[s][1] \in Item
  BY DEF SendMarker, SendEvent, GapInv, ItemTypes, Idle
<1>3. \A e \in Item : [stream EXCEPT ![Target(s)] = Append(@, e)]
                         \in [Layers \cup {"out"} -> Seq(Item)]
  BY <1>1 DEF GapInv, ItemTypes
<1>4. stream' \in [Layers \cup {"out"} -> Seq(Item)]
  BY <1>1, <1>2, <1>3 DEF SendMarker, SendEvent, GapInv, ItemTypes
<1>5. /\ holding' \in [Senders -> Seq(Item)]
      /\ \A r \in Senders : holding'[r] # <<>> => holding'[r][1] \in Item
  <2>1. holding' = holding \/ holding' = [holding EXCEPT ![s] = <<>>]
    BY DEF SendMarker, SendEvent
  <2>2. CASE holding' = holding
    BY <2>2 DEF GapInv, ItemTypes
  <2>3. CASE holding' = [holding EXCEPT ![s] = <<>>]
    <3>1. /\ holding \in [Senders -> Seq(Item)]
          /\ \A r \in Senders : holding[r] # <<>> => holding[r][1] \in Item
          /\ <<>> \in Seq(Item)
      BY DEF GapInv, ItemTypes
    <3>2. \A r \in Senders : holding'[r] = IF r = s THEN <<>> ELSE holding[r]
      BY <2>3, <3>1
    <3> QED
      BY <2>3, <3>1, <3>2
  <2> QED
    BY <2>1, <2>2, <2>3
<1> QED
  BY <1>4, <1>5 DEF SendMarker, SendEvent, GapInv, ItemTypes

\* A step of the source of l concerns no other layer.
LEMMA OtherLayers ==
    ASSUME GapInv, ItemTypes', NEW l \in Layers,
           \A c \in Layers \cup {"out"} : c # l => stream'[c] = stream[c],
           \A r \in Senders : r # Source(l) => holding'[r] = holding[r],
           \A r \in Senders : r # Source(l) => (r \in overflow' <=> r \in overflow),
           \A m \in Layers : m # l => (m \in closed' <=> m \in closed) /\ emitted'[m] = emitted[m],
           UNCHANGED <<signalled, seen>>
    PROVE  /\ SameOut /\ SameForward(l)
           /\ \A m \in Layers : m # l => Accounted(m)'
<1>1. SameOut
  BY SenderFacts DEF SameOut
<1>2. \A m \in Layers : SameForward(m)
  BY SenderFacts DEF SameForward, ForwardOwes
<1>3. ASSUME NEW m \in Layers, m # l PROVE Accounted(m)'
  <2>1. SameSource(m) /\ stream'[m] = stream[m]
    BY <1>3, SenderFacts DEF SameSource, SourceOwes
  <2> QED
    BY <1>1, <1>2, <2>1, AccountedFrame DEF GapInv
<1> QED
  BY <1>1, <1>2, <1>3

\* A step of a source.
LEMMA SourceStep ==
    ASSUME GapInv, NEW l \in Layers, SendMarker(Source(l)) \/ SendEvent(Source(l))
    PROVE  \A m \in Layers : Accounted(m)'
<1> DEFINE s == Source(l)
<1>1. s \in Senders /\ Target(s) = l /\ s[2] = l /\ l # "out"
  BY SenderFacts DEF Source
<1> HIDE DEF s
<1>2. ItemTypes'
  BY <1>1, SendTypes DEF s
<1>3. ~Idle(s) /\ UNCHANGED <<closed, emitted, signalled, seen>>
  BY DEF SendMarker, SendEvent, s
<1>4. l \notin closed
  BY <1>1, <1>3, InvSafe DEF GapInv, NoSendOnClosed
<1>5. /\ DOMAIN stream = Layers \cup {"out"} /\ DOMAIN holding = Senders
  BY DEF GapInv, WatchInv, Shape
<1>6. /\ \A c \in Layers \cup {"out"} : c # l => stream'[c] = stream[c]
      /\ \A r \in Senders : r # s => holding'[r] = holding[r]
      /\ \A r \in Senders : r # s => (r \in overflow' <=> r \in overflow)
  BY <1>1, <1>5 DEF SendMarker, SendEvent, s
<1>7. SameOut /\ SameForward(l) /\ \A m \in Layers : m # l => Accounted(m)'
  BY <1>2, <1>3, <1>6, OtherLayers DEF s
<1>8. SourceGoesOn(l)
  <2>1. CASE SendEvent(s) /\ Room(l)
    <3>1. /\ s \notin overflow /\ stream'[l] = Append(stream[l], holding[s][1])
          /\ holding'[s] = <<>> /\ UNCHANGED overflow
      BY <1>1, <1>5, <2>1 DEF SendEvent
    <3> QED
      BY <1>3, <1>4, <3>1, SourceSends DEF s
  <2>2. CASE SendEvent(s) /\ ~Room(l)
    <3>1. /\ s \notin overflow /\ stream'[l] = stream[l]
          /\ holding'[s] = <<>> /\ overflow' = overflow \cup {s}
      BY <1>1, <1>5, <2>2 DEF SendEvent
    <3> QED
      BY <1>3, <1>4, <3>1, SourceDrops DEF s
  <2>3. CASE SendMarker(s) /\ Room(l)
    <3>1. /\ s \in overflow /\ stream'[l] = Append(stream[l], Marker(l))
          /\ holding'[s] = holding[s] /\ overflow' = overflow \ {s}
      BY <1>1, <1>5, <2>3 DEF SendMarker
    <3> QED
      BY <1>3, <1>4, <3>1, SourceMarks DEF s
  <2>4. CASE SendMarker(s) /\ ~Room(l)
    <3>1. /\ s \in overflow /\ stream'[l] = stream[l]
          /\ holding'[s] = <<>> /\ UNCHANGED overflow
      BY <1>1, <1>5, <2>4 DEF SendMarker
    <3> QED
      BY <1>3, <1>4, <3>1, SourceGivesUp DEF s
  <2> QED
    BY <2>1, <2>2, <2>3, <2>4 DEF s
<1>9. Accounted(l)'
  BY <1>7, <1>8, SourceSide DEF GapInv
<1> QED
  BY <1>7, <1>9

\* A step of a forwarder: items of its layer come onto the merged stream.
LEMMA ForwardStep ==
    ASSUME GapInv, NEW l \in Layers, SendMarker(Forward(l)) \/ SendEvent(Forward(l))
    PROVE  \A m \in Layers : Accounted(m)'
<1> DEFINE s == Forward(l)
<1>1. s \in Senders /\ Target(s) = "out" /\ s[2] = l
  BY SenderFacts DEF Forward
<1> HIDE DEF s
<1>2. ~Idle(s) /\ UNCHANGED <<closed, emitted, signalled, seen>>
  BY DEF SendMarker, SendEvent, s
<1>3. /\ DOMAIN stream = Layers \cup {"out"} /\ DOMAIN holding = Senders
  BY DEF GapInv, WatchInv, Shape
<1>4. /\ \A m \in Layers : stream'[m] = stream[m]
      /\ \A r \in Senders : r # s => holding'[r] = holding[r]
      /\ \A r \in Senders : r # s => (r \in overflow' <=> r \in overflow)
  BY <1>1, <1>3, SenderFacts DEF SendMarker, SendEvent, s
<1>5. \A m \in Layers : SameSource(m)
  BY <1>2, <1>4, SenderFacts DEF SameSource, SourceOwes, s
<1>6. \A m \in Layers : m # l => SameForward(m)
  BY <1>2, <1>4, SenderFacts DEF SameForward, ForwardOwes, s
<1>7. /\ seen \in Seq(Item) /\ stream["out"] \in Seq(Item) /\ holding[s][1] \in Item
      /\ holding[s][1].layer = l
      /\ Marker(l) \in Item /\ Marker(l).layer = l
  <2>1. seen \in Seq(Item) /\ stream["out"] \in Seq(Item) /\ holding[s][1] \in Item
    BY <1>1, <1>2 DEF GapInv, ItemTypes, Idle
  <2>2. holding[s][1].layer = l
    BY <1>2 DEF GapInv, Accounted, AtOut, AtForward, Held, Told, Idle, s
  <2> QED
    BY <2>1, <2>2, Items
<1>8. ASSUME NEW e \in Item, e.layer = l, stream'["out"] = Append(stream["out"], e)
      PROVE  /\ seen' \o stream'["out"] = Append(seen \o stream["out"], e)
             /\ \A m \in Layers : m # l => Accounted(m)'
  <2>1. seen' \o stream'["out"] = Append(seen \o stream["out"], e)
    BY <1>2, <1>7, <1>8, OutGrows
  <2> QED
    BY <1>4, <1>5, <1>6, <1>8, <2>1, OtherItem DEF GapInv
<1>9. ASSUME stream'["out"] = stream["out"]
      PROVE  SameOut /\ \A m \in Layers : m # l => Accounted(m)'
  <2>1. SameOut
    BY <1>2, <1>9 DEF SameOut
  <2> QED
    BY <1>4, <1>5, <1>6, <2>1, AccountedFrame DEF GapInv
<1>10. CASE SendEvent(s) /\ Room("out")
  <2>1. /\ s \notin overflow /\ stream'["out"] = Append(stream["out"], holding[s][1])
        /\ holding'[s] = <<>> /\ UNCHANGED overflow
    BY <1>1, <1>3, <1>10 DEF SendEvent
  <2>2. /\ seen' \o stream'["out"] = Append(seen \o stream["out"], holding[s][1])
        /\ \A m \in Layers : m # l => Accounted(m)'
    BY <1>7, <1>8, <2>1
  <2>3. Accounted(l)'
    BY <1>2, <1>4, <1>5, <2>1, <2>2, ForwardSends DEF s
  <2> QED
    BY <2>2, <2>3
<1>11. CASE SendMarker(s) /\ Room("out")
  <2>1. /\ s \in overflow /\ stream'["out"] = Append(stream["out"], Marker(l))
        /\ holding'[s] = holding[s] /\ overflow' = overflow \ {s}
    BY <1>1, <1>3, <1>11 DEF SendMarker
  <2>2. /\ seen' \o stream'["out"] = Append(seen \o stream["out"], Marker(l))
        /\ \A m \in Layers : m # l => Accounted(m)'
    BY <1>7, <1>8, <2>1
  <2>3. l \notin signalled
    BY <1>2 DEF GapInv, WatchInv, DoneIsDrained, s
  <2>4. ForwardOwes(l) /\ ~ForwardOwes(l)'
    BY <2>1, <2>3 DEF ForwardOwes, s
  <2>5. Accounted(l)'
    BY <1>4, <1>5, <2>1, <2>2, <2>4, ForwardMarks DEF s
  <2> QED
    BY <2>2, <2>5
<1>12. CASE ~Room("out")
  <2>1. /\ stream'["out"] = stream["out"] /\ holding'[s] = <<>> /\ s \in overflow'
    BY <1>1, <1>3, <1>12 DEF SendMarker, SendEvent, s
  <2>2. SameOut /\ \A m \in Layers : m # l => Accounted(m)'
    BY <1>9, <2>1
  <2>3. Accounted(l)'
    BY <1>2, <1>4, <1>5, <2>1, <2>2, ForwardDrops DEF s
  <2> QED
    BY <2>2, <2>3
<1> QED
  BY <1>10, <1>11, <1>12 DEF s

\* A layer reports a change.
LEMMA EmitAccounted ==
    ASSUME GapInv, NEW l \in Layers, Emit(l)
    PROVE  ItemTypes' /\ \A m \in Layers : Accounted(m)'
<1>1. /\ DOMAIN stream = Layers \cup {"out"} /\ DOMAIN holding = Senders
      /\ Source(l) \in Senders /\ emitted[l] \in Nat /\ emitted \in [Layers -> Nat]
  BY SenderFacts DEF GapInv, WatchInv, Shape, ItemTypes
<1>2. /\ l \notin closed /\ Idle(Source(l))
      /\ emitted' = [emitted EXCEPT ![l] = emitted[l] + 1]
      /\ holding' = [holding EXCEPT ![Source(l)] = <<Event(l, emitted[l] + 1)>>]
      /\ UNCHANGED <<stream, closed, overflow, signalled, seen>>
  BY DEF Emit
<1>3. Event(l, emitted[l] + 1) \in Item
  BY <1>1, Items
<1>4. ItemTypes'
  <2>1. emitted' \in [Layers -> Nat]
    BY <1>1, <1>2
  <2>2. <<Event(l, emitted[l] + 1)>> \in Seq(Item)
    BY <1>3
  <2>3. /\ holding' \in [Senders -> Seq(Item)]
        /\ \A r \in Senders : holding'[r] # <<>> => holding'[r][1] \in Item
    BY <1>1, <1>2, <1>3, <2>2 DEF GapInv, ItemTypes
  <2> QED
    BY <1>2, <2>1, <2>3 DEF GapInv, ItemTypes
<1>5. SameOut /\ SameForward(l) /\ \A m \in Layers : m # l => Accounted(m)'
  <2>1. \A r \in Senders : r # Source(l) => holding'[r] = holding[r]
    BY <1>1, <1>2
  <2>2. \A m \in Layers : m # l => emitted'[m] = emitted[m]
    BY <1>1, <1>2
  <2> QED
    BY <1>2, <1>4, <2>1, <2>2, OtherLayers
<1>6. holding'[Source(l)] = <<Event(l, emitted[l] + 1)>> /\ emitted'[l] = emitted[l] + 1
  BY <1>1, <1>2
<1>7. SourceGoesOn(l)
  BY <1>2, <1>6, SourceReports
<1> QED
  BY <1>4, <1>5, <1>7, SourceSide DEF GapInv

\* A forwarder takes an item.
LEMMA ReceiveAccounted ==
    ASSUME GapInv, NEW l \in Layers, ForwardReceive(l)
    PROVE  ItemTypes' /\ \A m \in Layers : Accounted(m)'
<1>1. /\ DOMAIN stream = Layers \cup {"out"} /\ DOMAIN holding = Senders
      /\ Forward(l) \in Senders /\ l # "out"
      /\ stream[l] \in Seq(Item)
  BY SenderFacts DEF GapInv, WatchInv, Shape, ItemTypes
<1>2. /\ Idle(Forward(l)) /\ stream[l] # <<>>
      /\ holding' = [holding EXCEPT ![Forward(l)] = <<Head(stream[l])>>]
      /\ stream' = [stream EXCEPT ![l] = Tail(stream[l])]
      /\ UNCHANGED <<closed, overflow, emitted, signalled, seen>>
  BY DEF ForwardReceive
<1>3. Head(stream[l]) \in Item /\ Tail(stream[l]) \in Seq(Item)
      /\ <<Head(stream[l])>> \in Seq(Item)
  BY <1>1, <1>2
<1>4. ItemTypes'
  <2>1. stream' \in [Layers \cup {"out"} -> Seq(Item)]
    BY <1>2, <1>3 DEF GapInv, ItemTypes
  <2>2. /\ holding' \in [Senders -> Seq(Item)]
        /\ \A r \in Senders : holding'[r] # <<>> => holding'[r][1] \in Item
    BY <1>1, <1>2, <1>3 DEF GapInv, ItemTypes
  <2> QED
    BY <1>2, <2>1, <2>2 DEF GapInv, ItemTypes
<1>5. SameOut
  BY <1>1, <1>2 DEF SameOut
<1>6. \A m \in Layers : SameSource(m) /\ (ForwardOwes(m)' <=> ForwardOwes(m))
  BY <1>1, <1>2, SenderFacts DEF SameSource, SourceOwes, ForwardOwes
<1>7. ASSUME NEW m \in Layers, m # l PROVE Accounted(m)'
  <2>1. SameForward(m) /\ stream'[m] = stream[m]
    BY <1>1, <1>2, <1>6, <1>7, SenderFacts DEF SameForward
  <2> QED
    BY <1>5, <1>6, <2>1, AccountedFrame DEF GapInv
<1>8. Accounted(l)'
  <2>1. stream'[l] = Tail(stream[l]) /\ holding'[Forward(l)] = <<Head(stream[l])>>
    BY <1>1, <1>2
  <2> QED
    BY <1>2, <1>5, <1>6, <2>1, ForwardTakes
<1> QED
  BY <1>4, <1>7, <1>8

\* A forwarder signals.
LEMMA EndAccounted ==
    ASSUME GapInv, NEW l \in Layers, ForwardEnd(l)
    PROVE  ItemTypes' /\ \A m \in Layers : Accounted(m)'
<1> DEFINE s == Forward(l)
<1>1. /\ DOMAIN stream = Layers \cup {"out"}
      /\ s \in Senders /\ Target(s) = "out" /\ s[2] = l
      /\ stream["out"] \in Seq(Item) /\ seen \in Seq(Item)
  BY SenderFacts DEF GapInv, WatchInv, Shape, ItemTypes, Forward
<1>2. /\ l \in closed /\ stream[l] = <<>> /\ Idle(s) /\ l \notin signalled
      /\ stream' = [stream EXCEPT !["out"] = Flushed(s)]
      /\ signalled' = signalled \cup {l}
      /\ UNCHANGED <<closed, holding, overflow, emitted, seen>>
  BY DEF ForwardEnd
<1>3. Marker(l) \in Item /\ Marker(l).layer = l
  BY Items
<1>4. \/ Flushed(s) = stream["out"]
      \/ ForwardOwes(l) /\ Flushed(s) = Append(stream["out"], Marker(l))
  BY <1>1, <1>2 DEF Flushed, ForwardOwes
<1> HIDE DEF s
<1>5. ItemTypes'
  <2>1. Flushed(s) \in Seq(Item)
    BY <1>1, <1>3, <1>4
  <2>2. stream' \in [Layers \cup {"out"} -> Seq(Item)]
    BY <1>2, <2>1 DEF GapInv, ItemTypes
  <2> QED
    BY <1>2, <2>2 DEF GapInv, ItemTypes
<1>6. stream'["out"] = Flushed(s) /\ \A m \in Layers : stream'[m] = stream[m]
  BY <1>1, <1>2, SenderFacts
<1>7. \A m \in Layers : SameSource(m)
  BY <1>2 DEF SameSource, SourceOwes
<1>8. \A m \in Layers : m # l => SameForward(m)
  BY <1>2 DEF SameForward, ForwardOwes
<1>9. ~ForwardOwes(l)' /\ holding'[s] = holding[s]
  BY <1>2 DEF ForwardOwes
<1>10. CASE Flushed(s) = stream["out"]
  <2>1. SameOut
    BY <1>2, <1>6, <1>10 DEF SameOut
  <2>2. \A m \in Layers : m # l => Accounted(m)'
    BY <1>6, <1>7, <1>8, <2>1, AccountedFrame DEF GapInv
  <2>3. Accounted(l)'
    BY <1>2, <1>6, <1>7, <1>9, <2>1, ForwardSignals DEF s
  <2> QED
    BY <1>5, <2>2, <2>3
<1>11. CASE ForwardOwes(l) /\ Flushed(s) = Append(stream["out"], Marker(l))
  <2>1. seen' \o stream'["out"] = Append(seen \o stream["out"], Marker(l))
    BY <1>1, <1>2, <1>3, <1>6, <1>11, OutGrows
  <2>2. \A m \in Layers : m # l => Accounted(m)'
    BY <1>3, <1>6, <1>7, <1>8, <2>1, OtherItem DEF GapInv
  <2>3. Accounted(l)'
    BY <1>2, <1>6, <1>7, <1>9, <1>11, <2>1, ForwardSignals DEF s
  <2> QED
    BY <1>5, <2>2, <2>3
<1> QED
  BY <1>4, <1>10, <1>11

\* The stream of a layer is closed, by stop or by the pump of fsnotify.
LEMMA CloseAccounted ==
    ASSUME GapInv, NEW l \in Layers, l \notin closed, Idle(Source(l)),
           closed' = closed \cup {l},
           stream' = [stream EXCEPT ![l] = Flushed(Source(l))],
           UNCHANGED <<holding, overflow, emitted, signalled, seen>>
    PROVE  ItemTypes' /\ \A m \in Layers : Accounted(m)'
<1>1. /\ DOMAIN stream = Layers \cup {"out"}
      /\ Target(Source(l)) = l /\ Source(l)[2] = l
      /\ stream[l] \in Seq(Item) /\ Marker(l) \in Item
  BY SenderFacts, Items DEF GapInv, WatchInv, Shape, ItemTypes, Source
<1>2. Flushed(Source(l)) \in Seq(Item)
  BY <1>1 DEF Flushed
<1>3. stream' \in [Layers \cup {"out"} -> Seq(Item)]
  BY <1>2 DEF GapInv, ItemTypes
<1>4. ItemTypes'
  BY <1>3 DEF GapInv, ItemTypes
<1>5. /\ \A c \in Layers \cup {"out"} : c # l => stream'[c] = stream[c]
      /\ stream'[l] = Flushed(Source(l))
  BY <1>1
<1>6. SameOut /\ SameForward(l) /\ \A m \in Layers : m # l => Accounted(m)'
  BY <1>4, <1>5, OtherLayers
<1>7. SourceGoesOn(l)
  BY <1>5, SourceCloses
<1> QED
  BY <1>4, <1>6, <1>7, SourceSide DEF GapInv

\* Nothing of the pipe changes, but perhaps where out ends and seen begins.
LEMMA QuietAccounted ==
    ASSUME GapInv, ItemTypes', SameOut, \A l \in Layers : stream'[l] = stream[l],
           \A l \in Layers : l \in closed' <=> l \in closed,
           UNCHANGED <<holding, overflow, emitted, signalled>>
    PROVE  \A l \in Layers : Accounted(l)'
<1> SUFFICES ASSUME NEW l \in Layers PROVE Accounted(l)'
  OBVIOUS
<1>1. SameSource(l) /\ SameForward(l)
  BY DEF SameSource, SameForward, SourceOwes, ForwardOwes
<1> QED
  BY <1>1, AccountedFrame DEF GapInv

\* Before anything is sent everything is accounted for.
LEMMA GapInit == WatchInit => GapInv
<1> SUFFICES ASSUME WatchInit PROVE GapInv
  OBVIOUS
<1>1. WatchInv
  BY WatchInitInv
<1>2. ItemTypes
  BY DEF WatchInit, ItemTypes
<1>3. ASSUME NEW l \in Layers PROVE Accounted(l)
  <2>1. /\ seen \o stream["out"] = <<>> /\ stream[l] = <<>>
        /\ holding[Source(l)] = <<>> /\ holding[Forward(l)] = <<>>
        /\ overflow = {} /\ emitted[l] = 0
    BY SenderFacts DEF WatchInit
  <2>2. Nothing \in Mark /\ Nothing.op = "change" /\ Nothing.n = 0
    BY DEF Nothing, Mark
  <2>3. Merged(l, <<>>, Nothing)
    <3> DEFINE f == [k \in 0..0 |-> Nothing]
    <3>1. f \in [0..Len(<<>>) -> Mark] /\ f[0] = Nothing /\ f[Len(<<>>)] = Nothing
      BY <2>2
    <3>2. IsMerged(l, <<>>, f)
      BY DEF IsMerged
    <3> HIDE DEF f
    <3> QED
      BY <3>1, <3>2 DEF Merged
  <2>4. AtSource(l, Nothing)
    BY <2>1, <2>2 DEF AtSource, SourceOwes, Held
  <2>5. AtForward(l, Nothing)
    BY <2>1, <2>2, <2>4, TraceEmpty DEF AtForward, Held
  <2>6. AtOut(l, Nothing)
    BY <2>1, <2>2, <2>5 DEF AtOut, ForwardOwes
  <2> QED
    BY <2>1, <2>2, <2>3, <2>6 DEF Accounted
<1> QED
  BY <1>1, <1>2, <1>3 DEF GapInv

\* Every step keeps everything accounted for.
LEMMA GapNext == GapInv /\ [WatchNext]_watchVars => GapInv'
<1> SUFFICES ASSUME GapInv, [WatchNext]_watchVars
             PROVE  ItemTypes' /\ \A l \in Layers : Accounted(l)'
  BY WatchNextInv DEF GapInv
<1> DEFINE Kept == ItemTypes' /\ \A l \in Layers : Accounted(l)'
<1>1. ASSUME NEW s \in Senders, SendMarker(s) \/ SendEvent(s) PROVE Kept
  <2>1. PICK l \in Layers : s = Source(l) \/ s = Forward(l)
    BY SenderFacts
  <2>2. ItemTypes'
    BY <1>1, SendTypes
  <2>3. \A m \in Layers : Accounted(m)'
    BY <1>1, <2>1, SourceStep, ForwardStep
  <2> QED
    BY <2>2, <2>3
<1>2. ASSUME NEW l \in Layers, Emit(l) PROVE Kept
  BY <1>2, EmitAccounted
<1>3. ASSUME NEW l \in Layers, ForwardReceive(l) PROVE Kept
  BY <1>3, ReceiveAccounted
<1>4. ASSUME NEW l \in Layers, ForwardEnd(l) PROVE Kept
  BY <1>4, EndAccounted
<1>5. ASSUME NEW l \in Layers, FsnotifyEnd(l) PROVE Kept
  BY <1>5, CloseAccounted DEF FsnotifyEnd
<1>6. ASSUME SameOut, \A l \in Layers : stream'[l] = stream[l],
             \A l \in Layers : l \in closed' <=> l \in closed,
             UNCHANGED <<holding, overflow, emitted, signalled>>, ItemTypes'
      PROVE  Kept
  BY <1>6, QuietAccounted
<1>7. ASSUME UNCHANGED <<stream, holding, overflow, emitted, signalled, seen>>,
             \A l \in Layers : l \in closed' <=> l \in closed
      PROVE  Kept
  <2>1. ItemTypes'
    BY <1>7 DEF GapInv, ItemTypes
  <2>2. SameOut
    BY <1>7 DEF SameOut
  <2> QED
    BY <1>6, <1>7, <2>1, <2>2
<1>8. CASE CloseOut
  BY <1>7, <1>8, SenderFacts DEF CloseOut
<1>9. CASE Unwatch
  BY <1>7, <1>9 DEF Unwatch
<1>10. CASE StopNext
  <2> DEFINE l == StopOrder[stopping]
  <2>1. l \in Layers /\ l \notin closed
    BY <1>10, WatchAssumption DEF StopNext, Layers, GapInv, WatchInv, StopHasPassed, Shape
  <2>2. CASE l \notin Fsnotify
    BY <1>10, <2>1, <2>2, CloseAccounted DEF StopNext
  <2>3. CASE l \in Fsnotify
    BY <1>7, <1>10, <2>3 DEF StopNext
  <2> QED
    BY <2>2, <2>3
<1>11. CASE Pump
  <2>1. /\ seen \in Seq(Item) /\ stream["out"] \in Seq(Item) /\ stream["out"] # <<>>
        /\ stream \in [Layers \cup {"out"} -> Seq(Item)]
    BY <1>11 DEF Pump, GapInv, ItemTypes
  <2>2. /\ seen' = Append(seen, Head(stream["out"]))
        /\ stream' = [stream EXCEPT !["out"] = Tail(stream["out"])]
        /\ UNCHANGED <<closed, holding, overflow, emitted, signalled>>
    BY <1>11 DEF Pump
  <2>3. Head(stream["out"]) \in Item /\ Tail(stream["out"]) \in Seq(Item)
    BY <2>1
  <2>4. stream'["out"] = Tail(stream["out"]) /\ \A l \in Layers : stream'[l] = stream[l]
    BY <2>1, <2>2, SenderFacts
  <2>5. SameOut
    BY <2>1, <2>2, <2>4, OutRead DEF SameOut
  <2>6. ItemTypes'
    <3>1. seen' \in Seq(Item)
      BY <2>1, <2>2, <2>3
    <3>2. stream' \in [Layers \cup {"out"} -> Seq(Item)]
      BY <2>1, <2>2, <2>3
    <3> QED
      BY <2>2, <3>1, <3>2 DEF GapInv, ItemTypes
  <2> QED
    BY <1>6, <2>2, <2>4, <2>5, <2>6
<1>12. CASE PumpEnd
  BY <1>7, <1>12 DEF PumpEnd
<1>13. CASE UNCHANGED watchVars
  BY <1>7, <1>13 DEF watchVars
<1> QED
  BY <1>1, <1>2, <1>3, <1>4, <1>5, <1>8, <1>9, <1>10, <1>11, <1>12, <1>13 DEF WatchNext

-----------------------------------------------------------------------------
\* What has been told of a layer, position by position of seen: it only goes
\* on, at every item of the layer, and stays within what was reported.
IsAccount(l, f) ==
    /\ f \in [0..Len(seen) -> Mark]
    /\ f[0] = Nothing
    /\ IsMerged(l, seen, f)
    /\ \A k \in 0..Len(seen) : f[k].n <= emitted[l]
    /\ \A i, j \in 0..Len(seen) : i <= j => f[i].n <= f[j].n

\* An account of a merged stream goes on.
LEMMA MergedGrows ==
    ASSUME NEW l, NEW s \in Seq(Item), NEW f \in [0..Len(s) -> Mark], IsMerged(l, s, f),
           NEW i \in 0..Len(s), NEW j \in 0..Len(s), i <= j
    PROVE  f[i].n <= f[j].n
<1> DEFINE S == {k \in 0..Len(s) : i <= k /\ ~(f[i].n <= f[k].n)}
<1>1. Len(s) \in Nat /\ \A k \in 0..Len(s) : f[k].n \in Nat
  BY DEF Mark
<1>2. CASE S = {}
  BY <1>2
<1>3. CASE S # {}
  <2>1. S \in SUBSET Nat
    BY <1>1
  <2>2. PICK k \in S : \A m \in S : k <= m
    BY <1>3, <2>1, LeastNat
  <2>3. k # i
    BY <1>1, <2>2
  <2>4. k \in 1..Len(s) /\ k - 1 \in 0..Len(s) /\ i <= k - 1 /\ k - 1 \notin S
    BY <1>1, <2>2, <2>3
  <2>5. f[k - 1].n <= f[k].n
    <3>1. f[k] = f[k - 1] \/ f[k].n > f[k - 1].n
      BY <2>4 DEF IsMerged, Told
    <3> QED
      BY <1>1, <2>4, <3>1
  <2> QED
    BY <1>1, <2>2, <2>4, <2>5
<1> QED
  BY <1>2, <1>3

\* The invariant gives such an account of every layer.
LEMMA AccountExists == ASSUME GapInv, NEW l \in Layers PROVE \E f : IsAccount(l, f)
<1> DEFINE W == seen \o stream["out"]
<1>1. PICK a \in Mark : Merged(l, W, a) /\ AtOut(l, a)
  BY DEF GapInv, Accounted
<1>2. PICK f \in [0..Len(W) -> Mark] : f[0] = Nothing /\ f[Len(W)] = a /\ IsMerged(l, W, f)
  BY <1>1 DEF Merged
<1>3. /\ W \in Seq(Item) /\ Len(W) \in Nat /\ Len(seen) \in Nat /\ Len(seen) <= Len(W)
      /\ \A k \in 1..Len(seen) : W[k] = seen[k]
      /\ emitted[l] \in Nat /\ stream[l] \in Seq(Item)
  BY DEF GapInv, ItemTypes
<1> HIDE DEF W
<1>4. a.n <= emitted[l]
  <2>1. PICK b \in Mark : (IF ForwardOwes(l) THEN Owes(a, b) ELSE b = a) /\ AtForward(l, b)
    BY <1>1 DEF AtOut
  <2>2. PICK c, d \in Mark : /\ Held(l, holding[Forward(l)], b, c)
                             /\ Trace(l, stream[l], c, d)
                             /\ AtSource(l, d)
    BY <2>1 DEF AtForward
  <2>3. a.n <= b.n /\ b.n <= c.n
    BY <2>1, <2>2 DEF Owes, Held, Told, Mark
  <2>4. c.n <= d.n /\ d.n <= emitted[l]
    BY <1>3, <2>2, TraceGrows, SourceBound
  <2> QED
    BY <1>3, <2>3, <2>4 DEF Mark
<1> DEFINE g == [k \in 0..Len(seen) |-> f[k]]
<1>5. g \in [0..Len(seen) -> Mark] /\ g[0] = Nothing /\ \A k \in 0..Len(seen) : g[k] = f[k]
  BY <1>2, <1>3
<1> HIDE DEF g
<1>6. IsMerged(l, seen, g)
  <2> SUFFICES ASSUME NEW k \in 1..Len(seen)
               PROVE  IF seen[k].layer = l THEN Told(l, g[k - 1], seen[k], g[k])
                                           ELSE g[k] = g[k - 1]
    BY DEF IsMerged
  <2>1. k \in 1..Len(W) /\ W[k] = seen[k] /\ g[k] = f[k] /\ g[k - 1] = f[k - 1]
    BY <1>3, <1>5
  <2> QED
    BY <1>2, <2>1 DEF IsMerged
<1>7. \A i, j \in 0..Len(seen) : i <= j => g[i].n <= g[j].n
  BY <1>6, <1>5, MergedGrows DEF GapInv, ItemTypes
<1>8. ASSUME NEW k \in 0..Len(seen) PROVE g[k].n <= emitted[l]
  <2>1. k \in 0..Len(W) /\ Len(W) \in 0..Len(W) /\ k <= Len(W)
    BY <1>3
  <2>2. f[k].n <= a.n
    BY <1>2, <1>3, <2>1, MergedGrows
  <2>3. f[k].n \in Nat /\ a.n \in Nat
    BY <2>1 DEF Mark
  <2> QED
    BY <1>3, <1>4, <1>5, <2>2, <2>3
<1> QED
  BY <1>5, <1>6, <1>7, <1>8 DEF IsAccount

\* Between two changes that follow each other in an account, the markers have
\* different numbers between those of the changes, and if there is none the
\* two changes are consecutive.
LEMMA AccountMarks ==
    ASSUME ItemTypes, NEW l \in Layers, NEW f, IsAccount(l, f),
           NEW i \in Changes(l) \cup {0, Len(seen) + 1},
           NEW j \in Changes(l) \cup {0, Len(seen) + 1},
           i < j, \A k \in Changes(l) : k <= i \/ k >= j
    PROVE  LET markers == {k \in (i + 1)..(j - 1) : seen[k].layer = l}
               lost == Number(l, j) - Number(l, i) - 1
           IN  /\ Number(l, j) > Number(l, i)
               /\ Cardinality(markers) <= lost
               /\ j <= Len(seen) /\ lost > 0 => markers # {}
<1> DEFINE markers == {k \in (i + 1)..(j - 1) : seen[k].layer = l}
           N1 == Number(l, i)
           N2 == Number(l, j)
<1>1. /\ Len(seen) \in Nat /\ emitted[l] \in Nat
      /\ \A k \in 0..Len(seen) : f[k] \in Mark /\ f[k].n \in Nat
      /\ \A k \in 1..Len(seen) : seen[k] \in Item
  <2>1. Len(seen) \in Nat /\ emitted[l] \in Nat
    BY DEF ItemTypes
  <2>2. \A k \in 0..Len(seen) : f[k] \in Mark
    BY DEF IsAccount
  <2>3. \A k \in 0..Len(seen) : f[k].n \in Nat
    BY <2>2 DEF Mark
  <2>4. \A k \in 1..Len(seen) : seen[k] \in Item
    BY DEF ItemTypes
  <2> QED
    BY <2>1, <2>2, <2>3, <2>4
<1>2. i \in 0..Len(seen) /\ j \in 1..(Len(seen) + 1)
  BY <1>1 DEF Changes
<1>3. \A k \in 1..Len(seen) : seen[k].layer = l => Told(l, f[k - 1], seen[k], f[k])
  BY DEF IsAccount, IsMerged
<1>4. \A k \in 1..Len(seen) : seen[k].layer # l => f[k] = f[k - 1]
  BY DEF IsAccount, IsMerged
<1>5. \A a, b \in 0..Len(seen) : a <= b => f[a].n <= f[b].n
  BY DEF IsAccount
<1>6. f[i].op = "change" /\ f[i].n = N1
  <2>1. CASE i = 0
    BY <2>1 DEF IsAccount, Nothing, Number
  <2>2. CASE i # 0
    <3>1. i \in Changes(l) /\ i \in 1..Len(seen)
      BY <1>1, <1>2, <2>2
    <3>2. Told(l, f[i - 1], seen[i], f[i]) /\ seen[i].op = "change"
      BY <1>3, <3>1 DEF Changes
    <3>3. N1 = seen[i].n
      BY <1>1, <3>1 DEF Number
    <3> QED
      BY <3>2, <3>3 DEF Told
  <2> QED
    BY <2>1, <2>2
<1>7. /\ N2 \in Nat /\ j - 1 \in 0..Len(seen) /\ f[j - 1].n < N2
      /\ j <= Len(seen) /\ f[j - 1].op = "change" => N2 = f[j - 1].n + 1
  <2>1. j - 1 \in 0..Len(seen)
    BY <1>1, <1>2
  <2>2. CASE j = Len(seen) + 1
    <3>1. N2 = emitted[l] + 1
      BY <1>1, <2>2 DEF Number
    <3>2. f[j - 1].n <= emitted[l]
      BY <2>1 DEF IsAccount
    <3> QED
      BY <1>1, <2>1, <2>2, <3>1, <3>2
  <2>3. CASE j # Len(seen) + 1
    <3>1. j \in Changes(l) /\ j \in 1..Len(seen)
      BY <1>1, <1>2, <2>3
    <3>2. Told(l, f[j - 1], seen[j], f[j]) /\ seen[j].op = "change"
      BY <1>3, <3>1 DEF Changes
    <3>3. N2 = seen[j].n /\ seen[j].n \in Nat
      BY <1>1, <3>1 DEF Number, Item
    <3> QED
      BY <1>1, <2>1, <3>1, <3>2, <3>3 DEF Told
  <2> QED
    BY <2>2, <2>3
<1> HIDE DEF N1, N2
<1>8. N1 \in Nat /\ N1 <= f[j - 1].n /\ i <= j - 1
  BY <1>1, <1>2, <1>5, <1>6, <1>7
<1>9. N2 > N1
  BY <1>1, <1>7, <1>8
<1>10. \A k \in markers : /\ k \in 1..Len(seen) /\ k - 1 \in 0..Len(seen) /\ i <= k - 1 /\ k <= j - 1
                          /\ f[k - 1].n < f[k].n
                          /\ f[k].n \in (N1 + 1)..(N2 - 1)
  <2> SUFFICES ASSUME NEW k \in markers
               PROVE  /\ k \in 1..Len(seen) /\ k - 1 \in 0..Len(seen) /\ i <= k - 1 /\ k <= j - 1
                      /\ f[k - 1].n < f[k].n
                      /\ f[k].n \in (N1 + 1)..(N2 - 1)
    OBVIOUS
  <2>1. k \in 1..Len(seen) /\ k - 1 \in 0..Len(seen) /\ i <= k - 1 /\ k <= j - 1
        /\ seen[k].layer = l /\ k \in 0..Len(seen)
    BY <1>1, <1>2
  <2>2. f[k - 1].n < f[k].n
    BY <1>1, <1>3, <2>1 DEF Told
  <2>3. f[i].n <= f[k - 1].n /\ f[k].n <= f[j - 1].n
    BY <1>2, <1>5, <1>7, <2>1
  <2>4. /\ f[k].n \in Nat /\ f[k - 1].n \in Nat /\ f[j - 1].n \in Nat
        /\ N1 <= f[k - 1].n /\ f[j - 1].n < N2 /\ N2 \in Nat /\ N1 \in Nat
    BY <1>1, <1>6, <1>7, <1>8, <2>1, <2>3
  <2>5. f[k].n \in (N1 + 1)..(N2 - 1)
    BY <2>2, <2>3, <2>4
  <2> QED
    BY <2>1, <2>2, <2>5
<1>11. Cardinality(markers) <= N2 - N1 - 1
  <2> DEFINE h == [k \in markers |-> f[k].n]
  <2>1. \A k, m \in markers : k < m => f[k].n < f[m].n
    <3> SUFFICES ASSUME NEW k \in markers, NEW m \in markers, k < m PROVE f[k].n < f[m].n
      OBVIOUS
    <3>1. /\ k \in 1..Len(seen) /\ m \in 1..Len(seen) /\ m - 1 \in 0..Len(seen)
          /\ f[m - 1].n < f[m].n
      BY <1>10
    <3>2. k \in 0..Len(seen) /\ k <= m - 1 /\ m \in 0..Len(seen)
      BY <1>1, <3>1
    <3>3. f[k].n <= f[m - 1].n
      BY <1>5, <3>1, <3>2
    <3> QED
      BY <1>1, <3>1, <3>2, <3>3
  <2>2. \A k, m \in markers : f[k].n = f[m].n => k = m
    <3> SUFFICES ASSUME NEW k \in markers, NEW m \in markers, k # m PROVE f[k].n # f[m].n
      OBVIOUS
    <3>1. k \in 0..Len(seen) /\ m \in 0..Len(seen) /\ (k < m \/ m < k)
      BY <1>1, <1>10
    <3> QED
      BY <1>1, <2>1, <3>1
  <2>3. h \in Injection(markers, (N1 + 1)..(N2 - 1))
    BY <1>10, <2>2 DEF Injection, IsInjective
  <2>4. /\ IsFiniteSet((N1 + 1)..(N2 - 1))
        /\ Cardinality((N1 + 1)..(N2 - 1)) = N2 - N1 - 1
    <3>1. N1 + 1 \in Int /\ N2 - 1 \in Int
      BY <1>7, <1>8
    <3>2. /\ IsFiniteSet((N1 + 1)..(N2 - 1))
          /\ Cardinality((N1 + 1)..(N2 - 1))
                = IF N1 + 1 > N2 - 1 THEN 0 ELSE (N2 - 1) - (N1 + 1) + 1
      BY <3>1, FS_Interval
    <3>3. N1 + 1 > N2 - 1 => N2 - N1 - 1 = 0
      BY <1>7, <1>8, <1>9
    <3>4. (N2 - 1) - (N1 + 1) + 1 = N2 - N1 - 1
      BY <1>7, <1>8
    <3> QED
      BY <3>2, <3>3, <3>4
  <2> QED
    BY <2>3, <2>4, FS_Injection
<1>12. ASSUME markers = {}, j <= Len(seen) PROVE N2 - N1 - 1 = 0
  <2> DEFINE S == {k \in 0..Len(seen) : i <= k /\ k <= j - 1 /\ f[k] # f[i]}
  <2>1. S = {}
    <3> SUFFICES ASSUME S # {} PROVE FALSE
      OBVIOUS
    <3>1. PICK k \in S : \A m \in S : k <= m
      <4>1. S \in SUBSET Nat
        BY <1>1
      <4> QED
        BY <4>1, LeastNat
    <3>2. k \in (i + 1)..(j - 1) /\ k \in 1..Len(seen) /\ k - 1 \in 0..Len(seen)
          /\ k - 1 \notin S /\ i <= k - 1 /\ k - 1 <= j - 1
      BY <1>1, <1>2, <3>1
    <3>3. f[k - 1] = f[i]
      BY <3>2
    <3>4. f[k] = f[k - 1]
      BY <1>4, <1>12, <3>2
    <3> QED
      BY <3>1, <3>3, <3>4
  <2>2. f[j - 1] = f[i]
    BY <1>7, <1>8, <2>1
  <2> QED
    BY <1>6, <1>7, <1>8, <1>12, <2>2
<1> QED
  BY <1>9, <1>11, <1>12 DEF N1, N2

(***************************************************************************)
(* A watcher is told of every gap, and of nothing else: for any number of  *)
(* layers, any buffers and any number of changes, the changes of a layer   *)
(* reach the callback in their order, two that follow each other have a    *)
(* marker between them exactly if changes between them were lost, and      *)
(* there are never more markers than lost changes, although the source and *)
(* the forwarder of a layer each drop changes and markers on their own.    *)
(***************************************************************************)
THEOREM GapsAreMarked == WatchSpec => []GapIsMarked
<1>1. GapInv => GapIsMarked
  <2> SUFFICES ASSUME GapInv PROVE GapIsMarked
    OBVIOUS
  <2>1. ASSUME NEW l \in Layers PROVE \E f : IsAccount(l, f)
    BY AccountExists
  <2> QED
    BY <2>1, AccountMarks DEF GapInv, GapIsMarked
<1> QED
  BY <1>1, GapInit, GapNext, PTL DEF WatchSpec
=============================================================================

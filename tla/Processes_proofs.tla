-------------------------- MODULE Processes_proofs --------------------------
(***************************************************************************)
(* Safety of the name registry and of the mailboxes for any number of      *)
(* processes, goroutines, names, messages and any capacities, the          *)
(* refinement to message queues, what is delivered, and that no sender     *)
(* sleeps on a process that is gone.  RuntimeInv is inductive for the      *)
(* registry alone, Inv for the mailboxes: MailboxBounded needs Lifecycle   *)
(* (a spawn configures an empty mailbox), and so does NoSleepingReceiver   *)
(* (a goroutine waits on the process it names, in whose mailbox only Send  *)
(* appends).  Delivery, on top of Inv, follows messages; ExitUnderWay      *)
(* follows an exit from leaving the table to closing the mailbox.          *)
(***************************************************************************)
EXTENDS Processes, TLAPS

RuntimeInv == RuntimeTypeOK /\ NameBackPointer

\* What NewProcessRuntime builds satisfies the invariant.
LEMMA RuntimeInitInv == RuntimeInit => RuntimeInv
BY RuntimeAssumption DEF RuntimeInit, RuntimeInv, RuntimeTypeOK, NameBackPointer

\* NewProcess followed by Insert keeps the invariant: no name changes hands.
LEMMA InsertInv ==
    ASSUME RuntimeInv, NEW p \in Proc, Insert(p)
    PROVE  RuntimeInv'
BY DEF RuntimeInv, RuntimeTypeOK, NameBackPointer, Insert

\* Remove keeps it: the only binding it deletes is the one the leaving
\* process remembers, and no other process remembers that name.
LEMMA RemoveInv ==
    ASSUME RuntimeInv, NEW p \in Proc, Remove(p)
    PROVE  RuntimeInv'
<1>1. RuntimeTypeOK'
  BY RuntimeAssumption DEF RuntimeInv, RuntimeTypeOK, Remove
<1>2. NameBackPointer'
  <2> SUFFICES ASSUME NEW q \in Proc, name'[q] # NoName
               PROVE  names'[name'[q]] = q
    BY DEF NameBackPointer
  <2>1. q # p /\ name'[q] = name[q]
    BY DEF RuntimeInv, RuntimeTypeOK, Remove
  <2>2. names[name[q]] = q /\ name[q] \in Name
    BY <2>1 DEF RuntimeInv, RuntimeTypeOK, NameBackPointer
  <2> QED
    BY <2>1, <2>2 DEF Remove
<1> QED
  BY <1>1, <1>2 DEF RuntimeInv

\* RegisterName keeps it: a previous holder of the name forgets its own,
\* and the new holder remembers only the latest of its names.
LEMMA RegisterNameInv ==
    ASSUME RuntimeInv, NEW n \in Name, NEW p \in Proc, RegisterName(n, p)
    PROVE  RuntimeInv'
<1>1. RuntimeTypeOK'
  BY RuntimeAssumption DEF RuntimeInv, RuntimeTypeOK, RegisterName
<1>2. NameBackPointer'
  <2> SUFFICES ASSUME NEW q \in Proc, name'[q] # NoName
               PROVE  names'[name'[q]] = q
    BY DEF NameBackPointer
  <2>1. CASE q = p
    BY <2>1 DEF RuntimeInv, RuntimeTypeOK, RegisterName
  <2>2. CASE q # p
    <3>1. q # names[n] /\ name'[q] = name[q]
      BY <2>2 DEF RuntimeInv, RuntimeTypeOK, RegisterName
    <3>2. names[name[q]] = q /\ name[q] \in Name
      BY <3>1 DEF RuntimeInv, RuntimeTypeOK, NameBackPointer
    <3>3. name[q] # n
      BY <3>1, <3>2
    <3> QED
      BY <3>1, <3>2, <3>3 DEF RuntimeInv, RuntimeTypeOK, RegisterName
  <2> QED
    BY <2>1, <2>2
<1> QED
  BY <1>1, <1>2 DEF RuntimeInv

\* UnregisterName keeps it: the holder forgets its name, and nobody else
\* can remember the deleted one.
LEMMA UnregisterNameInv ==
    ASSUME RuntimeInv, NEW n \in Name, UnregisterName(n)
    PROVE  RuntimeInv'
<1>1. names[n] \in Proc
  BY DEF RuntimeInv, RuntimeTypeOK, UnregisterName
<1>2. RuntimeTypeOK'
  BY <1>1, RuntimeAssumption DEF RuntimeInv, RuntimeTypeOK, UnregisterName
<1>3. NameBackPointer'
  <2> SUFFICES ASSUME NEW q \in Proc, name'[q] # NoName
               PROVE  names'[name'[q]] = q
    BY DEF NameBackPointer
  <2>1. q # names[n] /\ name'[q] = name[q]
    BY <1>1 DEF RuntimeInv, RuntimeTypeOK, UnregisterName
  <2>2. names[name[q]] = q /\ name[q] \in Name
    BY <2>1 DEF RuntimeInv, RuntimeTypeOK, NameBackPointer
  <2>3. name[q] # n
    BY <2>1, <2>2
  <2> QED
    BY <2>1, <2>2, <2>3 DEF RuntimeInv, RuntimeTypeOK, UnregisterName
<1> QED
  BY <1>2, <1>3 DEF RuntimeInv

\* Every method of ProcessRuntime, and a step that calls none, keeps it.
LEMMA RuntimeNextInv == RuntimeInv /\ [RuntimeNext]_rtVars => RuntimeInv'
<1> SUFFICES ASSUME RuntimeInv, [RuntimeNext]_rtVars
             PROVE  RuntimeInv'
  OBVIOUS
<1>1. ASSUME NEW p \in Proc, Insert(p) PROVE RuntimeInv'
  BY <1>1, InsertInv
<1>2. ASSUME NEW p \in Proc, Remove(p) PROVE RuntimeInv'
  BY <1>2, RemoveInv
<1>3. ASSUME NEW n \in Name, NEW p \in Proc, RegisterName(n, p) PROVE RuntimeInv'
  BY <1>3, RegisterNameInv
<1>4. ASSUME NEW n \in Name, UnregisterName(n) PROVE RuntimeInv'
  BY <1>4, UnregisterNameInv
<1>5. CASE SetDown
  BY <1>5 DEF RuntimeInv, RuntimeTypeOK, NameBackPointer, SetDown
<1>6. CASE UNCHANGED rtVars
  BY <1>6 DEF RuntimeInv, RuntimeTypeOK, NameBackPointer, rtVars
<1> QED
  BY <1>1, <1>2, <1>3, <1>4, <1>5, <1>6 DEF RuntimeNext

\* The process table and the name registry keep their types, and the name a
\* process remembers (the one Remove cleans up on its exit) always resolves
\* back to that process, however calls on the runtime interleave.
THEOREM RuntimeSafe == RuntimeSpec => [](RuntimeTypeOK /\ NameBackPointer)
<1>1. RuntimeSpec => []RuntimeInv
  BY RuntimeInitInv, RuntimeNextInv, PTL DEF RuntimeSpec
<1> QED
  BY <1>1, PTL DEF RuntimeInv

-----------------------------------------------------------------------------

Inv == /\ TypeOK
       /\ NameBackPointer
       /\ MailboxBounded
       /\ NoSleepingReceiver
       /\ Lifecycle

Calling == {"send", "sendWait", "recv", "recvWait"}

\* A Broadcast moves waiting goroutines back into their loops and leaves
\* every other one where it was; nobody is left waiting on its process.
LEMMA BroadcastFacts ==
    ASSUME NEW p \in Proc, NEW pcs \in [Goroutine -> PC]
    PROVE  /\ Broadcast(p, pcs) \in [Goroutine -> PC]
           /\ \A g \in Goroutine :
                 /\ Broadcast(p, pcs)[g] = "recvWait" => pcs[g] = "recvWait" /\ target[g] # p
                 /\ \/ Broadcast(p, pcs)[g] = pcs[g]
                    \/ pcs[g] = "sendWait" /\ Broadcast(p, pcs)[g] = "send"
                    \/ pcs[g] = "recvWait" /\ Broadcast(p, pcs)[g] = "recv"
BY DEF Broadcast, PC

\* No sender is left waiting on the process either.
LEMMA BroadcastWakesSenders ==
    ASSUME NEW p \in Proc, NEW pcs \in [Goroutine -> PC]
    PROVE  \A g \in Goroutine :
              Broadcast(p, pcs)[g] = "sendWait" => pcs[g] = "sendWait" /\ target[g] # p
BY DEF Broadcast, PC

\* Moving one goroutine keeps the type of pc and moves no other.
LEMMA GotoFacts ==
    ASSUME GoroutineTypeOK, NEW g \in Goroutine, NEW l \in PC
    PROVE  /\ Goto(g, l) \in [Goroutine -> PC]
           /\ Goto(g, l)[g] = l
           /\ \A h \in Goroutine : h # g => Goto(g, l)[h] = pc[h]
BY DEF Goto, GoroutineTypeOK

\* The message a goroutine is sending is a message of the model's type.
LEMMA MsgType == ASSUME GoroutineTypeOK, NEW g \in Goroutine PROVE Msg(g) \in Message
<1>1. Msg(g) \in [from : {g}, seq : 0..MaxSend[g], to : Proc]
  BY ProcessesAssumption DEF GoroutineTypeOK, Msg
<1> QED
  BY <1>1 DEF Message

\* Forgetting the finished call keeps the types of what is forgotten.
LEMMA ForgetFacts ==
    ASSUME GoroutineTypeOK, NEW g \in Goroutine, ForgetCall(g)
    PROVE  /\ target' \in [Goroutine -> Proc]
           /\ deadline' \in [Goroutine -> {"none", "pending", "passed"}]
           /\ \A h \in Goroutine : h # g => target'[h] = target[h]
BY ProcessesAssumption DEF ForgetCall, GoroutineTypeOK

\* Taking the front message of a non-empty mailbox.
LEMMA PopFacts ==
    ASSUME MailboxTypeOK, NEW p \in Proc, mailbox[p] # <<>>
    PROVE  /\ Head(mailbox[p]) \in Message
           /\ Tail(mailbox[p]) \in Seq(Message)
           /\ Len(Tail(mailbox[p])) = Len(mailbox[p]) - 1
           /\ Len(mailbox[p]) \in Nat
<1>1. mailbox[p] \in Seq(Message)
  BY DEF MailboxTypeOK
<1> QED
  BY <1>1

\* Appending one to a mailbox.
LEMMA AppendFacts ==
    ASSUME MailboxTypeOK, NEW p \in Proc, NEW m \in Message
    PROVE  /\ Append(mailbox[p], m) \in Seq(Message)
           /\ Len(Append(mailbox[p], m)) = Len(mailbox[p]) + 1
           /\ Len(mailbox[p]) \in Nat
<1>1. mailbox[p] \in Seq(Message)
  BY DEF MailboxTypeOK
<1> QED
  BY <1>1

\* The state before the first word of the program satisfies the invariant.
LEMMA InitInv == Init => Inv
BY RuntimeInitInv, ProcessesAssumption
   DEF Init, Inv, TypeOK, MailboxTypeOK, GoroutineTypeOK, HistoryTypeOK, MailboxBounded,
       NoSleepingReceiver, Lifecycle, RuntimeInv, RuntimeInit, Overflow, PC

-----------------------------------------------------------------------------
\* The steps that change a mailbox, the calls in progress, the histories.
MailboxStep ==
    \/ \E g \in Goroutine :
          \/ \E p \in Proc, b \in Bounds, o \in OverflowOption : Spawn(g, p, b, o)
          \/ SendAccepted(g)
          \/ PopMessage(g)
    \/ \E p \in Proc : ExitClose(p)

OpStep == \/ \E g \in Goroutine :
                \/ \E p \in Proc : SendBegin(g, p)
                \/ \E d \in {"none", "pending"} : ReceiveBegin(g, d)
                \/ Iterate(g) \/ DeadlinePasses(g) \/ TimerFires(g)
          \/ \E p \in Proc : ExitRemove(p) \/ ExitClose(p) \/ ShutdownWake(p)

HistoryStep ==
    \E g \in Goroutine :
        SendDropped(g) \/ SendAccepted(g) \/ SendRefused(g) \/ PopMessage(g)

\* Only these steps change a mailbox, its options or its closed flag.
LEMMA MailboxFrame == [Next]_vars => MailboxStep \/ UNCHANGED mbVars
BY DEF Next, Iterate, MailboxStep, vars, EnsureSelf, Shutdown, Register, Unregister,
       SendNamed, SendBegin, SendDropped, SendRefused, SendBlocks, ReceiveBegin,
       PopGivesUp, PopBlocks, DeadlinePasses, TimerFires, ExitRemove, ShutdownWake

\* Only these steps move a goroutine or change the call it is in; the others
\* change no mailbox either.
LEMMA OpFrame == RuntimeTypeOK /\ [Next]_vars => OpStep \/ UNCHANGED <<opVars, mailbox>>
BY DEF Next, OpStep, vars, mbVars, EnsureSelf, Shutdown, Spawn, Register, Unregister,
   SendNamed,
       RuntimeTypeOK

\* Only these steps end a Send or deliver a message.
LEMMA HistoryFrame == [Next]_vars => HistoryStep \/ UNCHANGED history
BY DEF Next, Iterate, HistoryStep, vars, EnsureSelf, Shutdown, Spawn, Register,
   Unregister,
       SendNamed, SendBegin, SendBlocks, ReceiveBegin, PopGivesUp, PopBlocks,
       DeadlinePasses, TimerFires, ExitRemove, ExitClose, ShutdownWake

\* Every step of a goroutine is one method of ProcessRuntime or leaves the
\* table and the registry alone.
LEMMA StepRuntime == Inv /\ [Next]_vars => [RuntimeNext]_rtVars
BY ProcessesAssumption
   DEF Next, Iterate, RuntimeNext, vars, EnsureSelf, Shutdown, Spawn, Register,
      Unregister,
       SendNamed, SendBegin, SendDropped, SendAccepted, SendRefused, SendBlocks,
       ReceiveBegin, PopMessage, Pop, PopGivesUp, PopBlocks, DeadlinePasses, TimerFires,
       ExitRemove, ExitClose, ShutdownWake, Inv, TypeOK, RuntimeTypeOK

\* Mailboxes keep their types.
LEMMA StepMailboxType == Inv /\ [Next]_vars => MailboxTypeOK'
<1> SUFFICES ASSUME Inv, [Next]_vars PROVE MailboxTypeOK'
  OBVIOUS
<1>1. ASSUME NEW g \in Goroutine, NEW p \in Proc, NEW b \in Bounds, NEW o \in OverflowOption, Spawn(g, p, b, o)
      PROVE  MailboxTypeOK'
  BY <1>1, ProcessesAssumption
     DEF Inv, TypeOK, MailboxTypeOK, Spawn, mbVars, OverflowOption
<1>2. ASSUME NEW g \in Goroutine, SendAccepted(g)
      PROVE  MailboxTypeOK'
  <2> DEFINE p == target[g]
  <2>1. p \in Proc /\ Msg(g) \in Message
    BY MsgType DEF Inv, TypeOK, GoroutineTypeOK
  <2>2. Append(mailbox[p], Msg(g)) \in Seq(Message)
    BY <2>1, AppendFacts DEF Inv, TypeOK
  <2>3. mailbox' = [mailbox EXCEPT ![p] = Append(mailbox[p], Msg(g))]
    BY <1>2 DEF SendAccepted
  <2> QED
    BY <1>2, <2>1, <2>2, <2>3 DEF Inv, TypeOK, MailboxTypeOK, SendAccepted
<1>3. ASSUME NEW g \in Goroutine, PopMessage(g)
      PROVE  MailboxTypeOK'
  <2> DEFINE p == target[g]
  <2>1. p \in Proc /\ mailbox[p] # <<>>
    BY <1>3 DEF Inv, TypeOK, GoroutineTypeOK, PopMessage, Pop
  <2>2. Tail(mailbox[p]) \in Seq(Message)
    BY <2>1, PopFacts DEF Inv, TypeOK
  <2>3. mailbox' = [mailbox EXCEPT ![p] = Tail(mailbox[p])]
    BY <1>3 DEF PopMessage, Pop
  <2> QED
    BY <1>3, <2>1, <2>2, <2>3 DEF Inv, TypeOK, MailboxTypeOK, PopMessage, Pop
<1>4. ASSUME NEW p \in Proc, ExitClose(p)
      PROVE  MailboxTypeOK'
  BY <1>4
     DEF Inv, TypeOK, MailboxTypeOK, ExitClose, mbVars
<1>5. CASE UNCHANGED mbVars
  BY <1>5 DEF Inv, TypeOK, MailboxTypeOK, mbVars
<1> QED
  BY <1>1, <1>2, <1>3, <1>4, <1>5, MailboxFrame DEF MailboxStep

\* Goroutines keep their types.
LEMMA StepGoroutineType == Inv /\ [Next]_vars => GoroutineTypeOK'
<1> SUFFICES ASSUME Inv, [Next]_vars PROVE GoroutineTypeOK'
  OBVIOUS
<1>1. ASSUME NEW g \in Goroutine, NEW p \in Proc, SendBegin(g, p)
      PROVE  GoroutineTypeOK'
  <2>1. pc' \in [Goroutine -> PC]
    BY <1>1, GotoFacts DEF Inv, TypeOK, SendBegin, PC
  <2>2. target' \in [Goroutine -> Proc]
    BY <1>1, ProcessesAssumption DEF Inv, TypeOK, GoroutineTypeOK, SendBegin
  <2>3. sent' \in [Goroutine -> Nat] /\ \A h \in Goroutine : sent'[h] <= MaxSend[h]
    <3>1. /\ sent' = [sent EXCEPT ![g] = sent[g] + 1]
          /\ sent[g] < MaxSend[g]
          /\ sent \in [Goroutine -> Nat]
          /\ \A h \in Goroutine : sent[h] <= MaxSend[h]
      BY <1>1 DEF Inv, TypeOK, GoroutineTypeOK, SendBegin
    <3>2. sent[g] \in Nat /\ MaxSend[g] \in Nat
      BY <3>1, ProcessesAssumption
    <3>3. sent[g] + 1 \in Nat /\ sent[g] + 1 <= MaxSend[g]
      BY <3>1, <3>2
    <3> QED
      BY <3>1, <3>3
  <2> QED
    BY <1>1, <2>1, <2>2, <2>3 DEF Inv, TypeOK, GoroutineTypeOK, SendBegin
<1>2. ASSUME NEW g \in Goroutine, SendDropped(g)
      PROVE  GoroutineTypeOK'
  <2>1. pc' \in [Goroutine -> PC]
    BY <1>2, GotoFacts DEF Inv, TypeOK, SendDropped, PC
  <2> QED
    BY <1>2, <2>1, ForgetFacts DEF Inv, TypeOK, GoroutineTypeOK, SendDropped
<1>3. ASSUME NEW g \in Goroutine, SendAccepted(g)
      PROVE  GoroutineTypeOK'
  <2>1. pc' \in [Goroutine -> PC]
    <3>1. "run" \in PC
      BY DEF PC
    <3>2. Goto(g, "run") \in [Goroutine -> PC]
      BY <3>1, GotoFacts DEF Inv, TypeOK
    <3>3. pc' = Broadcast(target[g], Goto(g, "run")) /\ target[g] \in Proc
      BY <1>3 DEF Inv, TypeOK, GoroutineTypeOK, SendAccepted
    <3> QED
      BY <3>2, <3>3, BroadcastFacts
  <2> QED
    BY <1>3, <2>1, ForgetFacts DEF Inv, TypeOK, GoroutineTypeOK, SendAccepted
<1>4. ASSUME NEW g \in Goroutine, SendRefused(g)
      PROVE  GoroutineTypeOK'
  <2>1. pc' \in [Goroutine -> PC]
    BY <1>4, GotoFacts DEF Inv, TypeOK, SendRefused, PC
  <2> QED
    BY <1>4, <2>1, ForgetFacts DEF Inv, TypeOK, GoroutineTypeOK, SendRefused
<1>5. ASSUME NEW g \in Goroutine, SendBlocks(g)
      PROVE  GoroutineTypeOK'
  <2>1. pc' \in [Goroutine -> PC]
    BY <1>5, GotoFacts DEF Inv, TypeOK, SendBlocks, PC
  <2> QED
    BY <1>5, <2>1 DEF Inv, TypeOK, GoroutineTypeOK, SendBlocks
<1>6. ASSUME NEW g \in Goroutine, NEW d \in {"none", "pending"}, ReceiveBegin(g, d)
      PROVE  GoroutineTypeOK'
  <2>1. pc' \in [Goroutine -> PC]
    BY <1>6, GotoFacts DEF Inv, TypeOK, ReceiveBegin, PC
  <2>2. target' \in [Goroutine -> Proc]
    BY <1>6, ProcessesAssumption DEF Inv, TypeOK, GoroutineTypeOK, ReceiveBegin
  <2>3. receives' \in [Goroutine -> Nat] /\ deadline' \in [Goroutine -> {"none", "pending", "passed"}]
    BY <1>6 DEF Inv, TypeOK, GoroutineTypeOK, ReceiveBegin
  <2> QED
    BY <1>6, <2>1, <2>2, <2>3 DEF Inv, TypeOK, GoroutineTypeOK, ReceiveBegin
<1>7. ASSUME NEW g \in Goroutine, PopMessage(g)
      PROVE  GoroutineTypeOK'
  <2>1. pc' \in [Goroutine -> PC]
    BY <1>7, GotoFacts DEF Inv, TypeOK, PopMessage, Pop, PC
  <2> QED
    BY <1>7, <2>1, ForgetFacts DEF Inv, TypeOK, GoroutineTypeOK, PopMessage, Pop
<1>8. ASSUME NEW g \in Goroutine, PopGivesUp(g)
      PROVE  GoroutineTypeOK'
  <2>1. pc' \in [Goroutine -> PC]
    BY <1>8, GotoFacts DEF Inv, TypeOK, PopGivesUp, PC
  <2> QED
    BY <1>8, <2>1, ForgetFacts DEF Inv, TypeOK, GoroutineTypeOK, PopGivesUp
<1>9. ASSUME NEW g \in Goroutine, PopBlocks(g)
      PROVE  GoroutineTypeOK'
  <2>1. pc' \in [Goroutine -> PC]
    BY <1>9, GotoFacts DEF Inv, TypeOK, PopBlocks, PC
  <2> QED
    BY <1>9, <2>1 DEF Inv, TypeOK, GoroutineTypeOK, PopBlocks
<1>10. ASSUME NEW g \in Goroutine, DeadlinePasses(g)
      PROVE  GoroutineTypeOK'
  BY <1>10
     DEF Inv, TypeOK, GoroutineTypeOK, DeadlinePasses, opVars
<1>11. ASSUME NEW g \in Goroutine, TimerFires(g)
      PROVE  GoroutineTypeOK'
  BY <1>11, BroadcastFacts
     DEF Inv, TypeOK, GoroutineTypeOK, TimerFires
<1>12. ASSUME NEW p \in Proc, ExitRemove(p)
      PROVE  GoroutineTypeOK'
  <2>1. Body[p] \in Goroutine /\ "removed" \in PC
    BY ProcessesAssumption DEF PC
  <2>2. pc' \in [Goroutine -> PC]
    BY <1>12, <2>1, GotoFacts DEF Inv, TypeOK, ExitRemove
  <2> QED
    BY <1>12, <2>2 DEF Inv, TypeOK, GoroutineTypeOK, ExitRemove
<1>13. ASSUME NEW p \in Proc, ExitClose(p)
      PROVE  GoroutineTypeOK'
  <2>1. Body[p] \in Goroutine /\ "done" \in PC
    BY ProcessesAssumption DEF PC
  <2>2. pc' \in [Goroutine -> PC]
    BY <1>13, <2>1, GotoFacts, BroadcastFacts DEF Inv, TypeOK, ExitClose
  <2> QED
    BY <1>13, <2>2 DEF Inv, TypeOK, GoroutineTypeOK, ExitClose
<1>14. ASSUME NEW p \in Proc, ShutdownWake(p)
      PROVE  GoroutineTypeOK'
  BY <1>14, BroadcastFacts
     DEF Inv, TypeOK, GoroutineTypeOK, ShutdownWake
<1>15. CASE UNCHANGED <<opVars, mailbox>>
  BY <1>15 DEF Inv, TypeOK, GoroutineTypeOK, opVars
<1> QED
  BY <1>1, <1>2, <1>3, <1>4, <1>5, <1>6, <1>7, <1>8, <1>9, <1>10, <1>11, <1>12, <1>13,
     <1>14, <1>15, OpFrame DEF OpStep, Iterate, Inv, TypeOK

\* Histories keep their types.
LEMMA StepHistoryType == Inv /\ [Next]_vars => HistoryTypeOK'
<1> SUFFICES ASSUME Inv, [Next]_vars PROVE HistoryTypeOK'
  OBVIOUS
<1>1. ASSUME NEW g \in Goroutine, SendDropped(g)
      PROVE  HistoryTypeOK'
  BY <1>1, MsgType
     DEF Inv, TypeOK, HistoryTypeOK, SendDropped, history
<1>2. ASSUME NEW g \in Goroutine, SendAccepted(g)
      PROVE  HistoryTypeOK'
  BY <1>2, MsgType
     DEF Inv, TypeOK, HistoryTypeOK, SendAccepted, history
<1>3. ASSUME NEW g \in Goroutine, SendRefused(g)
      PROVE  HistoryTypeOK'
  BY <1>3, MsgType
     DEF Inv, TypeOK, HistoryTypeOK, SendRefused, history
<1>4. ASSUME NEW g \in Goroutine, PopMessage(g)
      PROVE  HistoryTypeOK'
  <2>1. Head(mailbox[target[g]]) \in Message
    BY <1>4, PopFacts DEF Inv, TypeOK, GoroutineTypeOK, PopMessage, Pop
  <2> QED
    BY <1>4, <2>1 DEF Inv, TypeOK, HistoryTypeOK, PopMessage, Pop
<1>5. CASE UNCHANGED history
  BY <1>5 DEF Inv, TypeOK, HistoryTypeOK, history
<1> QED
  BY <1>1, <1>2, <1>3, <1>4, <1>5, HistoryFrame DEF HistoryStep

\* No step makes a mailbox longer than its capacity.
LEMMA StepMailboxBounded == Inv /\ [Next]_vars => MailboxBounded'
<1> SUFFICES ASSUME Inv, [Next]_vars PROVE MailboxBounded'
  OBVIOUS
<1>1. ASSUME NEW g \in Goroutine, NEW p \in Proc, NEW b \in Bounds, NEW o \in OverflowOption, Spawn(g, p, b, o)
      PROVE  MailboxBounded'
  <2>1. mailbox[p] = <<>> /\ b \in Nat
    BY <1>1, ProcessesAssumption DEF Inv, Lifecycle, Spawn, Insert
  <2>2. Len(mailbox[p]) = 0
    BY <2>1
  <2>3. bound' = [bound EXCEPT ![p] = b] /\ mailbox' = mailbox
    BY <1>1 DEF Spawn
  <2> QED
    BY <2>1, <2>2, <2>3 DEF Inv, TypeOK, MailboxTypeOK, MailboxBounded
<1>2. ASSUME NEW g \in Goroutine, SendAccepted(g)
      PROVE  MailboxBounded'
  <2> DEFINE p == target[g]
  <2>1. p \in Proc /\ Msg(g) \in Message
    BY MsgType DEF Inv, TypeOK, GoroutineTypeOK
  <2>2. mailbox' = [mailbox EXCEPT ![p] = Append(mailbox[p], Msg(g))] /\ bound' = bound
    BY <1>2 DEF SendAccepted
  <2>3. Len(mailbox[p]) \in Nat /\ Len(Append(mailbox[p], Msg(g))) = Len(mailbox[p]) + 1
    BY <2>1, AppendFacts DEF Inv, TypeOK
  <2>4. bound[p] \in Nat /\ (bound[p] = 0 \/ Len(mailbox[p]) < bound[p])
    BY <1>2, <2>1 DEF Inv, TypeOK, MailboxTypeOK, SendAccepted, Accepts, HasRoom
  <2>5. bound[p] > 0 => Len(Append(mailbox[p], Msg(g))) <= bound[p]
    BY <2>3, <2>4
  <2> QED
    BY <2>1, <2>2, <2>5 DEF Inv, TypeOK, MailboxTypeOK, MailboxBounded
<1>3. ASSUME NEW g \in Goroutine, PopMessage(g)
      PROVE  MailboxBounded'
  <2> DEFINE p == target[g]
  <2>1. p \in Proc /\ mailbox[p] # <<>>
    BY <1>3 DEF Inv, TypeOK, GoroutineTypeOK, PopMessage, Pop
  <2>2. mailbox' = [mailbox EXCEPT ![p] = Tail(mailbox[p])] /\ bound' = bound
    BY <1>3 DEF PopMessage, Pop
  <2>3. bound[p] > 0 => Len(Tail(mailbox[p])) <= bound[p]
    BY <2>1, PopFacts DEF Inv, TypeOK, MailboxTypeOK, MailboxBounded
  <2> QED
    BY <2>1, <2>2, <2>3 DEF Inv, TypeOK, MailboxTypeOK, MailboxBounded
<1>4. ASSUME NEW p \in Proc, ExitClose(p)
      PROVE  MailboxBounded'
  BY <1>4
     DEF Inv, MailboxBounded, ExitClose, mbVars
<1>5. CASE UNCHANGED mbVars
  BY <1>5 DEF Inv, MailboxBounded, mbVars
<1> QED
  BY <1>1, <1>2, <1>3, <1>4, <1>5, MailboxFrame DEF MailboxStep

\* No step leaves a receiver asleep beside a message.
LEMMA StepNoSleepingReceiver == Inv /\ [Next]_vars => NoSleepingReceiver'
<1> SUFFICES ASSUME Inv, [Next]_vars PROVE NoSleepingReceiver'
  OBVIOUS
<1>1. ASSUME NEW g \in Goroutine, NEW p \in Proc, SendBegin(g, p)
      PROVE  NoSleepingReceiver'
  BY <1>1
     DEF Inv, TypeOK, GoroutineTypeOK, MailboxTypeOK, NoSleepingReceiver, SendBegin,
        Goto, mbVars
<1>2. ASSUME NEW g \in Goroutine, SendDropped(g)
      PROVE  NoSleepingReceiver'
  BY <1>2
     DEF Inv, TypeOK, GoroutineTypeOK, MailboxTypeOK, NoSleepingReceiver, SendDropped,
        Goto, mbVars, ForgetCall
<1>3. ASSUME NEW g \in Goroutine, SendAccepted(g)
      PROVE  NoSleepingReceiver'
  <2> DEFINE p == target[g]
  <2> SUFFICES ASSUME NEW h \in Goroutine, pc'[h] = "recvWait"
               PROVE  mailbox'[target'[h]] = <<>>
    BY DEF NoSleepingReceiver
  <2>1. p \in Proc /\ Goto(g, "run") \in [Goroutine -> PC] /\ Goto(g, "run")[g] = "run"
    BY GotoFacts DEF Inv, TypeOK, GoroutineTypeOK, PC
  <2>2. Goto(g, "run")[h] = "recvWait" /\ target[h] # p
    BY <1>3, <2>1, BroadcastFacts DEF SendAccepted
  <2>3. h # g /\ pc[h] = "recvWait" /\ target'[h] = target[h]
    BY <1>3, <2>1, <2>2, GotoFacts, ForgetFacts DEF Inv, TypeOK, SendAccepted, PC
  <2>4. mailbox[target[h]] = <<>> /\ target[h] \in Proc
    BY <2>3 DEF Inv, TypeOK, GoroutineTypeOK, NoSleepingReceiver
  <2> QED
    BY <1>3, <2>2, <2>3, <2>4 DEF Inv, TypeOK, MailboxTypeOK, SendAccepted
<1>4. ASSUME NEW g \in Goroutine, SendRefused(g)
      PROVE  NoSleepingReceiver'
  BY <1>4
     DEF Inv, TypeOK, GoroutineTypeOK, MailboxTypeOK, NoSleepingReceiver, SendRefused,
        Goto, mbVars, ForgetCall
<1>5. ASSUME NEW g \in Goroutine, SendBlocks(g)
      PROVE  NoSleepingReceiver'
  BY <1>5
     DEF Inv, TypeOK, GoroutineTypeOK, MailboxTypeOK, NoSleepingReceiver, SendBlocks,
        Goto, mbVars
<1>6. ASSUME NEW g \in Goroutine, NEW d \in {"none", "pending"}, ReceiveBegin(g, d)
      PROVE  NoSleepingReceiver'
  BY <1>6
     DEF Inv, TypeOK, GoroutineTypeOK, MailboxTypeOK, NoSleepingReceiver, ReceiveBegin,
        Goto, mbVars
<1>7. ASSUME NEW g \in Goroutine, PopMessage(g)
      PROVE  NoSleepingReceiver'
  BY <1>7
     DEF Inv, TypeOK, GoroutineTypeOK, MailboxTypeOK, NoSleepingReceiver, PopMessage, Pop,
        Goto, mbVars, ForgetCall
<1>8. ASSUME NEW g \in Goroutine, PopGivesUp(g)
      PROVE  NoSleepingReceiver'
  BY <1>8
     DEF Inv, TypeOK, GoroutineTypeOK, MailboxTypeOK, NoSleepingReceiver, PopGivesUp,
        Goto, mbVars, ForgetCall
<1>9. ASSUME NEW g \in Goroutine, PopBlocks(g)
      PROVE  NoSleepingReceiver'
  BY <1>9
     DEF Inv, TypeOK, GoroutineTypeOK, MailboxTypeOK, NoSleepingReceiver, PopBlocks,
        Goto, mbVars
<1>10. ASSUME NEW g \in Goroutine, DeadlinePasses(g)
      PROVE  NoSleepingReceiver'
  BY <1>10
     DEF Inv, TypeOK, GoroutineTypeOK, NoSleepingReceiver, DeadlinePasses, mbVars, opVars
<1>11. ASSUME NEW g \in Goroutine, TimerFires(g)
      PROVE  NoSleepingReceiver'
  <2> SUFFICES ASSUME NEW h \in Goroutine, pc'[h] = "recvWait"
               PROVE  mailbox'[target'[h]] = <<>>
    BY DEF NoSleepingReceiver
  <2>1. pc \in [Goroutine -> PC] /\ target[g] \in Proc
    BY DEF Inv, TypeOK, GoroutineTypeOK
  <2>3. pc[h] = "recvWait"
    BY <1>11, <2>1, BroadcastFacts DEF TimerFires
  <2> QED
    BY <1>11, <2>3 DEF Inv, NoSleepingReceiver, TimerFires, mbVars
<1>12. ASSUME NEW p \in Proc, ExitRemove(p)
      PROVE  NoSleepingReceiver'
  BY <1>12
     DEF Inv, TypeOK, GoroutineTypeOK, NoSleepingReceiver, ExitRemove, mbVars, opVars,
        Goto
<1>13. ASSUME NEW p \in Proc, ExitClose(p)
      PROVE  NoSleepingReceiver'
  <2> SUFFICES ASSUME NEW h \in Goroutine, pc'[h] = "recvWait"
               PROVE  mailbox'[target'[h]] = <<>>
    BY DEF NoSleepingReceiver
  <2>1. Body[p] \in Goroutine /\ Goto(Body[p], "done") \in [Goroutine -> PC]
    BY ProcessesAssumption, GotoFacts DEF Inv, TypeOK, PC
  <2>2. Goto(Body[p], "done")[h] = "recvWait"
    BY <1>13, <2>1, BroadcastFacts DEF ExitClose
  <2>3. pc[h] = "recvWait"
    BY <2>1, <2>2, GotoFacts DEF Inv, TypeOK, PC
  <2> QED
    BY <1>13, <2>3 DEF Inv, NoSleepingReceiver, ExitClose, mbVars
<1>14. ASSUME NEW p \in Proc, ShutdownWake(p)
      PROVE  NoSleepingReceiver'
  <2> SUFFICES ASSUME NEW h \in Goroutine, pc'[h] = "recvWait"
               PROVE  mailbox'[target'[h]] = <<>>
    BY DEF NoSleepingReceiver
  <2>1. pc \in [Goroutine -> PC] /\ p \in Proc
    BY DEF Inv, TypeOK, GoroutineTypeOK
  <2>3. pc[h] = "recvWait"
    BY <1>14, <2>1, BroadcastFacts DEF ShutdownWake
  <2> QED
    BY <1>14, <2>3 DEF Inv, NoSleepingReceiver, ShutdownWake, mbVars
<1>15. CASE UNCHANGED <<opVars, mailbox>>
  BY <1>15 DEF Inv, NoSleepingReceiver, opVars
<1> QED
  BY <1>1, <1>2, <1>3, <1>4, <1>5, <1>6, <1>7, <1>8, <1>9, <1>10, <1>11, <1>12, <1>13,
     <1>14, <1>15, OpFrame DEF OpStep, Iterate, Inv, TypeOK

\* A step that only moves goroutines into, around in, or out of calls, and
\* touches no mailbox of an unborn process, keeps the life cycle.
CallStep(h) ==
    \/ pc'[h] = pc[h] /\ target'[h] = target[h]
    \/ pc[h] \in Calling /\ pc'[h] \in Calling /\ target'[h] = target[h]
    \/ pc[h] \in Calling /\ pc'[h] = "run"

\* No such step breaks the life cycle of a process.
LEMMA CallKeepsLifecycle ==
    ASSUME Inv, UNCHANGED <<closed, pids, table>>,
           \A h \in Goroutine : CallStep(h),
           \A q \in Proc : q \notin pids => mailbox'[q] = mailbox[q]
    PROVE  Lifecycle'
<1>1. ASSUME NEW q \in Proc
      PROVE  /\ q \notin pids' => mailbox'[q] = <<>>
             /\ pc'[Body[q]] = "removed" => q \in pids' \ table'
             /\ closed'[q] => q \in pids' \ table' /\ pc'[Body[q]] = "done"
             /\ pc'[Body[q]] = "done" => closed'[q]
  <2>1. Body[q] \in Goroutine
    BY ProcessesAssumption
  <2>2. CallStep(Body[q])
    BY <2>1
  <2> QED
    BY <2>2 DEF Inv, Lifecycle, CallStep, Calling
<1>2. ASSUME NEW h \in Goroutine, pc'[h] \in Calling
      PROVE  target'[h] \in pids'
  <2>1. CallStep(h)
    OBVIOUS
  <2> QED
    BY <1>2, <2>1 DEF Inv, Lifecycle, CallStep, Calling
<1> QED
  BY <1>1, <1>2 DEF Lifecycle, Calling

\* The exit of p moves its body and marks p; another process keeps its body.
LEMMA ExitKeepsLifecycle ==
    ASSUME Inv, NEW p \in Proc, p \in pids \ table', UNCHANGED <<mailbox, target, pids>>,
           table' \subseteq table,
           \A h \in Goroutine : h # Body[p] => CallStep(h),
           \A q \in Proc : q # p => closed'[q] = closed[q],
           \/ pc'[Body[p]] = "removed" /\ ~closed'[p]
           \/ pc'[Body[p]] = "done" /\ closed'[p]
    PROVE  Lifecycle'
<1>1. ASSUME NEW q \in Proc
      PROVE  /\ q \notin pids' => mailbox'[q] = <<>>
             /\ pc'[Body[q]] = "removed" => q \in pids' \ table'
             /\ closed'[q] => q \in pids' \ table' /\ pc'[Body[q]] = "done"
             /\ pc'[Body[q]] = "done" => closed'[q]
  <2>1. CASE q = p
    BY <2>1 DEF Inv, Lifecycle
  <2>2. CASE q # p
    <3>1. Body[q] \in Goroutine /\ Body[q] # Body[p]
      BY <2>2, ProcessesAssumption
    <3>2. CallStep(Body[q]) /\ closed'[q] = closed[q]
      BY <2>2, <3>1
    <3> QED
      BY <3>2 DEF Inv, Lifecycle, CallStep, Calling
  <2> QED
    BY <2>1, <2>2
<1>2. ASSUME NEW h \in Goroutine, pc'[h] \in Calling
      PROVE  target'[h] \in pids'
  <2>1. h # Body[p]
    BY <1>2 DEF Calling
  <2>2. CallStep(h)
    BY <2>1
  <2> QED
    BY <1>2, <2>2 DEF Inv, Lifecycle, CallStep, Calling
<1> QED
  BY <1>1, <1>2 DEF Lifecycle, Calling

\* No step breaks the life cycle of a process.
LEMMA StepLifecycle == Inv /\ [Next]_vars => Lifecycle'
<1> SUFFICES ASSUME Inv, [Next]_vars PROVE Lifecycle'
  OBVIOUS
<1>1. ASSUME EnsureSelf
      PROVE  Lifecycle'
  BY <1>1, ProcessesAssumption
     DEF Inv, TypeOK, GoroutineTypeOK, MailboxTypeOK, Lifecycle, EnsureSelf, Insert,
        Running, mbVars, opVars, rtVars
<1>2. ASSUME Shutdown
      PROVE  Lifecycle'
  BY <1>2, ProcessesAssumption
     DEF Inv, TypeOK, GoroutineTypeOK, MailboxTypeOK, Lifecycle, Shutdown, SetDown,
        mbVars, opVars, rtVars
<1>3. ASSUME NEW g \in Goroutine, NEW p \in Proc, NEW b \in Bounds, NEW o \in OverflowOption, Spawn(g, p, b, o)
      PROVE  Lifecycle'
  BY <1>3, ProcessesAssumption
     DEF Inv, TypeOK, GoroutineTypeOK, MailboxTypeOK, Lifecycle, Spawn, Insert,
        Running, mbVars, opVars, rtVars
<1>4. ASSUME NEW g \in Goroutine, NEW n \in Name, NEW p \in Proc, Register(g, n, p)
      PROVE  Lifecycle'
  BY <1>4, ProcessesAssumption
     DEF Inv, TypeOK, GoroutineTypeOK, MailboxTypeOK, Lifecycle, Register,
        RegisterName, mbVars, opVars, rtVars
<1>5. ASSUME NEW g \in Goroutine, NEW n \in Name, Unregister(g, n)
      PROVE  Lifecycle'
  BY <1>5, ProcessesAssumption
     DEF Inv, TypeOK, GoroutineTypeOK, MailboxTypeOK, Lifecycle, Unregister,
        UnregisterName, mbVars, opVars, rtVars
<1>6. ASSUME NEW g \in Goroutine, NEW p \in Proc, SendBegin(g, p)
      PROVE  Lifecycle'
  BY <1>6, ProcessesAssumption
     DEF Inv, TypeOK, GoroutineTypeOK, MailboxTypeOK, Lifecycle, SendBegin, Goto, PC,
        Running, mbVars, opVars, rtVars
<1>7. ASSUME NEW g \in Goroutine, SendDropped(g)
      PROVE  Lifecycle'
  <2>2. \A h \in Goroutine : CallStep(h)
    BY <1>7 DEF Inv, TypeOK, GoroutineTypeOK, SendDropped, ForgetCall, Goto, CallStep,
       Calling
  <2>3. UNCHANGED <<closed, pids, table>> /\ \A q \in Proc : q \notin pids => mailbox'[q] = mailbox[q]
    BY <1>7 DEF SendDropped, mbVars, rtVars
  <2> QED
    BY <2>2, <2>3, CallKeepsLifecycle
<1>8. ASSUME NEW g \in Goroutine, SendAccepted(g)
      PROVE  Lifecycle'
  <2>1. /\ target[g] \in pids /\ target[g] \in Proc /\ pc[g] = "send"
        /\ \A h \in Goroutine : h # g => target'[h] = target[h]
    BY <1>8, ForgetFacts DEF Inv, TypeOK, GoroutineTypeOK, Lifecycle, SendAccepted
  <2>2. \A h \in Goroutine : CallStep(h)
    <3>1. /\ Goto(g, "run") \in [Goroutine -> PC]
          /\ Goto(g, "run")[g] = "run"
          /\ \A h \in Goroutine : h # g => Goto(g, "run")[h] = pc[h]
      BY GotoFacts DEF Inv, TypeOK, PC
    <3>2. pc' = Broadcast(target[g], Goto(g, "run"))
      BY <1>8 DEF SendAccepted
    <3> QED
      BY <2>1, <3>1, <3>2, BroadcastFacts DEF CallStep, Calling
  <2>3. UNCHANGED <<closed, pids, table>> /\ \A q \in Proc : q \notin pids => mailbox'[q] = mailbox[q]
    BY <1>8, <2>1 DEF Inv, TypeOK, MailboxTypeOK, SendAccepted, rtVars
  <2> QED
    BY <2>2, <2>3, CallKeepsLifecycle
<1>9. ASSUME NEW g \in Goroutine, SendRefused(g)
      PROVE  Lifecycle'
  <2>2. \A h \in Goroutine : CallStep(h)
    BY <1>9 DEF Inv, TypeOK, GoroutineTypeOK, SendRefused, SendFails, ForgetCall,
       Goto, CallStep, Calling
  <2>3. UNCHANGED <<closed, pids, table>> /\ \A q \in Proc : q \notin pids => mailbox'[q] = mailbox[q]
    BY <1>9 DEF SendRefused, mbVars, rtVars
  <2> QED
    BY <2>2, <2>3, CallKeepsLifecycle
<1>10. ASSUME NEW g \in Goroutine, SendBlocks(g)
      PROVE  Lifecycle'
  <2>2. \A h \in Goroutine : CallStep(h)
    BY <1>10 DEF Inv, TypeOK, GoroutineTypeOK, SendBlocks, Goto, CallStep, Calling
  <2>3. UNCHANGED <<closed, pids, table>> /\ \A q \in Proc : q \notin pids => mailbox'[q] = mailbox[q]
    BY <1>10 DEF SendBlocks, mbVars, rtVars
  <2> QED
    BY <2>2, <2>3, CallKeepsLifecycle
<1>11. ASSUME NEW g \in Goroutine, NEW d \in {"none", "pending"}, ReceiveBegin(g, d)
      PROVE  Lifecycle'
  BY <1>11, ProcessesAssumption
     DEF Inv, TypeOK, GoroutineTypeOK, MailboxTypeOK, Lifecycle, ReceiveBegin, Goto,
        PC, Running, mbVars, opVars, rtVars
<1>12. ASSUME NEW g \in Goroutine, PopMessage(g)
      PROVE  Lifecycle'
  <2>1. target[g] \in pids /\ target[g] \in Proc
    BY <1>12 DEF Inv, TypeOK, GoroutineTypeOK, Lifecycle, PopMessage, Pop
  <2>2. \A h \in Goroutine : CallStep(h)
    BY <1>12 DEF Inv, TypeOK, GoroutineTypeOK, PopMessage, Pop, ForgetCall, Goto, CallStep,
       Calling
  <2>3. UNCHANGED <<closed, pids, table>> /\ \A q \in Proc : q \notin pids => mailbox'[q] = mailbox[q]
    BY <1>12, <2>1 DEF Inv, TypeOK, MailboxTypeOK, PopMessage, Pop, rtVars
  <2> QED
    BY <2>2, <2>3, CallKeepsLifecycle
<1>13. ASSUME NEW g \in Goroutine, PopGivesUp(g)
      PROVE  Lifecycle'
  <2>2. \A h \in Goroutine : CallStep(h)
    BY <1>13 DEF Inv, TypeOK, GoroutineTypeOK, PopGivesUp, ForgetCall, Goto, CallStep,
       Calling
  <2>3. UNCHANGED <<closed, pids, table>> /\ \A q \in Proc : q \notin pids => mailbox'[q] = mailbox[q]
    BY <1>13 DEF PopGivesUp, mbVars, rtVars
  <2> QED
    BY <2>2, <2>3, CallKeepsLifecycle
<1>14. ASSUME NEW g \in Goroutine, PopBlocks(g)
      PROVE  Lifecycle'
  <2>2. \A h \in Goroutine : CallStep(h)
    BY <1>14 DEF Inv, TypeOK, GoroutineTypeOK, PopBlocks, Goto, CallStep, Calling
  <2>3. UNCHANGED <<closed, pids, table>> /\ \A q \in Proc : q \notin pids => mailbox'[q] = mailbox[q]
    BY <1>14 DEF PopBlocks, mbVars, rtVars
  <2> QED
    BY <2>2, <2>3, CallKeepsLifecycle
<1>15. ASSUME NEW g \in Goroutine, DeadlinePasses(g)
      PROVE  Lifecycle'
  <2>2. \A h \in Goroutine : CallStep(h)
    BY <1>15 DEF Inv, TypeOK, GoroutineTypeOK, DeadlinePasses, Goto, CallStep, Calling
  <2>3. UNCHANGED <<closed, pids, table>> /\ \A q \in Proc : q \notin pids => mailbox'[q] = mailbox[q]
    BY <1>15 DEF DeadlinePasses, mbVars, rtVars
  <2> QED
    BY <2>2, <2>3, CallKeepsLifecycle
<1>16. ASSUME NEW g \in Goroutine, TimerFires(g)
      PROVE  Lifecycle'
  <2>1. pc \in [Goroutine -> PC] /\ target[g] \in Proc /\ target' = target
    BY <1>16 DEF Inv, TypeOK, GoroutineTypeOK, TimerFires
  <2>2. \A h \in Goroutine : CallStep(h)
    BY <1>16, <2>1, BroadcastFacts DEF TimerFires, CallStep, Calling
  <2>3. UNCHANGED <<closed, pids, table>> /\ \A q \in Proc : q \notin pids => mailbox'[q] = mailbox[q]
    BY <1>16 DEF TimerFires, mbVars, rtVars
  <2> QED
    BY <2>2, <2>3, CallKeepsLifecycle
<1>17. ASSUME NEW p \in Proc, ExitRemove(p)
      PROVE  Lifecycle'
  <2>1. /\ Goto(Body[p], "removed") \in [Goroutine -> PC]
        /\ Goto(Body[p], "removed")[Body[p]] = "removed"
        /\ \A h \in Goroutine : h # Body[p] => Goto(Body[p], "removed")[h] = pc[h]
    BY GotoFacts, ProcessesAssumption DEF Inv, TypeOK, PC
  <2>2. pc' = Goto(Body[p], "removed") /\ Body[p] \in Goroutine /\ UNCHANGED <<mailbox, target, pids>>
    BY <1>17, ProcessesAssumption DEF ExitRemove, Remove, mbVars
  <2>3. pc'[Body[p]] = "removed" /\ \A h \in Goroutine : h # Body[p] => CallStep(h)
    BY <2>1, <2>2 DEF CallStep, Calling
  <2>4. p \in pids \ table' /\ table' \subseteq table
    BY <1>17 DEF Inv, TypeOK, RuntimeTypeOK, ExitRemove, Remove
  <2>5. ~closed'[p] /\ closed' = closed
    BY <1>17 DEF Inv, Lifecycle, ExitRemove, Running, mbVars
  <2> QED
    BY <2>2, <2>3, <2>4, <2>5, ExitKeepsLifecycle
<1>18. ASSUME NEW p \in Proc, ExitClose(p)
      PROVE  Lifecycle'
  <2>1. /\ Goto(Body[p], "done") \in [Goroutine -> PC]
        /\ Goto(Body[p], "done")[Body[p]] = "done"
        /\ \A h \in Goroutine : h # Body[p] => Goto(Body[p], "done")[h] = pc[h]
    BY GotoFacts, ProcessesAssumption DEF Inv, TypeOK, PC
  <2>2. pc' = Broadcast(p, Goto(Body[p], "done")) /\ Body[p] \in Goroutine /\ UNCHANGED <<mailbox, target, pids>>
    BY <1>18, ProcessesAssumption DEF ExitClose, rtVars
  <2>3. pc'[Body[p]] = "done" /\ \A h \in Goroutine : h # Body[p] => CallStep(h)
    BY <2>1, <2>2, BroadcastFacts DEF CallStep, Calling
  <2>4. p \in pids \ table' /\ table' \subseteq table
    BY <1>18 DEF Inv, Lifecycle, ExitClose, rtVars
  <2>5. closed'[p] /\ \A q \in Proc : q # p => closed'[q] = closed[q]
    BY <1>18 DEF Inv, TypeOK, MailboxTypeOK, ExitClose
  <2> QED
    BY <2>2, <2>3, <2>4, <2>5, ExitKeepsLifecycle
<1>19. ASSUME NEW p \in Proc, ShutdownWake(p)
      PROVE  Lifecycle'
  <2>1. pc \in [Goroutine -> PC] /\ p \in Proc /\ target' = target
    BY <1>19 DEF Inv, TypeOK, GoroutineTypeOK, ShutdownWake
  <2>2. \A h \in Goroutine : CallStep(h)
    BY <1>19, <2>1, BroadcastFacts DEF ShutdownWake, CallStep, Calling
  <2>3. UNCHANGED <<closed, pids, table>> /\ \A q \in Proc : q \notin pids => mailbox'[q] = mailbox[q]
    BY <1>19 DEF ShutdownWake, mbVars, rtVars
  <2> QED
    BY <2>2, <2>3, CallKeepsLifecycle
<1>20. CASE UNCHANGED vars
  BY <1>20 DEF Inv, Lifecycle, vars, mbVars, opVars, rtVars
<1> QED
  BY <1>1, <1>2, <1>3, <1>4, <1>5, <1>6, <1>7, <1>8, <1>9, <1>10, <1>11, <1>12, <1>13,
     <1>14, <1>15, <1>16, <1>17, <1>18, <1>19, <1>20
     DEF Next, Iterate, SendNamed, Inv, TypeOK, RuntimeTypeOK

\* Shutdown only has processes to wake.
LEMMA StepWaking == Inv /\ [Next]_vars => waking' \subseteq Proc
<1>1. Inv /\ [Next]_vars => waking' \subseteq waking \/ waking' = table
  BY DEF Next, Iterate, vars, EnsureSelf, Shutdown, Spawn, Register, Unregister,
         SendNamed, SendBegin, SendDropped, SendAccepted, SendRefused, SendBlocks,
         ReceiveBegin, PopMessage, Pop, PopGivesUp, PopBlocks, DeadlinePasses, TimerFires,
         ExitRemove, ExitClose, ShutdownWake
<1> QED
  BY <1>1 DEF Inv, TypeOK, RuntimeTypeOK

\* Inv is inductive.
LEMMA NextInv == Inv /\ [Next]_vars => Inv'
<1> SUFFICES ASSUME Inv, [Next]_vars PROVE Inv'
  OBVIOUS
<1>1. RuntimeTypeOK' /\ NameBackPointer'
  BY StepRuntime, RuntimeNextInv DEF Inv, TypeOK, RuntimeInv
<1> QED
  BY <1>1, StepMailboxType, StepGoroutineType, StepHistoryType, StepMailboxBounded,
     StepNoSleepingReceiver, StepLifecycle, StepWaking DEF Inv, TypeOK

\* In every execution the state is well typed, no mailbox exceeds its
\* capacity, no receiver sleeps beside a message, the names processes
\* remember resolve to them, and only exited processes are closed.
THEOREM ProcessesSafe ==
    Spec => [](TypeOK /\ NameBackPointer /\ MailboxBounded
                      /\ NoSleepingReceiver /\ Lifecycle)
<1>1. Spec => []Inv
  BY InitInv, NextInv, PTL DEF Spec
<1> QED
  BY <1>1, PTL DEF Inv

\* receive never sleeps beside a message in its mailbox: every Send that
\* appends wakes all the goroutines that wait there (Process.Send, PopFront).
THEOREM ReceiversAreWoken == Spec => []NoSleepingReceiver
BY ProcessesSafe, PTL

\* Every step touches the mailboxes as one queue operation or not at all.
LEMMA StepQueues == Inv /\ [Next]_vars => [Queues!QueueNext]_(Queues!queueVars)
<1> SUFFICES ASSUME Inv, [Next]_vars PROVE [Queues!QueueNext]_(Queues!queueVars)
  OBVIOUS
<1> USE DEF Queues!queueVars
<1>1. ASSUME NEW g \in Goroutine, NEW p \in Proc, NEW b \in Bounds, NEW o \in OverflowOption, Spawn(g, p, b, o)
      PROVE  [Queues!QueueNext]_(Queues!queueVars)
  <2>1. ~closed[p] /\ mailbox[p] = <<>>
    BY <1>1 DEF Inv, Lifecycle, Spawn, Insert
  <2>2. Queues!Configure(p, b)
    BY <1>1, <2>1 DEF Spawn, Queues!Configure
  <2> QED
    BY <2>2 DEF Queues!QueueNext
<1>2. ASSUME NEW g \in Goroutine, SendAccepted(g)
      PROVE  [Queues!QueueNext]_(Queues!queueVars)
  <2>1. target[g] \in Proc /\ Msg(g) \in Message
    BY MsgType DEF Inv, TypeOK, GoroutineTypeOK
  <2>2. Queues!Put(target[g], Msg(g))
    BY <1>2, <2>1 DEF SendAccepted, Accepts, HasRoom, Queues!Put
  <2> QED
    BY <2>1, <2>2 DEF Queues!QueueNext
<1>3. ASSUME NEW g \in Goroutine, PopMessage(g)
      PROVE  [Queues!QueueNext]_(Queues!queueVars)
  <2>1. target[g] \in Proc /\ Queues!Get(target[g])
    BY <1>3 DEF Inv, TypeOK, GoroutineTypeOK, PopMessage, Pop, Queues!Get
  <2> QED
    BY <2>1 DEF Queues!QueueNext
<1>4. ASSUME NEW p \in Proc, ExitClose(p)
      PROVE  [Queues!QueueNext]_(Queues!queueVars)
  <2>1. ~closed[p]
    BY <1>4 DEF Inv, Lifecycle, ExitClose
  <2>2. [q \in Proc |-> ~closed[q]]' = [[q \in Proc |-> ~closed[q]] EXCEPT ![p] = FALSE]
    BY <1>4 DEF Inv, TypeOK, MailboxTypeOK, ExitClose
  <2>3. Queues!Close(p)
    BY <1>4, <2>1, <2>2 DEF ExitClose, Queues!Close
  <2> QED
    BY <2>3 DEF Queues!QueueNext
<1>5. CASE UNCHANGED mbVars
  BY <1>5 DEF mbVars
<1> QED
  BY <1>1, <1>2, <1>3, <1>4, <1>5, MailboxFrame DEF MailboxStep

\* The mailboxes implement the bounded FIFO queues of MessageQueues.tla,
\* whatever the goroutines on them do.
THEOREM ProcessesImplementQueues == Spec => ImplementsQueues
<1>1. Init => Queues!QueueInit
  <2> SUFFICES ASSUME Init PROVE Queues!QueueInit
    OBVIOUS
  <2>1. mailbox = [p \in Proc |-> <<>>]
    BY DEF Init
  <2>2. bound \in [Proc -> Bounds \cup {DefaultMailboxBound}]
    BY DEF Init
  <2>3. \A p \in Proc : closed[p] = FALSE
    BY DEF Init
  <2>4. [p \in Proc |-> ~closed[p]] = [p \in Proc |-> TRUE]
    BY <2>3
  <2> QED
    BY <2>1, <2>2, <2>4 DEF Queues!QueueInit
<1>2. Spec => []Inv
  BY InitInv, NextInv, PTL DEF Spec
<1> QED
  BY <1>1, <1>2, StepQueues, PTL DEF Spec, ImplementsQueues, Queues!QueueSpec
-----------------------------------------------------------------------------
(***************************************************************************)
(* Delivery.  The number of a message a goroutine is still sending is      *)
(* above that of every message of it whose Send has ended, so what is      *)
(* appended is new, to the mailboxes, to the receivers and to the answers, *)
(* and later than all that this sender sent before.                        *)
(***************************************************************************)
Sending == {"send", "sendWait"}

\* The Send of this message has ended.
Settled(m) == /\ m.seq <= sent[m.from]
              /\ pc[m.from] \in Sending => m.seq < sent[m.from]

AllSettled == /\ \A p \in Proc : \A i \in 1..Len(mailbox[p]) : Settled(mailbox[p][i])
              /\ \A g \in Goroutine : \A i \in 1..Len(received[g]) : Settled(received[g][i])
              /\ \A m \in acked \cup refused : Settled(m)

\* One sender's messages to one process are in the order they were sent.
Before(m, n) == m.from = n.from /\ m.to = n.to => m.seq < n.seq

\* Within a mailbox, within what a goroutine received, and what was received
\* comes before what is still to be received.
Ordered ==
    /\ \A p \in Proc : \A i, j \in 1..Len(mailbox[p]) :
          i < j => Before(mailbox[p][i], mailbox[p][j])
    /\ \A g \in Goroutine : \A i, j \in 1..Len(received[g]) :
          i < j => Before(received[g][i], received[g][j])
    /\ \A g \in Goroutine, p \in Proc : \A i \in 1..Len(received[g]), j \in 1..Len(mailbox[p]) :
          Before(received[g][i], mailbox[p][j])

\* A message is received by one goroutine.
ReceivedOnce ==
    \A g, h \in Goroutine : \A i \in 1..Len(received[g]), j \in 1..Len(received[h]) :
        received[g][i] = received[h][j] => g = h

\* A mailbox holds messages to its process.
Addressed == \A p \in Proc : \A i \in 1..Len(mailbox[p]) : mailbox[p][i].to = p

\* A Send that returned an error has delivered nothing.
RefusedIsGone ==
    \A m \in refused :
        /\ \A p \in Proc : \A i \in 1..Len(mailbox[p]) : mailbox[p][i] # m
        /\ \A g \in Goroutine : \A i \in 1..Len(received[g]) : received[g][i] # m

\* A Send that returned nil has delivered, unless it may drop.
AckedIsThere ==
    \A m \in acked :
        /\ m.to \in pids
        /\ \/ closed[m.to] \/ overflow[m.to] = "drop"
           \/ \E p \in Proc : \E i \in 1..Len(mailbox[p]) : mailbox[p][i] = m
           \/ \E g \in Goroutine : \E i \in 1..Len(received[g]) : received[g][i] = m

Delivery == /\ AllSettled /\ Addressed /\ Ordered /\ ReceivedOnce
            /\ RefusedIsGone /\ AckedIsThere

\* The fields of a message.
LEMMA MessageFields ==
    ASSUME NEW m \in Message
    PROVE  m.from \in Goroutine /\ m.seq \in Nat /\ m.to \in Proc
<1>1. PICK g \in Goroutine : m \in [from : {g}, seq : 0..MaxSend[g], to : Proc]
  BY DEF Message
<1>2. MaxSend[g] \in Nat
  BY ProcessesAssumption
<1> QED
  BY <1>1, <1>2

\* A goroutine numbers its messages upwards, and begins a Send with a number
\* of its own.
Onward(h) == /\ sent'[h] \in Nat /\ sent[h] <= sent'[h]
             /\ pc'[h] \in Sending => pc[h] \in Sending \/ sent[h] < sent'[h]

\* Every step takes every goroutine onward.
LEMMA StepOnward == ASSUME Inv, [Next]_vars PROVE \A h \in Goroutine : Onward(h)
<1>1. pc \in [Goroutine -> PC] /\ sent \in [Goroutine -> Nat] /\ target \in [Goroutine -> Proc]
  BY DEF Inv, TypeOK, GoroutineTypeOK
<1>2. ASSUME NEW g \in Goroutine, NEW p \in Proc, SendBegin(g, p)
      PROVE  \A h \in Goroutine : Onward(h)
  BY <1>1, <1>2 DEF SendBegin, Goto, Onward
<1>3. ASSUME NEW g \in Goroutine, NEW l \in PC \ {"send"}, sent' = sent,
             pc' = Goto(g, l), l = "sendWait" => pc[g] = "send"
      PROVE  \A h \in Goroutine : Onward(h)
  BY <1>1, <1>3 DEF Goto, Onward, Sending
<1>4. ASSUME NEW p \in Proc, NEW pcs \in [Goroutine -> PC], sent' = sent, pc' = Broadcast(p, pcs),
             \A h \in Goroutine : pcs[h] \in Sending => pc[h] \in Sending
      PROVE  \A h \in Goroutine : Onward(h)
  <2>1. \A h \in Goroutine : pc'[h] \in Sending => pcs[h] \in Sending
    BY <1>4, BroadcastFacts DEF Sending
  <2> QED
    BY <1>1, <1>4, <2>1 DEF Onward
<1>5. ASSUME NEW g \in Goroutine, NEW l \in {"run", "done"}, NEW p \in Proc, sent' = sent,
             pc' = Broadcast(p, Goto(g, l))
      PROVE  \A h \in Goroutine : Onward(h)
  <2>1. Goto(g, l) \in [Goroutine -> PC]
    BY <1>1 DEF Goto, PC
  <2>2. \A h \in Goroutine : Goto(g, l)[h] \in Sending => pc[h] \in Sending
    BY <1>1 DEF Goto, Sending
  <2> QED
    BY <1>4, <1>5, <2>1, <2>2
<1>6. ASSUME NEW g \in Goroutine, NEW d \in {"none", "pending"}, ReceiveBegin(g, d)
      PROVE  \A h \in Goroutine : Onward(h)
  BY <1>3, <1>6 DEF ReceiveBegin, PC
<1>7. ASSUME NEW g \in Goroutine, Iterate(g)
      PROVE  \A h \in Goroutine : Onward(h)
  <2>1. CASE SendDropped(g)
    BY <1>3, <2>1 DEF SendDropped, PC
  <2>2. CASE SendAccepted(g)
    BY <1>1, <1>5, <2>2 DEF SendAccepted
  <2>3. CASE SendRefused(g)
    BY <1>3, <2>3 DEF SendRefused, PC
  <2>4. CASE SendBlocks(g)
    BY <1>3, <2>4 DEF SendBlocks, PC
  <2>5. CASE PopMessage(g)
    BY <1>3, <2>5 DEF PopMessage, Pop, PC
  <2>6. CASE PopGivesUp(g)
    BY <1>3, <2>6 DEF PopGivesUp, PC
  <2>7. CASE PopBlocks(g)
    BY <1>3, <2>7 DEF PopBlocks, PC
  <2> QED
    BY <1>7, <2>1, <2>2, <2>3, <2>4, <2>5, <2>6, <2>7 DEF Iterate
<1>8. ASSUME UNCHANGED <<sent, pc>>
      PROVE  \A h \in Goroutine : Onward(h)
  BY <1>1, <1>8 DEF Onward
<1>9. ASSUME NEW g \in Goroutine, TimerFires(g)
      PROVE  \A h \in Goroutine : Onward(h)
  BY <1>1, <1>4, <1>9 DEF TimerFires
<1>10. ASSUME NEW p \in Proc, ExitRemove(p) \/ ExitClose(p) \/ ShutdownWake(p)
       PROVE  \A h \in Goroutine : Onward(h)
  <2>1. Body[p] \in Goroutine
    BY ProcessesAssumption
  <2>2. CASE ExitRemove(p)
    BY <1>3, <2>1, <2>2 DEF ExitRemove, PC
  <2>3. CASE ExitClose(p)
    BY <1>5, <2>1, <2>3 DEF ExitClose
  <2>4. CASE ShutdownWake(p)
    BY <1>1, <1>4, <2>4 DEF ShutdownWake
  <2> QED
    BY <1>10, <2>2, <2>3, <2>4
<1>11. ASSUME NEW g \in Goroutine, DeadlinePasses(g)
       PROVE  \A h \in Goroutine : Onward(h)
  BY <1>8, <1>11 DEF DeadlinePasses
<1>12. CASE UNCHANGED <<opVars, mailbox>>
  BY <1>8, <1>12 DEF opVars
<1> QED
  BY <1>2, <1>6, <1>7, <1>9, <1>10, <1>11, <1>12, OpFrame DEF OpStep, Inv, TypeOK

\* So a message stays settled.
LEMMA SettledStays ==
    ASSUME Inv, [Next]_vars, NEW m \in Message, Settled(m)
    PROVE  /\ m.seq <= sent'[m.from]
           /\ pc'[m.from] \in Sending => m.seq < sent'[m.from]
<1>1. m.from \in Goroutine /\ m.seq \in Nat
  BY MessageFields
<1>2. Onward(m.from) /\ sent[m.from] \in Nat
  BY <1>1, StepOnward DEF Inv, TypeOK, GoroutineTypeOK
<1> QED
  BY <1>1, <1>2 DEF Onward, Settled

\* A process that was spawned keeps its options, and once closed stays so.
LEMMA OptionsStay ==
    ASSUME Inv, [Next]_vars
    PROVE  \A p \in pids : /\ p \in pids'
                           /\ closed[p] => closed'[p]
                           /\ overflow'[p] = overflow[p]
<1>1. pids \subseteq pids' /\ pids \subseteq Proc
  BY StepRuntime DEF Inv, TypeOK, RuntimeTypeOK, RuntimeNext, rtVars, Insert, Remove, RegisterName,
                     UnregisterName, SetDown
<1>2. closed \in [Proc -> BOOLEAN] /\ overflow \in [Proc -> Overflow]
  BY DEF Inv, TypeOK, MailboxTypeOK
<1>3. ASSUME NEW g \in Goroutine, NEW p \in Proc, NEW b \in Bounds, NEW o \in OverflowOption,
             Spawn(g, p, b, o)
      PROVE  \A q \in pids : (closed[q] => closed'[q]) /\ overflow'[q] = overflow[q]
  BY <1>1, <1>2, <1>3 DEF Spawn, Insert
<1>4. ASSUME NEW p \in Proc, ExitClose(p)
      PROVE  \A q \in pids : (closed[q] => closed'[q]) /\ overflow'[q] = overflow[q]
  BY <1>1, <1>2, <1>4 DEF ExitClose
<1>5. ASSUME UNCHANGED <<closed, overflow>>
      PROVE  \A q \in pids : (closed[q] => closed'[q]) /\ overflow'[q] = overflow[q]
  BY <1>5
<1> QED
  BY <1>1, <1>3, <1>4, <1>5, MailboxFrame DEF MailboxStep, mbVars, SendAccepted, PopMessage, Pop

\* What is sent now is settled nowhere: not in a mailbox, not received, not
\* answered.
LEMMA SendIsNew ==
    ASSUME Inv, NEW g \in Goroutine, pc[g] = "send", NEW m \in Message, Settled(m)
    PROVE  m # Msg(g) /\ (m.from = g => m.seq < sent[g])
BY DEF Settled, Sending, Msg, Inv, TypeOK, GoroutineTypeOK

\* Every message in a mailbox or received is a message.
LEMMA Messages ==
    ASSUME Inv
    PROVE  /\ \A p \in Proc : /\ mailbox[p] \in Seq(Message) /\ Len(mailbox[p]) \in Nat
                              /\ \A i \in 1..Len(mailbox[p]) : mailbox[p][i] \in Message
           /\ \A g \in Goroutine : /\ received[g] \in Seq(Message) /\ Len(received[g]) \in Nat
                                   /\ \A i \in 1..Len(received[g]) : received[g][i] \in Message
           /\ acked \subseteq Message /\ refused \subseteq Message
BY DEF Inv, TypeOK, MailboxTypeOK, HistoryTypeOK

\* Only these steps put a message somewhere or take it away.
LEMMA DeliveryFrame == [Next]_vars => HistoryStep \/ UNCHANGED <<mailbox, received, acked, refused>>
<1>1. [Next]_vars /\ ~HistoryStep => UNCHANGED mailbox
  BY MailboxFrame DEF MailboxStep, HistoryStep, mbVars, Spawn, ExitClose
<1> QED
  BY <1>1, HistoryFrame DEF history

\* Messages that stay where they are stay settled.
LEMMA StepSettled ==
    ASSUME Inv, Delivery, [Next]_vars
    PROVE  /\ \A p \in Proc : \A i \in 1..Len(mailbox[p]) : Settled(mailbox[p][i])
           /\ \A m \in Message : Settled(m) => Settled(m)'
<1>1. \A m \in Message : Settled(m) => Settled(m)'
  BY SettledStays DEF Settled
<1> QED
  BY <1>1 DEF Delivery, AllSettled

\* A step that moves no message.
LEMMA StillDelivery ==
    ASSUME Inv, Delivery, [Next]_vars, UNCHANGED <<mailbox, received, acked, refused>>
    PROVE  Delivery'
<1>1. AllSettled'
  <2>1. \A m \in Message : Settled(m) => Settled(m)'
    BY StepSettled
  <2>2. ASSUME NEW p \in Proc, NEW i \in 1..Len(mailbox'[p]) PROVE Settled(mailbox[p][i])'
    <3>1. PICK m : m = mailbox[p][i]
      OBVIOUS
    <3>2. m \in Message /\ Settled(m) /\ m = mailbox'[p][i]
      BY <2>2, <3>1, Messages DEF Delivery, AllSettled
    <3> QED
      BY <2>1, <3>2 DEF Settled
  <2>3. ASSUME NEW g \in Goroutine, NEW i \in 1..Len(received'[g]) PROVE Settled(received[g][i])'
    <3>1. PICK m : m = received[g][i]
      OBVIOUS
    <3>2. m \in Message /\ Settled(m) /\ m = received'[g][i]
      BY <2>3, <3>1, Messages DEF Delivery, AllSettled
    <3> QED
      BY <2>1, <3>2 DEF Settled
  <2>4. \A m \in (acked \cup refused)' : Settled(m)'
    BY <2>1, Messages DEF Delivery, AllSettled
  <2> QED
    BY <2>2, <2>3, <2>4 DEF AllSettled
<1>2. Ordered' /\ ReceivedOnce' /\ RefusedIsGone' /\ Addressed'
  BY DEF Delivery, Ordered, ReceivedOnce, RefusedIsGone, Addressed, Before
<1>3. AckedIsThere'
  BY OptionsStay DEF Delivery, AckedIsThere
<1> QED
  BY <1>1, <1>2, <1>3 DEF Delivery

\* A Send that ends without touching a mailbox: dropped, or refused.
LEMMA AnswerDelivery ==
    ASSUME Inv, Delivery, [Next]_vars, NEW g \in Goroutine, SendDropped(g) \/ SendRefused(g)
    PROVE  Delivery'
<1>1. PICK m : m = Msg(g)
  OBVIOUS
<1>2. m \in Message /\ m.from = g /\ m.seq = sent[g] /\ m.to = target[g] /\ pc[g] = "send"
  BY <1>1, MsgType DEF Inv, TypeOK, Msg, SendDropped, SendRefused, SendFails
<1>3. /\ UNCHANGED <<mailbox, received, sent, closed, overflow, pids>> /\ pc' = Goto(g, "run")
      /\ \/ acked' = acked \cup {m} /\ refused' = refused /\ Drops(target[g])
         \/ acked' = acked /\ refused' = refused \cup {m}
  BY <1>1 DEF SendDropped, SendRefused, mbVars, rtVars
<1>4. Settled(m)'
  BY <1>2, <1>3 DEF Settled, Goto, Sending, Inv, TypeOK, GoroutineTypeOK
<1>5. \A n \in Message : Settled(n) => n # m /\ Settled(n)'
  BY <1>1, <1>2, SendIsNew, StepSettled
<1>6. AllSettled'
  <2>1. ASSUME NEW p \in Proc, NEW i \in 1..Len(mailbox'[p]) PROVE Settled(mailbox[p][i])'
    <3>1. PICK n : n = mailbox[p][i]
      OBVIOUS
    <3>2. n \in Message /\ Settled(n) /\ n = mailbox'[p][i]
      BY <1>3, <2>1, <3>1, Messages DEF Delivery, AllSettled
    <3> QED
      BY <1>5, <3>2 DEF Settled
  <2>2. ASSUME NEW h \in Goroutine, NEW i \in 1..Len(received'[h]) PROVE Settled(received[h][i])'
    <3>1. PICK n : n = received[h][i]
      OBVIOUS
    <3>2. n \in Message /\ Settled(n) /\ n = received'[h][i]
      BY <1>3, <2>2, <3>1, Messages DEF Delivery, AllSettled
    <3> QED
      BY <1>5, <3>2 DEF Settled
  <2>3. \A n \in (acked \cup refused)' : Settled(n)'
    BY <1>3, <1>4, <1>5, Messages DEF Delivery, AllSettled
  <2> QED
    BY <2>1, <2>2, <2>3 DEF AllSettled
<1>7. Ordered' /\ ReceivedOnce' /\ Addressed'
  <2>1. UNCHANGED <<mailbox, received>>
    BY <1>3
  <2>2. Ordered'
    BY <2>1 DEF Delivery, Ordered, Before
  <2>3. ReceivedOnce' /\ Addressed'
    BY <2>1 DEF Delivery, ReceivedOnce, Addressed
  <2> QED
    BY <2>2, <2>3
<1>8. RefusedIsGone'
  <2>1. \A p \in Proc : \A i \in 1..Len(mailbox[p]) : mailbox[p][i] # m
    BY <1>5, Messages DEF Delivery, AllSettled
  <2>2. \A h \in Goroutine : \A i \in 1..Len(received[h]) : received[h][i] # m
    BY <1>5, Messages DEF Delivery, AllSettled
  <2> QED
    BY <1>3, <2>1, <2>2 DEF Delivery, RefusedIsGone
<1>9. AckedIsThere'
  <2>1. target[g] \in pids
    BY <1>2 DEF Inv, Lifecycle
  <2>2. Drops(target[g]) => closed[target[g]] \/ overflow[target[g]] = "drop"
    BY DEF Drops
  <2> QED
    BY <1>2, <1>3, <2>1, <2>2 DEF Delivery, AckedIsThere
<1> QED
  BY <1>6, <1>7, <1>8, <1>9 DEF Delivery

\* A Send that appends: the message is new and later than all before it.
LEMMA AcceptDelivery ==
    ASSUME Inv, Delivery, [Next]_vars, NEW g \in Goroutine, SendAccepted(g)
    PROVE  Delivery'
<1>1. PICK m : m = Msg(g)
  OBVIOUS
<1>2. PICK q : q = target[g]
  OBVIOUS
<1>3. m \in Message /\ m.from = g /\ m.seq = sent[g] /\ m.to = q /\ pc[g] = "send" /\ q \in Proc
  BY <1>1, <1>2, MsgType DEF Inv, TypeOK, GoroutineTypeOK, Msg, SendAccepted
<1>4. /\ UNCHANGED <<received, sent, closed, overflow, pids, refused>>
      /\ mailbox' = [mailbox EXCEPT ![q] = Append(mailbox[q], m)]
      /\ acked' = acked \cup {m} /\ pc' = Broadcast(q, Goto(g, "run"))
  BY <1>1, <1>2 DEF SendAccepted, rtVars
<1>5. pc'[g] = "run"
  BY <1>4 DEF Broadcast, Goto, Inv, TypeOK, GoroutineTypeOK
<1>6. Settled(m)'
  BY <1>3, <1>4, <1>5 DEF Settled, Sending, Inv, TypeOK, GoroutineTypeOK
<1>7. \A n \in Message : Settled(n) => n # m /\ Before(n, m) /\ Settled(n)'
  BY <1>1, <1>3, SendIsNew, StepSettled DEF Before
<1>8. /\ mailbox'[q] = Append(mailbox[q], m)
      /\ \A p \in Proc : p # q => mailbox'[p] = mailbox[p]
  BY <1>3, <1>4 DEF Inv, TypeOK, MailboxTypeOK
<1>9. /\ Len(mailbox'[q]) = Len(mailbox[q]) + 1 /\ mailbox'[q][Len(mailbox[q]) + 1] = m
      /\ \A i \in 1..Len(mailbox[q]) : mailbox'[q][i] = mailbox[q][i]
  BY <1>3, <1>8, Messages
<1>10. \A p \in Proc : \A i \in 1..Len(mailbox'[p]) :
          \/ p = q /\ i = Len(mailbox[q]) + 1 /\ mailbox'[p][i] = m
          \/ i \in 1..Len(mailbox[p]) /\ mailbox'[p][i] = mailbox[p][i]
  <2> SUFFICES ASSUME NEW p \in Proc, NEW i \in 1..Len(mailbox'[p])
               PROVE  \/ p = q /\ i = Len(mailbox[q]) + 1 /\ mailbox'[p][i] = m
                      \/ i \in 1..Len(mailbox[p]) /\ mailbox'[p][i] = mailbox[p][i]
    OBVIOUS
  <2>1. Len(mailbox[q]) \in Nat
    BY <1>3, Messages
  <2>2. CASE p = q
    BY <1>9, <2>1, <2>2
  <2>3. CASE p # q
    BY <1>8, <2>3
  <2> QED
    BY <2>2, <2>3
<1>11. AllSettled'
  <2>1. ASSUME NEW p \in Proc, NEW i \in 1..Len(mailbox'[p]) PROVE Settled(mailbox[p][i])'
    <3>1. PICK n : n = mailbox'[p][i]
      OBVIOUS
    <3>2. n = m \/ (n \in Message /\ Settled(n))
      BY <1>10, <3>1, Messages DEF Delivery, AllSettled
    <3> QED
      BY <1>6, <1>7, <3>1, <3>2 DEF Settled
  <2>2. ASSUME NEW h \in Goroutine, NEW i \in 1..Len(received'[h]) PROVE Settled(received[h][i])'
    <3>1. PICK n : n = received[h][i]
      OBVIOUS
    <3>2. n \in Message /\ Settled(n) /\ n = received'[h][i]
      BY <1>4, <2>2, <3>1, Messages DEF Delivery, AllSettled
    <3> QED
      BY <1>7, <3>2 DEF Settled
  <2>3. \A n \in (acked \cup refused)' : Settled(n)'
    BY <1>4, <1>6, <1>7, Messages DEF Delivery, AllSettled
  <2> QED
    BY <2>1, <2>2, <2>3 DEF AllSettled
<1>12. Ordered'
  <2>1. ASSUME NEW p \in Proc, NEW i \in 1..Len(mailbox'[p]), NEW j \in 1..Len(mailbox'[p]), i < j
        PROVE  Before(mailbox'[p][i], mailbox'[p][j])
    <3>1. i \in 1..Len(mailbox[p]) /\ mailbox'[p][i] = mailbox[p][i]
      <4>1. Len(mailbox[q]) \in Nat
        BY <1>3, Messages
      <4>2. CASE p = q
        BY <1>9, <2>1, <4>1, <4>2
      <4>3. CASE p # q
        BY <1>8, <2>1, <4>3
      <4> QED
        BY <4>2, <4>3
    <3>2. CASE j \in 1..Len(mailbox[p]) /\ mailbox'[p][j] = mailbox[p][j]
      BY <2>1, <3>1, <3>2 DEF Delivery, Ordered
    <3>3. CASE mailbox'[p][j] = m
      BY <1>7, <3>1, <3>3, Messages DEF Delivery, AllSettled
    <3> QED
      BY <1>10, <3>2, <3>3
  <2>2. \A h \in Goroutine : \A i, j \in 1..Len(received'[h]) :
           i < j => Before(received'[h][i], received'[h][j])
    BY <1>4 DEF Delivery, Ordered
  <2>3. ASSUME NEW h \in Goroutine, NEW p \in Proc, NEW i \in 1..Len(received'[h]),
               NEW j \in 1..Len(mailbox'[p])
        PROVE  Before(received'[h][i], mailbox'[p][j])
    <3>1. i \in 1..Len(received[h]) /\ received'[h][i] = received[h][i]
      BY <1>4
    <3>2. CASE j \in 1..Len(mailbox[p]) /\ mailbox'[p][j] = mailbox[p][j]
      BY <3>1, <3>2 DEF Delivery, Ordered
    <3>3. CASE mailbox'[p][j] = m
      BY <1>7, <3>1, <3>3, Messages DEF Delivery, AllSettled
    <3> QED
      BY <1>10, <3>2, <3>3
  <2> QED
    BY <2>1, <2>2, <2>3 DEF Ordered, Before
<1>13. ReceivedOnce' /\ Addressed'
  <2>1. ReceivedOnce'
    BY <1>4 DEF Delivery, ReceivedOnce
  <2>2. Addressed'
    BY <1>3, <1>10 DEF Delivery, Addressed
  <2> QED
    BY <2>1, <2>2
<1>14. RefusedIsGone'
  <2>1. m \notin refused
    BY <1>7, Messages DEF Delivery, AllSettled
  <2> QED
    BY <1>4, <1>10, <2>1 DEF Delivery, RefusedIsGone
<1>15. AckedIsThere'
  <2> SUFFICES ASSUME NEW n \in acked'
               PROVE  /\ n.to \in pids
                      /\ \/ closed[n.to] \/ overflow[n.to] = "drop"
                         \/ \E p \in Proc : \E i \in 1..Len(mailbox'[p]) : mailbox'[p][i] = n
                         \/ \E h \in Goroutine : \E i \in 1..Len(received[h]) : received[h][i] = n
    BY <1>4 DEF AckedIsThere
  <2>1. CASE n = m
    <3>1. q \in pids
      BY <1>2, <1>3 DEF Inv, Lifecycle
    <3>2. Len(mailbox[q]) + 1 \in 1..Len(mailbox'[q])
      BY <1>3, <1>9, Messages
    <3> QED
      BY <1>3, <1>9, <2>1, <3>1, <3>2
  <2>2. CASE n \in acked
    <3>1. \A p \in Proc : \A i \in 1..Len(mailbox[p]) :
             i \in 1..Len(mailbox'[p]) /\ mailbox'[p][i] = mailbox[p][i]
      BY <1>3, <1>8, <1>9, Messages
    <3> QED
      BY <2>2, <3>1 DEF Delivery, AckedIsThere
  <2> QED
    BY <1>4, <2>1, <2>2
<1> QED
  BY <1>11, <1>12, <1>13, <1>14, <1>15 DEF Delivery

\* PopFront: the front message goes to one receiver, after all it received
\* from that sender and before all that stay.
LEMMA PopDelivery ==
    ASSUME Inv, Delivery, [Next]_vars, NEW g \in Goroutine, PopMessage(g)
    PROVE  Delivery'
<1>1. PICK q : q = target[g]
  OBVIOUS
<1>2. q \in Proc /\ mailbox[q] # <<>> /\ mailbox[q] \in Seq(Message) /\ Len(mailbox[q]) \in Nat
  BY <1>1, Messages DEF PopMessage, Pop, Inv, TypeOK, GoroutineTypeOK
<1>3. PICK m : m = Head(mailbox[q])
  OBVIOUS
<1>4. m \in Message /\ 1 \in 1..Len(mailbox[q]) /\ m = mailbox[q][1]
  BY <1>2, <1>3
<1>5. /\ UNCHANGED <<sent, closed, overflow, pids, acked, refused>>
      /\ mailbox' = [mailbox EXCEPT ![q] = Tail(mailbox[q])]
      /\ received' = [received EXCEPT ![g] = Append(received[g], m)]
  BY <1>1, <1>3 DEF PopMessage, Pop, rtVars
<1>6. /\ mailbox'[q] = Tail(mailbox[q]) /\ \A p \in Proc : p # q => mailbox'[p] = mailbox[p]
      /\ received'[g] = Append(received[g], m)
      /\ \A h \in Goroutine : h # g => received'[h] = received[h]
  BY <1>2, <1>5 DEF Inv, TypeOK, MailboxTypeOK, HistoryTypeOK
<1>7. /\ Len(mailbox'[q]) = Len(mailbox[q]) - 1
      /\ \A i \in 1..Len(mailbox'[q]) : i + 1 \in 1..Len(mailbox[q]) /\ mailbox'[q][i] = mailbox[q][i + 1]
  BY <1>2, <1>6
<1>8. received[g] \in Seq(Message) /\ Len(received[g]) \in Nat
  BY Messages
<1>9. /\ Len(received'[g]) = Len(received[g]) + 1 /\ received'[g][Len(received[g]) + 1] = m
      /\ \A i \in 1..Len(received[g]) : received'[g][i] = received[g][i]
  BY <1>4, <1>6, <1>8
<1>10. \A h \in Goroutine : \A i \in 1..Len(received'[h]) :
          \/ h = g /\ i = Len(received[g]) + 1 /\ received'[h][i] = m
          \/ i \in 1..Len(received[h]) /\ received'[h][i] = received[h][i]
  <2> SUFFICES ASSUME NEW h \in Goroutine, NEW i \in 1..Len(received'[h])
               PROVE  \/ h = g /\ i = Len(received[g]) + 1 /\ received'[h][i] = m
                      \/ i \in 1..Len(received[h]) /\ received'[h][i] = received[h][i]
    OBVIOUS
  <2>1. CASE h = g
    <3>1. i \in 1..(Len(received[g]) + 1)
      BY <1>9, <2>1
    <3>2. i \in 1..Len(received[g]) \/ i = Len(received[g]) + 1
      BY <1>8, <3>1
    <3> QED
      BY <1>9, <2>1, <3>2
  <2>2. CASE h # g
    BY <1>6, <2>2
  <2> QED
    BY <2>1, <2>2
<1>11. \A p \in Proc : \A j \in 1..Len(mailbox'[p]) :
          \E k \in 1..Len(mailbox[p]) : /\ mailbox'[p][j] = mailbox[p][k]
                                        /\ p = q => k = j + 1
                                        /\ p # q => k = j
  BY <1>6, <1>7
<1>12. Settled(m)
  BY <1>2, <1>4 DEF Delivery, AllSettled
<1>13. \A n \in Message : Settled(n) => Settled(n)'
  BY StepSettled
<1>14. AllSettled'
  <2>1. ASSUME NEW p \in Proc, NEW i \in 1..Len(mailbox'[p]) PROVE Settled(mailbox[p][i])'
    <3>1. PICK n : n = mailbox'[p][i]
      OBVIOUS
    <3>2. n \in Message /\ Settled(n)
      BY <1>11, <3>1, Messages DEF Delivery, AllSettled
    <3> QED
      BY <1>13, <3>1, <3>2 DEF Settled
  <2>2. ASSUME NEW h \in Goroutine, NEW i \in 1..Len(received'[h]) PROVE Settled(received[h][i])'
    <3>1. PICK n : n = received'[h][i]
      OBVIOUS
    <3>2. n \in Message /\ Settled(n)
      BY <1>4, <1>10, <1>12, <3>1, Messages DEF Delivery, AllSettled
    <3> QED
      BY <1>13, <3>1, <3>2 DEF Settled
  <2>3. \A n \in (acked \cup refused)' : Settled(n)'
    BY <1>5, <1>13, Messages DEF Delivery, AllSettled
  <2> QED
    BY <2>1, <2>2, <2>3 DEF AllSettled
<1>15. Ordered'
  <2>1. ASSUME NEW p \in Proc, NEW i \in 1..Len(mailbox'[p]), NEW j \in 1..Len(mailbox'[p]), i < j
        PROVE  Before(mailbox'[p][i], mailbox'[p][j])
    <3>1. CASE p = q
      <4>1. /\ i + 1 \in 1..Len(mailbox[q]) /\ mailbox'[q][i] = mailbox[q][i + 1]
            /\ j + 1 \in 1..Len(mailbox[q]) /\ mailbox'[q][j] = mailbox[q][j + 1]
            /\ i + 1 < j + 1
        BY <1>7, <2>1, <3>1
      <4> QED
        BY <1>2, <3>1, <4>1 DEF Delivery, Ordered
    <3>2. CASE p # q
      BY <1>6, <2>1, <3>2 DEF Delivery, Ordered
    <3> QED
      BY <3>1, <3>2
  <2>2. ASSUME NEW h \in Goroutine, NEW i \in 1..Len(received'[h]), NEW j \in 1..Len(received'[h]),
               i < j
        PROVE  Before(received'[h][i], received'[h][j])
    <3>1. i \in 1..Len(received[h]) /\ received'[h][i] = received[h][i]
      <4>1. CASE h = g
        BY <1>8, <1>9, <2>2, <4>1
      <4>2. CASE h # g
        BY <1>6, <2>2, <4>2
      <4> QED
        BY <4>1, <4>2
    <3>2. CASE j \in 1..Len(received[h]) /\ received'[h][j] = received[h][j]
      BY <2>2, <3>1, <3>2 DEF Delivery, Ordered
    <3>3. CASE received'[h][j] = m
      BY <1>2, <1>4, <3>1, <3>3 DEF Delivery, Ordered
    <3> QED
      BY <1>10, <3>2, <3>3
  <2>3. ASSUME NEW h \in Goroutine, NEW p \in Proc, NEW i \in 1..Len(received'[h]),
               NEW j \in 1..Len(mailbox'[p])
        PROVE  Before(received'[h][i], mailbox'[p][j])
    <3>1. PICK k \in 1..Len(mailbox[p]) : /\ mailbox'[p][j] = mailbox[p][k]
                                          /\ p = q => k = j + 1
                                          /\ p # q => k = j
      BY <1>11
    <3>2. CASE i \in 1..Len(received[h]) /\ received'[h][i] = received[h][i]
      BY <3>1, <3>2 DEF Delivery, Ordered
    <3>3. CASE received'[h][i] = m
      <4>1. CASE p = q
        <5>1. 1 < k
          BY <3>1, <4>1
        <5> QED
          BY <1>2, <1>4, <3>1, <3>3, <4>1, <5>1 DEF Delivery, Ordered
      <4>2. CASE p # q
        <5>1. m.to = q /\ mailbox[p][k].to = p
          BY <1>2, <1>4 DEF Delivery, Addressed
        <5> QED
          BY <3>1, <3>3, <4>2, <5>1 DEF Before
      <4> QED
        BY <4>1, <4>2
    <3> QED
      BY <1>10, <3>2, <3>3
  <2> QED
    BY <2>1, <2>2, <2>3 DEF Ordered, Before
<1>16. ReceivedOnce'
  <2>1. \A h \in Goroutine : \A i \in 1..Len(received[h]) : received[h][i] # m
    <3> SUFFICES ASSUME NEW h \in Goroutine, NEW i \in 1..Len(received[h]), received[h][i] = m
                 PROVE  FALSE
      OBVIOUS
    <3>1. Before(m, m)
      BY <1>2, <1>4 DEF Delivery, Ordered
    <3>2. m.seq \in Nat
      BY <1>4, MessageFields
    <3> QED
      BY <3>1, <3>2 DEF Before
  <2> SUFFICES ASSUME NEW h \in Goroutine, NEW k \in Goroutine, NEW i \in 1..Len(received'[h]),
                      NEW j \in 1..Len(received'[k]), received'[h][i] = received'[k][j]
               PROVE  h = k
    BY DEF ReceivedOnce
  <2>2. CASE received'[h][i] = m
    <3>1. h = g
      BY <1>10, <2>1, <2>2
    <3>2. received'[k][j] = m
      BY <2>2
    <3>3. k = g
      BY <1>10, <2>1, <3>2
    <3> QED
      BY <3>1, <3>3
  <2>3. CASE received'[h][i] # m
    BY <1>10, <2>3 DEF Delivery, ReceivedOnce
  <2> QED
    BY <2>2, <2>3
<1>17. RefusedIsGone'
  <2>1. m \notin refused
    BY <1>2, <1>4 DEF Delivery, RefusedIsGone
  <2> QED
    BY <1>5, <1>10, <1>11, <2>1 DEF Delivery, RefusedIsGone
<1>18. Addressed'
  BY <1>11 DEF Delivery, Addressed
<1>19. AckedIsThere'
  <2> SUFFICES ASSUME NEW n \in acked
               PROVE  /\ n.to \in pids
                      /\ \/ closed[n.to] \/ overflow[n.to] = "drop"
                         \/ \E p \in Proc : \E i \in 1..Len(mailbox'[p]) : mailbox'[p][i] = n
                         \/ \E h \in Goroutine : \E i \in 1..Len(received'[h]) : received'[h][i] = n
    BY <1>5 DEF AckedIsThere
  <2>1. CASE n = m
    <3>1. Len(received[g]) + 1 \in 1..Len(received'[g])
      BY <1>8, <1>9
    <3> QED
      BY <1>9, <2>1, <3>1 DEF Delivery, AckedIsThere
  <2>2. ASSUME n # m, NEW p \in Proc, NEW i \in 1..Len(mailbox[p]), mailbox[p][i] = n
        PROVE  \E j \in 1..Len(mailbox'[p]) : mailbox'[p][j] = n
    <3>1. CASE p = q
      <4>1. i # 1
        BY <1>4, <2>2, <3>1
      <4>2. i - 1 \in 1..Len(mailbox'[q]) /\ (i - 1) + 1 = i
        BY <1>2, <1>7, <3>1, <4>1
      <4>3. mailbox'[q][i - 1] = mailbox[q][(i - 1) + 1]
        BY <1>7, <4>2
      <4> QED
        BY <2>2, <3>1, <4>2, <4>3
    <3>2. CASE p # q
      BY <1>6, <2>2, <3>2
    <3> QED
      BY <3>1, <3>2
  <2>3. ASSUME NEW h \in Goroutine, NEW i \in 1..Len(received[h]), received[h][i] = n
        PROVE  i \in 1..Len(received'[h]) /\ received'[h][i] = n
    <3>1. CASE h = g
      BY <1>8, <1>9, <2>3, <3>1
    <3>2. CASE h # g
      BY <1>6, <2>3, <3>2
    <3> QED
      BY <3>1, <3>2
  <2>4. CASE n # m
    BY <2>2, <2>3, <2>4 DEF Delivery, AckedIsThere
  <2> QED
    BY <2>1, <2>4
<1> QED
  BY <1>14, <1>15, <1>16, <1>17, <1>18, <1>19 DEF Delivery

\* Every step keeps what is known of messages.
LEMMA NextDelivery == Inv /\ Delivery /\ [Next]_vars => Delivery'
BY DeliveryFrame, StillDelivery, AnswerDelivery, AcceptDelivery, PopDelivery DEF HistoryStep

\* No message has been sent.
LEMMA InitDelivery == Init => Delivery
BY DEF Init, Delivery, AllSettled, Addressed, Ordered, ReceivedOnce, RefusedIsGone, AckedIsThere

\* So it holds throughout.
LEMMA AlwaysDelivery == Spec => [](Inv /\ Delivery)
BY InitInv, NextInv, InitDelivery, NextDelivery, PTL DEF Spec

(***************************************************************************)
(* What Send answers is true: nil means that the message is in the mailbox *)
(* or was received, unless the target was closed or drops; an error means  *)
(* that it was not and will not be delivered, however the sends, receives, *)
(* timeouts, exits and the shutdown interleave.                            *)
(***************************************************************************)
THEOREM SendsAreTruthful == Spec => []SendAnswerIsTrue
<1>1. ASSUME Inv, Delivery PROVE SendAnswerIsTrue
  <2>1. ASSUME NEW p \in Proc PROVE DOMAIN mailbox[p] = 1..Len(mailbox[p])
    <3>1. mailbox[p] \in Seq(Message)
      BY <1>1, Messages
    <3> QED
      BY <3>1
  <2>2. ASSUME NEW g \in Goroutine PROVE DOMAIN received[g] = 1..Len(received[g])
    <3>1. received[g] \in Seq(Message)
      BY <1>1, Messages
    <3> QED
      BY <3>1
  <2>3. \A m : InFlight(m) <=> \E p \in Proc : \E i \in 1..Len(mailbox[p]) : mailbox[p][i] = m
    BY <2>1 DEF InFlight, Range
  <2>4. \A m : Received(m) <=> \E g \in Goroutine : \E i \in 1..Len(received[g]) : received[g][i] = m
    BY <2>2 DEF Received, Range
  <2> QED
    BY <1>1, <2>3, <2>4 DEF Delivery, AckedIsThere, RefusedIsGone, SendAnswerIsTrue
<1> QED
  BY <1>1, AlwaysDelivery, PTL

(***************************************************************************)
(* Whoever receives them, one sender's messages to one process arrive in   *)
(* the order they were sent, and none arrives twice or at two goroutines.  *)
(***************************************************************************)
THEOREM MessagesArriveInOrder == Spec => []FifoPerSender
<1>1. ASSUME Inv, Delivery PROVE FifoPerSender
  <2>1. ASSUME NEW g \in Goroutine, NEW p \in Proc PROVE InSendOrder(received[g] \o mailbox[p])
    <3> DEFINE r == received[g]
               b == mailbox[p]
    <3>1. r \in Seq(Message) /\ b \in Seq(Message) /\ Len(r) \in Nat /\ Len(b) \in Nat
      BY <1>1, Messages
    <3>2. /\ \A i, j \in 1..Len(b) : i < j => Before(b[i], b[j])
          /\ \A i, j \in 1..Len(r) : i < j => Before(r[i], r[j])
          /\ \A i \in 1..Len(r), j \in 1..Len(b) : Before(r[i], b[j])
      BY <1>1 DEF Delivery, Ordered
    <3> HIDE DEF r, b
    <3> SUFFICES ASSUME NEW i \in 1..Len(r \o b), NEW j \in 1..Len(r \o b), i < j
                 PROVE  Before((r \o b)[i], (r \o b)[j])
      BY DEF InSendOrder, Before, r, b
    <3>3. \A k \in 1..Len(r \o b) : \/ k \in 1..Len(r) /\ (r \o b)[k] = r[k]
                                    \/ k > Len(r) /\ k - Len(r) \in 1..Len(b)
                                       /\ (r \o b)[k] = b[k - Len(r)]
      BY <3>1
    <3>4. CASE i \in 1..Len(r) /\ j \in 1..Len(r)
      BY <3>1, <3>2, <3>3, <3>4
    <3>5. CASE i \in 1..Len(r) /\ j \notin 1..Len(r)
      BY <3>1, <3>2, <3>3, <3>5
    <3>6. CASE i \notin 1..Len(r)
      <4>1. /\ i - Len(r) \in 1..Len(b) /\ (r \o b)[i] = b[i - Len(r)]
            /\ j \notin 1..Len(r)
        BY <3>1, <3>3, <3>6
      <4>2. j - Len(r) \in 1..Len(b) /\ (r \o b)[j] = b[j - Len(r)] /\ i - Len(r) < j - Len(r)
        BY <3>1, <3>3, <4>1
      <4> QED
        BY <3>2, <4>1, <4>2
    <3> QED
      BY <3>4, <3>5, <3>6
  <2>2. ASSUME NEW g \in Goroutine, NEW h \in Goroutine, g # h
        PROVE  Range(received[g]) \cap Range(received[h]) = {}
    <3>1. DOMAIN received[g] = 1..Len(received[g]) /\ DOMAIN received[h] = 1..Len(received[h])
      BY <1>1, Messages
    <3> QED
      BY <1>1, <2>2, <3>1 DEF Delivery, ReceivedOnce, Range
  <2> QED
    BY <2>1, <2>2 DEF FifoPerSender
<1> QED
  BY <1>1, AlwaysDelivery, PTL

-----------------------------------------------------------------------------
(***************************************************************************)
(* Sleeping senders.  NoSleepingSender needs ExitUnderWay: a process that  *)
(* left the table is between the two steps of its exit, or closed.         *)
(***************************************************************************)
ExitUnderWay == \A p \in pids \ table : pc[Body[p]] = "removed" \/ closed[p]

\* How a step moves a goroutine, as far as Send and exits are concerned: it
\* falls asleep in Send only by SendBlocks, and leaves an exit only by Close.
Moves(h) ==
    /\ pc'[h] = "sendWait" => (pc[h] = "sendWait" /\ target'[h] = target[h]) \/ SendBlocks(h)
    /\ pc[h] = "removed" => pc'[h] = "removed" \/ \E p \in Proc : h = Body[p] /\ ExitClose(p)

\* Every step moves goroutines so.
LEMMA StepMoves == ASSUME Inv, [Next]_vars PROVE \A h \in Goroutine : Moves(h)
<1>1. pc \in [Goroutine -> PC] /\ target \in [Goroutine -> Proc]
  BY DEF Inv, TypeOK, GoroutineTypeOK
<1>2. ASSUME NEW g \in Goroutine, NEW l \in PC \ {"sendWait"}, pc' = Goto(g, l),
             \A h \in Goroutine : h # g => target'[h] = target[h], pc[g] # "removed"
      PROVE  \A h \in Goroutine : Moves(h)
  BY <1>1, <1>2 DEF Goto, Moves
<1>3. ASSUME NEW p \in Proc, NEW pcs \in [Goroutine -> PC], pc' = Broadcast(p, pcs),
             \A h \in Goroutine :
                /\ pcs[h] = "sendWait" => pc[h] = "sendWait" /\ target'[h] = target[h]
                /\ pc[h] = "removed" => \/ pcs[h] = "removed"
                                        \/ \E q \in Proc : h = Body[q] /\ ExitClose(q)
      PROVE  \A h \in Goroutine : Moves(h)
  BY <1>3, BroadcastFacts, BroadcastWakesSenders DEF Moves
<1>4. ASSUME NEW g \in Goroutine, NEW p \in Proc, SendBegin(g, p)
      PROVE  \A h \in Goroutine : Moves(h)
  BY <1>1, <1>2, <1>4 DEF SendBegin, Running, PC
<1>5. ASSUME NEW g \in Goroutine, NEW d \in {"none", "pending"}, ReceiveBegin(g, d)
      PROVE  \A h \in Goroutine : Moves(h)
  BY <1>1, <1>2, <1>5 DEF ReceiveBegin, Running, PC
<1>6. ASSUME NEW g \in Goroutine, Iterate(g)
      PROVE  \A h \in Goroutine : Moves(h)
  <2>1. CASE SendDropped(g)
    BY <1>1, <1>2, <2>1 DEF SendDropped, ForgetCall, PC
  <2>2. CASE SendAccepted(g)
    <3>1. target[g] \in Proc /\ Goto(g, "run") \in [Goroutine -> PC]
      BY <1>1 DEF Goto, PC
    <3>2. pc' = Broadcast(target[g], Goto(g, "run")) /\ pc[g] = "send"
      BY <2>2 DEF SendAccepted
    <3>3. \A h \in Goroutine :
             /\ Goto(g, "run")[h] = "sendWait" => pc[h] = "sendWait" /\ target'[h] = target[h]
             /\ pc[h] = "removed" => Goto(g, "run")[h] = "removed"
      BY <1>1, <2>2, <3>2 DEF SendAccepted, Goto, ForgetCall
    <3> QED
      BY <1>3, <3>1, <3>2, <3>3
  <2>3. CASE SendRefused(g)
    BY <1>1, <1>2, <2>3 DEF SendRefused, SendFails, ForgetCall, PC
  <2>4. CASE SendBlocks(g)
    <3>1. pc' = [pc EXCEPT ![g] = "sendWait"] /\ target' = target /\ pc[g] = "send"
      BY <2>4 DEF SendBlocks, Goto
    <3> QED
      BY <1>1, <2>4, <3>1 DEF Moves
  <2>5. CASE PopMessage(g)
    BY <1>1, <1>2, <2>5 DEF PopMessage, Pop, ForgetCall, PC
  <2>6. CASE PopGivesUp(g)
    BY <1>1, <1>2, <2>6 DEF PopGivesUp, ForgetCall, PC
  <2>7. CASE PopBlocks(g)
    BY <1>1, <1>2, <2>7 DEF PopBlocks, PC
  <2> QED
    BY <1>6, <2>1, <2>2, <2>3, <2>4, <2>5, <2>6, <2>7 DEF Iterate
<1>7. ASSUME UNCHANGED <<pc, target>>
      PROVE  \A h \in Goroutine : Moves(h)
  BY <1>7 DEF Moves
<1>8. ASSUME NEW g \in Goroutine, TimerFires(g)
      PROVE  \A h \in Goroutine : Moves(h)
  BY <1>1, <1>3, <1>8 DEF TimerFires
<1>9. ASSUME NEW p \in Proc, ExitRemove(p)
      PROVE  \A h \in Goroutine : Moves(h)
  BY <1>1, <1>2, <1>9, ProcessesAssumption DEF ExitRemove, Running, PC
<1>10. ASSUME NEW p \in Proc, ExitClose(p)
       PROVE  \A h \in Goroutine : Moves(h)
  <2>1. Body[p] \in Goroutine /\ Goto(Body[p], "done") \in [Goroutine -> PC]
    BY <1>1, ProcessesAssumption DEF Goto, PC
  <2>2. pc' = Broadcast(p, Goto(Body[p], "done")) /\ target' = target
    BY <1>10 DEF ExitClose
  <2>3. \A h \in Goroutine :
           /\ Goto(Body[p], "done")[h] = "sendWait" => pc[h] = "sendWait" /\ target'[h] = target[h]
           /\ h # Body[p] /\ pc[h] = "removed" => Goto(Body[p], "done")[h] = "removed"
    BY <1>1, <2>1, <2>2 DEF Goto
  <2> QED
    BY <1>3, <1>10, <2>1, <2>2, <2>3
<1>11. ASSUME NEW p \in Proc, ShutdownWake(p)
       PROVE  \A h \in Goroutine : Moves(h)
  BY <1>1, <1>3, <1>11 DEF ShutdownWake
<1>12. ASSUME NEW g \in Goroutine, DeadlinePasses(g)
       PROVE  \A h \in Goroutine : Moves(h)
  BY <1>7, <1>12 DEF DeadlinePasses
<1>13. CASE UNCHANGED <<opVars, mailbox>>
  BY <1>7, <1>13 DEF opVars
<1> QED
  BY <1>4, <1>5, <1>6, <1>8, <1>9, <1>10, <1>11, <1>12, <1>13, OpFrame
     DEF OpStep, Inv, TypeOK

\* The steps that change the table, the shutdown flag or what Shutdown has
\* still to wake.
TableStep ==
    \/ /\ ~down /\ UNCHANGED <<down, waking, pc>>
       /\ \E p \in Proc \ pids : pids' = pids \cup {p} /\ table' = table \cup {p}
    \/ \E p \in Proc : ExitRemove(p) \/ ShutdownWake(p)
    \/ Shutdown

\* There are no others.
LEMMA TableFrame == [Next]_vars => TableStep \/ UNCHANGED <<pids, table, down, waking>>
BY ProcessesAssumption
   DEF TableStep, Next, Iterate, vars, rtVars, opVars, EnsureSelf, Spawn, Insert, Register,
       RegisterName, Unregister, UnregisterName, SendNamed, SendBegin, SendDropped,
       SendAccepted, SendRefused, SendBlocks, ReceiveBegin, PopMessage, Pop, PopGivesUp,
       PopBlocks, DeadlinePasses, TimerFires, ExitClose

\* A process leaves the table by its exit only, and then is in the exit.
LEMMA Leaves ==
    ASSUME Inv, [Next]_vars
    PROVE  /\ \A p \in table \ table' : p \in Proc /\ ExitRemove(p) /\ pc'[Body[p]] = "removed"
           /\ pids' \ table' \subseteq (pids \ table) \cup (table \ table')
           /\ down => table' \subseteq table
<1>1. pids \subseteq Proc /\ table \subseteq pids
  BY DEF Inv, TypeOK, RuntimeTypeOK
<1>2. CASE UNCHANGED <<pids, table, down, waking>>
  BY <1>2
<1>3. CASE ~down /\ \E p \in Proc \ pids : pids' = pids \cup {p} /\ table' = table \cup {p}
  BY <1>1, <1>3
<1>4. ASSUME NEW p \in Proc, ExitRemove(p)
      PROVE  /\ \A q \in table \ table' : q \in Proc /\ ExitRemove(q) /\ pc'[Body[q]] = "removed"
             /\ pids' \ table' \subseteq (pids \ table) \cup (table \ table')
             /\ table' \subseteq table
  <2>1. table' = table \ {p} /\ pids' = pids
    BY <1>4 DEF ExitRemove, Remove
  <2>2. pc'[Body[p]] = "removed"
    BY <1>4, ProcessesAssumption DEF ExitRemove, Goto, Inv, TypeOK, GoroutineTypeOK
  <2> QED
    BY <1>1, <1>4, <2>1, <2>2
<1>5. ASSUME NEW p \in Proc, ShutdownWake(p) PROVE UNCHANGED <<pids, table>>
  BY <1>5 DEF ShutdownWake, rtVars
<1>6. CASE Shutdown
  BY <1>6 DEF Shutdown, SetDown
<1> QED
  BY <1>2, <1>3, <1>4, <1>5, <1>6, TableFrame DEF TableStep

\* A process that left the table is on its way to be closed, or is closed.
LEMMA StepExitUnderWay == Inv /\ ExitUnderWay /\ [Next]_vars => ExitUnderWay'
<1> SUFFICES ASSUME Inv, ExitUnderWay, [Next]_vars, NEW p \in pids' \ table'
             PROVE  pc'[Body[p]] = "removed" \/ closed'[p]
  BY DEF ExitUnderWay
<1>1. CASE p \in table \ table'
  BY <1>1, Leaves
<1>2. CASE p \in pids \ table
  <2>1. p \in Proc /\ Body[p] \in Goroutine /\ (closed[p] => closed'[p])
    BY <1>2, OptionsStay, ProcessesAssumption DEF Inv, TypeOK, RuntimeTypeOK
  <2>2. CASE pc[Body[p]] = "removed" /\ pc'[Body[p]] # "removed"
    <3>1. PICK q \in Proc : Body[p] = Body[q] /\ ExitClose(q)
      BY <2>1, <2>2, StepMoves DEF Moves
    <3>2. p = q
      BY <2>1, <3>1, ProcessesAssumption
    <3> QED
      BY <2>1, <3>1, <3>2 DEF ExitClose, Inv, TypeOK, MailboxTypeOK
  <2> QED
    BY <1>2, <2>1, <2>2 DEF ExitUnderWay
<1> QED
  BY <1>1, <1>2, Leaves

\* No step leaves a sender asleep without a broadcast to come.
LEMMA StepNoSleepingSender ==
    Inv /\ ExitUnderWay /\ NoSleepingSender /\ [Next]_vars => NoSleepingSender'
<1> SUFFICES ASSUME Inv, ExitUnderWay, NoSleepingSender, [Next]_vars,
                    NEW h \in Goroutine, pc'[h] = "sendWait"
             PROVE  /\ target'[h] \notin table' => pc'[Body[target'[h]]] = "removed"
                    /\ down' => target'[h] \in waking' \/ target'[h] \notin table'
  BY DEF NoSleepingSender
<1>1. pc \in [Goroutine -> PC] /\ target \in [Goroutine -> Proc] /\ down \in BOOLEAN
  BY DEF Inv, TypeOK, GoroutineTypeOK, RuntimeTypeOK
<1>2. CASE SendBlocks(h)
  <2>1. /\ pc[h] = "send" /\ ~closed[target[h]] /\ ~down
        /\ pc' = [pc EXCEPT ![h] = "sendWait"]
        /\ UNCHANGED <<target, pids, table, down>>
    BY <1>2 DEF SendBlocks, Goto, rtVars
  <2>2. target[h] \in pids
    BY <2>1 DEF Inv, Lifecycle
  <2>3. target[h] \notin table => pc[Body[target[h]]] = "removed"
    BY <2>1, <2>2 DEF ExitUnderWay
  <2>4. Body[target[h]] \in Goroutine
    BY <1>1, ProcessesAssumption
  <2> QED
    BY <1>1, <2>1, <2>3, <2>4
<1>3. CASE pc[h] = "sendWait" /\ target'[h] = target[h]
  <2> DEFINE t == target[h]
  <2>1. /\ t \in Proc /\ Body[t] \in Goroutine
        /\ t \notin table => pc[Body[t]] = "removed"
        /\ down => t \in waking \/ t \notin table
    BY <1>1, <1>3, ProcessesAssumption DEF NoSleepingSender
  <2>2. t \in pids
    BY <1>3 DEF Inv, Lifecycle
  <2> HIDE DEF t
  <2>3. ~ExitClose(t)
    <3> SUFFICES ASSUME ExitClose(t) PROVE FALSE
      OBVIOUS
    <3>1. pc' = Broadcast(t, Goto(Body[t], "done")) /\ Goto(Body[t], "done") \in [Goroutine -> PC]
      BY <1>1, <2>1 DEF ExitClose, Goto, PC
    <3> QED
      BY <2>1, <3>1, BroadcastWakesSenders DEF t
  <2>4. ~ShutdownWake(t)
    <3> SUFFICES ASSUME ShutdownWake(t) PROVE FALSE
      OBVIOUS
    <3>1. pc' = Broadcast(t, pc)
      BY DEF ShutdownWake
    <3> QED
      BY <1>1, <2>1, <3>1, BroadcastWakesSenders DEF t
  <2>5. t \notin table' => pc'[Body[t]] = "removed"
    <3>1. CASE t \in table
      BY <3>1, Leaves
    <3>2. CASE t \notin table
      <4> SUFFICES ASSUME pc'[Body[t]] # "removed" PROVE FALSE
        BY <3>2
      <4>1. PICK q \in Proc : Body[t] = Body[q] /\ ExitClose(q)
        BY <2>1, <3>2, StepMoves DEF Moves
      <4>2. t = q
        BY <2>1, <4>1, ProcessesAssumption
      <4> QED
        BY <2>3, <4>1, <4>2
    <3> QED
      BY <3>1, <3>2
  <2>6. down' => t \in waking' \/ t \notin table'
    <3>1. CASE UNCHANGED <<pids, table, down, waking>>
      BY <2>1, <3>1
    <3>2. CASE ~down /\ UNCHANGED <<down, waking, pc>>
      BY <3>2
    <3>3. ASSUME NEW p \in Proc, ExitRemove(p) PROVE down' => t \in waking' \/ t \notin table'
      BY <2>1, <3>3 DEF ExitRemove, Remove
    <3>4. ASSUME NEW p \in Proc, ShutdownWake(p) PROVE down' => t \in waking' \/ t \notin table'
      BY <2>1, <2>4, <3>4 DEF ShutdownWake, rtVars
    <3>5. CASE Shutdown
      BY <3>5 DEF Shutdown, SetDown
    <3> QED
      BY <3>1, <3>2, <3>3, <3>4, <3>5, TableFrame DEF TableStep
  <2> QED
    BY <1>3, <2>5, <2>6 DEF t
<1> QED
  BY <1>2, <1>3, StepMoves DEF Moves

\* Whatever the order of an exit of its target, of a shutdown and of its own
\* falling asleep, a sender that sleeps in Process.Send has a broadcast to
\* come, of Close or of Shutdown: neither relies on the poll timer.
THEOREM SendersAreReleased == Spec => []NoSleepingSender
<1>1. Init => ExitUnderWay /\ NoSleepingSender
  BY ProcessesAssumption DEF Init, RuntimeInit, ExitUnderWay, NoSleepingSender
<1> QED
  BY <1>1, InitInv, NextInv, StepExitUnderWay, StepNoSleepingSender, PTL DEF Spec
=============================================================================

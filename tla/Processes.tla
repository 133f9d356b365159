----------------------------- MODULE Processes -----------------------------
(***************************************************************************)
(* BEAM-style processes: the mailboxes of core/go/process.go and the words *)
(* of lang/go/native/native_process.go that use them, on top of the table  *)
(* and the name registry of ProcessRuntime.                                *)
(*                                                                         *)
(* A goroutine runs boru code on a registry whose Proc field is its home   *)
(* process.  The body of a spawned process is one such goroutine; await    *)
(* branches and timer callbacks run on forks, which copy the Proc pointer, *)
(* so several goroutines may send from, and receive on, one mailbox, and   *)
(* some may outlive the process.                                           *)
(*                                                                         *)
(* Send and PopFront are loops under p.mu that only leave it in cond.Wait: *)
(* one iteration is one step, and a waiting goroutine takes no step until  *)
(* a Broadcast on the mailbox it waits on.  The nested Down() check is     *)
(* part of the iteration; Shutdown broadcasts under p.mu, hence never      *)
(* between that check and the wait.                                        *)
(***************************************************************************)
EXTENDS ProcessRuntime, Naturals, Sequences, Functions

CONSTANTS Goroutine,   \* the goroutines of the program
          Home,        \* the process each one runs as (Registry.Proc)
          Body,        \* Body[p] runs the body of p, and its exit cleanup
          MainProc,    \* the implicit process of the top-level registry
          Bounds,      \* mailbox capacities a spawn may ask for; 0 = unbounded
          DefaultMailboxBound,
          MaxSend,     \* bound: sends each goroutine makes
          MaxRecv      \* bound: receives each goroutine makes

ASSUME ProcessesAssumption ==
    /\ Home \in [Goroutine -> Proc]
    /\ Body \in [Proc -> Goroutine]
    /\ \A p \in Proc : Home[Body[p]] = p
    /\ MainProc \in Proc
    /\ Bounds \subseteq Nat
    /\ DefaultMailboxBound \in Nat
    /\ MaxSend \in [Goroutine -> Nat]
    /\ MaxRecv \in [Goroutine -> Nat]

Overflow == {"block", "fail", "drop"}

\* What spawnHandler lets through of opts.overflow.
OverflowOption == Overflow

VARIABLES mailbox,    \* Process.mailbox
          bound,      \* Process.bound
          overflow,   \* Process.overflow
          closed,     \* Process.closed
          pc,         \* where each goroutine is
          target,     \* the process of the Send or PopFront in progress
          deadline,   \* of a PopFront: "none", "pending" or "passed"
          waking,     \* processes Shutdown has still to broadcast to
          sent,       \* number of sends each goroutine has begun
          received,   \* history: messages each goroutine's receives returned
          receives,   \* number of receives each goroutine has begun
          acked,      \* history: messages whose Send returned nil
          refused     \* history: messages whose Send returned an error

mbVars == <<mailbox, bound, overflow, closed>>
opVars == <<pc, target, deadline, sent, receives>>
history == <<received, acked, refused>>
vars == <<rtVars, mbVars, opVars, waking, history>>

\* A message is told apart by its sender, the sender's count and its target.
Message == UNION {[from : {g}, seq : 0..MaxSend[g], to : Proc] : g \in Goroutine}
Msg(g) == [from |-> g, seq |-> sent[g], to |-> target[g]]

\* "removed" is between rt.Remove(p) and p.Close() of the exit cleanup.
PC == {"run", "send", "sendWait", "recv", "recvWait", "removed", "done"}

MailboxTypeOK == /\ mailbox \in [Proc -> Seq(Message)]
                 /\ bound \in [Proc -> Nat]
                 /\ overflow \in [Proc -> Overflow]
                 /\ closed \in [Proc -> BOOLEAN]

GoroutineTypeOK == /\ pc \in [Goroutine -> PC]
                   /\ target \in [Goroutine -> Proc]
                   /\ deadline \in [Goroutine -> {"none", "pending", "passed"}]
                   /\ receives \in [Goroutine -> Nat]
                   /\ sent \in [Goroutine -> Nat]
                   /\ \A g \in Goroutine : sent[g] <= MaxSend[g]

HistoryTypeOK == /\ received \in [Goroutine -> Seq(Message)]
                 /\ acked \subseteq Message
                 /\ refused \subseteq Message

TypeOK == /\ RuntimeTypeOK /\ MailboxTypeOK /\ GoroutineTypeOK /\ HistoryTypeOK
          /\ waking \subseteq Proc

Init == /\ RuntimeInit
        /\ mailbox = [p \in Proc |-> <<>>]
        /\ bound = [p \in Proc |-> DefaultMailboxBound]
        /\ overflow = [p \in Proc |-> "block"]
        /\ closed = [p \in Proc |-> FALSE]
        /\ pc = [g \in Goroutine |-> "run"]
        /\ target = [g \in Goroutine |-> Home[g]]
        /\ deadline = [g \in Goroutine |-> "none"]
        /\ sent = [g \in Goroutine |-> 0]
        /\ receives = [g \in Goroutine |-> 0]
        /\ waking = {}
        /\ received = [g \in Goroutine |-> <<>>]
        /\ acked = {}
        /\ refused = {}

-----------------------------------------------------------------------------
\* The goroutine exists (its process was spawned; the top-level one always
\* does) and is between two words of its program.
Running(g) == /\ pc[g] = "run"
              /\ Home[g] \in pids \/ g = Body[MainProc]

\* Mutant: senders only are woken.
Broadcast_Senders(p, pcs) ==
    [g \in Goroutine |-> IF target[g] = p /\ pcs[g] = "sendWait" THEN "send" ELSE pcs[g]]

\* p.cond.Broadcast(): every goroutine waiting on p re-enters its loop.
Broadcast(p, pcs) ==
    [g \in Goroutine |->
        IF target[g] = p /\ pcs[g] = "sendWait" THEN "send"
        ELSE IF target[g] = p /\ pcs[g] = "recvWait" THEN "recv"
        ELSE pcs[g]]

Goto(g, l) == [pc EXCEPT ![g] = l]

\* The call returns and its locals are gone.
ForgetCall(g) == /\ target' = [target EXCEPT ![g] = Home[g]]
                 /\ deadline' = [deadline EXCEPT ![g] = "none"]

-----------------------------------------------------------------------------

\* spawnHandler; the options are validated before anything changes.
Spawn(g, p, b, o) ==
    /\ Running(g)
    /\ p # MainProc
    /\ Insert(p)
    /\ bound' = [bound EXCEPT ![p] = b]
    /\ overflow' = [overflow EXCEPT ![p] = o]
    /\ UNCHANGED <<mailbox, closed, opVars, waking, history>>

\* ensureSelfProc at the top level: the implicit main process.
EnsureSelf == /\ Running(Body[MainProc])
              /\ Insert(MainProc)
              /\ UNCHANGED <<mbVars, opVars, waking, history>>

Register(g, n, p) == /\ Running(g)
                     /\ RegisterName(n, p)
                     /\ UNCHANGED <<mbVars, opVars, waking, history>>

Unregister(g, n) == /\ Running(g)
                    /\ UnregisterName(n)
                    /\ UNCHANGED <<mbVars, opVars, waking, history>>

\* sendHandler up to the call of Send, the target given as a Pid or resolved
\* by Whereis; an unknown name drops the message.  p.mu is taken later.
SendBegin(g, p) == /\ Running(g)
                   /\ sent[g] < MaxSend[g]
                   /\ p \in pids
                   /\ sent' = [sent EXCEPT ![g] = @ + 1]
                   /\ target' = [target EXCEPT ![g] = p]
                   /\ pc' = Goto(g, "send")
                   /\ UNCHANGED <<rtVars, mbVars, deadline, receives, waking, history>>

\* resolveSendTarget with a name: the holder at this moment.
SendNamed(g, n) == names[n] # NoProc /\ SendBegin(g, names[n])

\* Mutant: the comparison with the capacity is off by one.
HasRoom_OffByOne(p) == bound[p] = 0 \/ Len(mailbox[p]) <= bound[p]

HasRoom(p) == bound[p] = 0 \/ Len(mailbox[p]) < bound[p]

Accepts(p) == ~closed[p] /\ HasRoom(p)

\* A closed target, or a full one that discards.
Drops(p) == closed[p] \/ (~HasRoom(p) /\ overflow[p] = "drop")

\* Send, the iteration that returns nil without touching the mailbox.
SendDropped(g) ==
    /\ pc[g] = "send"
    /\ Drops(target[g])
    /\ acked' = acked \cup {Msg(g)}
    /\ pc' = Goto(g, "run")
    /\ ForgetCall(g)
    /\ UNCHANGED <<rtVars, mbVars, sent, receives, waking, received, refused>>

SendAccepted(g) ==
    /\ pc[g] = "send"
    /\ Accepts(target[g])
    /\ mailbox' = [mailbox EXCEPT ![target[g]] = Append(@, Msg(g))]
    /\ pc' = Broadcast(target[g], Goto(g, "run"))
    /\ acked' = acked \cup {Msg(g)}
    /\ ForgetCall(g)
    /\ UNCHANGED <<rtVars, bound, overflow, closed, sent, receives, waking, received, refused>>

SendFails(g) == /\ pc[g] = "send"
                /\ ~closed[target[g]] /\ ~HasRoom(target[g])
                /\ \/ overflow[target[g]] = "fail"
                   \/ overflow[target[g]] = "block" /\ down

\* Mutant: the message is appended before the policy is consulted.
SendRefused_AfterAppend(g) ==
    /\ SendFails(g)
    /\ mailbox' = [mailbox EXCEPT ![target[g]] = Append(@, Msg(g))]
    /\ refused' = refused \cup {Msg(g)}
    /\ pc' = Goto(g, "run")
    /\ ForgetCall(g)
    /\ UNCHANGED <<rtVars, bound, overflow, closed, sent, receives, waking, received, acked>>

\* ErrMailboxOverload, or ErrRuntimeDown under the "block" policy.
SendRefused(g) ==
    /\ SendFails(g)
    /\ refused' = refused \cup {Msg(g)}
    /\ pc' = Goto(g, "run")
    /\ ForgetCall(g)
    /\ UNCHANGED <<rtVars, mbVars, sent, receives, waking, received, acked>>

SendBlocks(g) ==
    /\ pc[g] = "send"
    /\ LET p == target[g]
       IN ~closed[p] /\ ~HasRoom(p) /\ overflow[p] = "block" /\ ~down
    /\ pc' = Goto(g, "sendWait")
    /\ UNCHANGED <<rtVars, mbVars, target, deadline, sent, receives, waking, history>>

\* receiveHandler up to the call of PopFront, with (d = "pending") or
\* without (d = "none") an `after` clause; `after 0` is a deadline that may
\* pass at once.
ReceiveBegin(g, d) ==
    /\ Running(g)
    /\ Home[g] \in pids
    /\ receives[g] < MaxRecv[g]
    /\ receives' = [receives EXCEPT ![g] = @ + 1]
    /\ target' = [target EXCEPT ![g] = Home[g]]
    /\ deadline' = [deadline EXCEPT ![g] = d]
    /\ pc' = Goto(g, "recv")
    /\ UNCHANGED <<rtVars, mbVars, sent, waking, history>>

Pop(g, m, rest) ==
    /\ pc[g] = "recv"
    /\ mailbox[target[g]] # <<>>
    /\ received' = [received EXCEPT ![g] = Append(@, m)]
    /\ mailbox' = [mailbox EXCEPT ![target[g]] = rest]
    /\ pc' = Goto(g, "run")
    /\ ForgetCall(g)
    /\ UNCHANGED <<rtVars, bound, overflow, closed, sent, receives, waking, acked, refused>>

\* Mutant: the message stays at the front.
PopMessage_Peeks(g) == Pop(g, Head(mailbox[target[g]]), mailbox[target[g]])

\* PopFront: the front message goes, and nobody is told that there is room.
PopMessage(g) == Pop(g, Head(mailbox[target[g]]), Tail(mailbox[target[g]]))

\* PopFront gives up: ErrRuntimeDown, or the deadline passed and the `after`
\* body runs.
PopGivesUp(g) ==
    /\ pc[g] = "recv"
    /\ mailbox[target[g]] = <<>>
    /\ down \/ deadline[g] = "passed"
    /\ pc' = Goto(g, "run")
    /\ ForgetCall(g)
    /\ UNCHANGED <<rtVars, mbVars, sent, receives, waking, history>>

PopBlocks(g) ==
    /\ pc[g] = "recv"
    /\ mailbox[target[g]] = <<>>
    /\ ~down /\ deadline[g] # "passed"
    /\ pc' = Goto(g, "recvWait")
    /\ UNCHANGED <<rtVars, mbVars, target, deadline, sent, receives, waking, history>>

\* Time: the deadline of a receive in progress passes.
DeadlinePasses(g) ==
    /\ pc[g] \in {"recv", "recvWait"}
    /\ deadline[g] = "pending"
    /\ deadline' = [deadline EXCEPT ![g] = "passed"]
    /\ UNCHANGED <<rtVars, mbVars, pc, target, sent, receives, waking, history>>

\* Mutant: waitWithWake is a plain cond.Wait.
TimerArmed_NoPoll(g) == pc[g] = "recvWait" /\ deadline[g] = "passed"

\* Mutant: the wait for a deadline arms no timer.
TimerArmed_NoDeadline(g) ==
    pc[g] = "sendWait" \/ (pc[g] = "recvWait" /\ deadline[g] = "none")

\* The AfterFunc of a waiting goroutine: after 100ms in waitWithWake, at the
\* deadline in PopFront's other wait.
TimerArmed(g) ==
    pc[g] = "sendWait" \/ (pc[g] = "recvWait" /\ deadline[g] # "pending")

\* Its callback broadcasts to all waiters of the process.
TimerFires(g) ==
    /\ TimerArmed(g)
    /\ pc' = Broadcast(target[g], pc)
    /\ UNCHANGED <<rtVars, mbVars, target, deadline, sent, receives, waking, history>>

\* The exit cleanup of a spawned process, after its body returned, failed or
\* panicked: rt.Remove(p), then p.Close().
ExitRemove(p) ==
    /\ p # MainProc
    /\ Running(Body[p])
    /\ Remove(p)
    /\ pc' = Goto(Body[p], "removed")
    /\ UNCHANGED <<mbVars, target, deadline, sent, receives, waking, history>>

\* Mutant: Close tells nobody.
ExitClose_Silent(p) ==
    /\ pc[Body[p]] = "removed"
    /\ closed' = [closed EXCEPT ![p] = TRUE]
    /\ pc' = Goto(Body[p], "done")
    /\ UNCHANGED <<rtVars, mailbox, bound, overflow, target, deadline, sent,
                   receives, waking, history>>

ExitClose(p) ==
    /\ pc[Body[p]] = "removed"
    /\ closed' = [closed EXCEPT ![p] = TRUE]
    /\ pc' = Broadcast(p, Goto(Body[p], "done"))
    /\ UNCHANGED <<rtVars, mailbox, bound, overflow, target, deadline, sent,
                   receives, waking, history>>

\* Shutdown: down is set and the table copied under rt.mu; then one
\* Broadcast per process of the copy, each under that process's mu.
Shutdown == /\ SetDown
            /\ waking' = table
            /\ UNCHANGED <<mbVars, opVars, history>>

ShutdownWake(p) == /\ p \in waking
                   /\ waking' = waking \ {p}
                   /\ pc' = Broadcast(p, pc)
                   /\ UNCHANGED <<rtVars, mbVars, target, deadline, sent,
                                  receives, history>>

-----------------------------------------------------------------------------
\* One iteration of the loop of Send or of PopFront.
Iterate(g) == \/ SendDropped(g) \/ SendAccepted(g) \/ SendRefused(g) \/ SendBlocks(g)
              \/ PopMessage(g) \/ PopGivesUp(g) \/ PopBlocks(g)

Next == \/ EnsureSelf
        \/ Shutdown
        \/ \E g \in Goroutine :
              \/ \E p \in Proc, b \in Bounds, o \in OverflowOption : Spawn(g, p, b, o)
              \/ \E n \in Name, p \in Proc : Register(g, n, p)
              \/ \E n \in Name : Unregister(g, n)
              \/ \E p \in Proc : SendBegin(g, p)
              \/ \E n \in Name : SendNamed(g, n)
              \/ \E d \in {"none", "pending"} : ReceiveBegin(g, d)
              \/ Iterate(g)
              \/ DeadlinePasses(g)
              \/ TimerFires(g)
        \/ \E p \in Proc : ExitRemove(p) \/ ExitClose(p) \/ ShutdownWake(p)

Spec == Init /\ [][Next]_vars

\* What the Go scheduler and the timers guarantee: a goroutine that can take
\* its loop iteration does, an armed AfterFunc fires, time passes, and the
\* straight-line code of an exit and of Shutdown runs to its end.  Nothing
\* obliges a program to send, receive or exit.
Fairness == /\ \A g \in Goroutine : /\ WF_vars(Iterate(g))
                                    /\ WF_vars(DeadlinePasses(g))
                                    /\ WF_vars(TimerFires(g))
            /\ \A p \in Proc : WF_vars(ExitClose(p)) /\ WF_vars(ShutdownWake(p))

LiveSpec == Spec /\ Fairness

-----------------------------------------------------------------------------
\* A sender that was woken competes with every other sender for the freed
\* slot and looks again before it appends: no mailbox exceeds its capacity.
\* (ImplementsQueues makes TLC check it too: Put demands room.)
MailboxBounded == \A p \in Proc : bound[p] > 0 => Len(mailbox[p]) <= bound[p]

\* No goroutine sleeps in PopFront beside a message, also when several
\* receive on one mailbox and one of them took the message that woke all.
NoSleepingReceiver ==
    \A g \in Goroutine : pc[g] = "recvWait" => mailbox[target[g]] = <<>>

\* No goroutine sleeps in Send beyond the exit of its target or a shutdown,
\* in whichever order these come and wherever they are when it goes to sleep:
\* once the target has left the table its Close, and once the runtime is down
\* a broadcast of Shutdown or that Close, is still to come.  (The poll timer
\* is not needed for either.)
NoSleepingSender ==
    \A g \in Goroutine : pc[g] = "sendWait" =>
        /\ target[g] \notin table => pc[Body[target[g]]] = "removed"
        /\ down => target[g] \in waking \/ target[g] \notin table

\* Nothing is ever put into, or waited for on, the mailbox of a process that
\* was not spawned, and a mailbox is closed only by the exit of its process.
Lifecycle ==
    /\ \A p \in Proc : /\ p \notin pids => mailbox[p] = <<>>
                       /\ pc[Body[p]] = "removed" => p \in pids \ table
                       /\ closed[p] => p \in pids \ table /\ pc[Body[p]] = "done"
                       /\ pc[Body[p]] = "done" => closed[p]
    /\ \A g \in Goroutine :
          pc[g] \in {"send", "sendWait", "recv", "recvWait"} => target[g] \in pids

InFlight(m) == \E p \in Proc : m \in Range(mailbox[p])
Received(m) == \E g \in Goroutine : m \in Range(received[g])

\* What Send answers is true.  When it returned nil the message is in the
\* mailbox or was received, unless the target had exited or its owner asked
\* for messages to be dropped; when it returned an error the message is not
\* delivered, then or later, so a caller that retries after `overload` does
\* not deliver it twice.
SendAnswerIsTrue ==
    /\ \A m \in acked : \/ closed[m.to] \/ overflow[m.to] = "drop"
                         \/ InFlight(m) \/ Received(m)
    /\ \A m \in refused : ~InFlight(m) /\ ~Received(m)

InSendOrder(s) ==
    \A i, j \in 1..Len(s) :
        i < j /\ s[i].from = s[j].from /\ s[i].to = s[j].to => s[i].seq < s[j].seq

\* "Consume front": whoever receives them, one sender's messages to one
\* process arrive in the order they were sent, none twice.
FifoPerSender ==
    /\ \A g \in Goroutine, p \in Proc : InSendOrder(received[g] \o mailbox[p])
    /\ \A g, h \in Goroutine :
          g # h => Range(received[g]) \cap Range(received[h]) = {}

Queues == INSTANCE MessageQueues
              WITH queue <- mailbox, capacity <- bound,
                   Capacities <- Bounds \cup {DefaultMailboxBound},
                   open <- [p \in Proc |-> ~closed[p]]

\* The words, with all their waiting, waking, timing out and exiting, touch a
\* mailbox only as a bounded FIFO queue is touched.
ImplementsQueues == Queues!QueueSpec

\* Shutdown's comment: "every blocked receive/send wakes with ErrRuntimeDown",
\* also one on a process that already left the table, which the broadcasts
\* of Shutdown do not reach.
ShutdownUnblocks ==
    \A g \in Goroutine :
        (down /\ pc[g] \in {"sendWait", "recvWait"}) ~> (pc[g] = "run")

\* PopFront frees a slot without a Broadcast; a sender asleep beside the free
\* slot is nevertheless woken while the slot is there, or loses it to another.
SenderNotStranded ==
    \A g \in Goroutine : \A p \in Proc :
        (pc[g] = "sendWait" /\ target[g] = p /\ HasRoom(p))
            ~> (pc[g] # "sendWait" \/ ~HasRoom(p))

\* A receive with an `after` clause returns, whatever the other goroutines
\* on its mailbox and an exit of its process do.
TimedReceiveReturns ==
    \A g \in Goroutine :
        (pc[g] \in {"recv", "recvWait"} /\ deadline[g] # "none") ~> (pc[g] = "run")
=============================================================================

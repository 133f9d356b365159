--------------------------- MODULE MessageQueues ---------------------------
(***************************************************************************)
(* What the mailboxes of processes promise, with no goroutine, lock, wait, *)
(* poll or name in sight: one FIFO queue per process that a message enters *)
(* at the back, only while the queue is open and below its capacity, and   *)
(* leaves at the front, one at a time; a queue closes at most once and its *)
(* capacity is settled while it is empty.  Processes.tla implements it.    *)
(***************************************************************************)
EXTENDS Naturals, Sequences

CONSTANTS Proc, Message, Capacities

VARIABLES queue, capacity, open

queueVars == <<queue, capacity, open>>

QueueInit == /\ queue = [p \in Proc |-> <<>>]
             /\ capacity \in [Proc -> Capacities]
             /\ open = [p \in Proc |-> TRUE]

Put(p, m) == /\ open[p]
             /\ capacity[p] = 0 \/ Len(queue[p]) < capacity[p]
             /\ queue' = [queue EXCEPT ![p] = Append(@, m)]
             /\ UNCHANGED <<capacity, open>>

Get(p) == /\ queue[p] # <<>>
          /\ queue' = [queue EXCEPT ![p] = Tail(@)]
          /\ UNCHANGED <<capacity, open>>

Close(p) == /\ open[p]
            /\ open' = [open EXCEPT ![p] = FALSE]
            /\ UNCHANGED <<queue, capacity>>

Configure(p, b) == /\ open[p]
                   /\ queue[p] = <<>>
                   /\ capacity' = [capacity EXCEPT ![p] = b]
                   /\ UNCHANGED <<queue, open>>

QueueNext == \E p \in Proc :
                \/ \E m \in Message : Put(p, m)
                \/ Get(p)
                \/ Close(p)
                \/ \E b \in Capacities : Configure(p, b)

QueueSpec == QueueInit /\ [][QueueNext]_queueVars
=============================================================================

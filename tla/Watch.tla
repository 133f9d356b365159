------------------------------- MODULE Watch -------------------------------
(***************************************************************************)
(* A watcher on an overlay (watch.go, io_watch.go).  Every layer that can  *)
(* be watched has a bounded stream; a forwarder per layer copies it onto   *)
(* one merged stream `out`, which the pump of IO.watch reads, running the  *)
(* callback once per event.  No sender ever blocks: an event that finds    *)
(* its stream full is dropped and the sender remembers an overflow, which  *)
(* it announces by a marker ahead of the next event it can send.           *)
(*                                                                         *)
(* Events are numbered per layer.  A marker carries the layer it tells     *)
(* about (the code's marker names the root, the same for both layers): the *)
(* tag is there for the properties and no action reads it.                 *)
(***************************************************************************)
EXTENDS Naturals, Sequences, FiniteSets

CONSTANTS
    StopOrder,   \* the watched layers, in the order in which stop releases them
    Fsnotify,    \* the layers watched through fsnotify, the others are in memory
    Buffer,      \* watchBufferSize
    MaxEvents    \* bound on the events of a layer

Layers == {StopOrder[i] : i \in 1..Len(StopOrder)}

ASSUME WatchAssumption ==
    /\ Len(StopOrder) \in Nat
    /\ \A i, j \in 1..Len(StopOrder) : StopOrder[i] = StopOrder[j] => i = j
    /\ Fsnotify \subseteq Layers
    /\ "out" \notin Layers
    /\ Buffer \in Nat \ {0}
    /\ MaxEvents \in Nat

VARIABLES
    stream,      \* the buffered events of every layer's stream and of out
    closed,      \* the streams that are closed
    holding,     \* what a sender is about to send, <<>> when it is idle
    overflow,    \* the senders that have dropped an event and not said so
    emitted,     \* the number of changes a layer has reported
    stopping,    \* how far stop has got: 0 before unwatch, then an index
    ended,       \* the fsnotify sources that have been closed
    signalled,        \* the forwarders that have signalled done
    pumping,     \* the pump is still reading
    seen         \* what the pump has received, in order

watchVars == <<stream, closed, holding, overflow, emitted, stopping, ended, signalled,
          pumping, seen>>

Source(l) == <<"source", l>>
Forward(l) == <<"forward", l>>
Senders == {"source", "forward"} \X Layers
Target(s) == IF s[1] = "source" THEN s[2] ELSE "out"

Event(l, n) == [op |-> "change", layer |-> l, n |-> n]
Marker(l) == [op |-> "overflow", layer |-> l, n |-> 0]

Room(c) == Len(stream[c]) < Buffer
Idle(s) == holding[s] = <<>>

WatchInit ==
    /\ stream = [c \in Layers \cup {"out"} |-> <<>>]
    /\ closed = {}
    /\ holding = [s \in Senders |-> <<>>]
    /\ overflow = {}
    /\ emitted = [l \in Layers |-> 0]
    /\ stopping = 0
    /\ ended = {}
    /\ signalled = {}
    /\ pumping = TRUE
    /\ seen = <<>>

(***************************************************************************)
(* sendWatch, in the two selects of the code: the pending marker first,    *)
(* which gives the event up when the stream is still full, then the event. *)
(***************************************************************************)
SendMarker(s) ==
    LET c == Target(s)
    IN  /\ ~Idle(s)
        /\ s \in overflow
        /\ \/ /\ Room(c)
              /\ stream' = [stream EXCEPT ![c] = Append(@, Marker(s[2]))]
              /\ overflow' = overflow \ {s}
              /\ UNCHANGED holding
           \/ /\ ~Room(c)
              /\ holding' = [holding EXCEPT ![s] = <<>>]
              /\ UNCHANGED <<stream, overflow>>
        /\ UNCHANGED <<closed, emitted, stopping, ended, signalled, pumping, seen>>

\* Mutant of SendEvent: an event that finds no room is dropped silently.
SendEvent_Silent(s) ==
    LET c == Target(s)
    IN  /\ ~Idle(s)
        /\ s \notin overflow
        /\ holding' = [holding EXCEPT ![s] = <<>>]
        /\ stream' = IF Room(c) THEN [stream EXCEPT ![c] = Append(@, holding[s][1])]
                     ELSE stream
        /\ UNCHANGED <<closed, overflow, emitted, stopping, ended, signalled, pumping, seen>>

SendEvent(s) ==
    LET c == Target(s)
    IN  /\ ~Idle(s)
        /\ s \notin overflow
        /\ holding' = [holding EXCEPT ![s] = <<>>]
        /\ \/ /\ Room(c)
              /\ stream' = [stream EXCEPT ![c] = Append(@, holding[s][1])]
              /\ UNCHANGED overflow
           \/ /\ ~Room(c)
              /\ overflow' = overflow \cup {s}
              /\ UNCHANGED stream
        /\ UNCHANGED <<closed, emitted, stopping, ended, signalled, pumping, seen>>

\* The buffer of sender s's stream after flushOverflow.
Flushed(s) ==
    LET c == Target(s)
    IN  IF s \in overflow /\ Room(c)
        THEN Append(stream[c], Marker(s[2]))
        ELSE stream[c]

(***************************************************************************)
(* A change in a layer: emit under the mutex of the in-memory layer, or    *)
(* one event taken off fsnotify's queue by pumpFsnotify.                   *)
(***************************************************************************)
Emit(l) ==
    /\ l \notin closed
    /\ l \notin ended
    /\ Idle(Source(l))
    /\ emitted[l] < MaxEvents
    /\ emitted' = [emitted EXCEPT ![l] = @ + 1]
    /\ holding' = [holding EXCEPT ![Source(l)] = <<Event(l, emitted[l] + 1)>>]
    /\ UNCHANGED <<stream, closed, overflow, stopping, ended, signalled, pumping, seen>>

\* forwardWatchEvents takes the next event of its layer.
ForwardReceive(l) ==
    /\ Idle(Forward(l))
    /\ stream[l] # <<>>
    /\ holding' = [holding EXCEPT ![Forward(l)] = <<Head(stream[l])>>]
    /\ stream' = [stream EXCEPT ![l] = Tail(@)]
    /\ UNCHANGED <<closed, overflow, emitted, stopping, ended, signalled, pumping, seen>>

\* The layer's stream is closed and drained: flush and signal done.
ForwardEnd(l) ==
    /\ l \in closed
    /\ stream[l] = <<>>
    /\ Idle(Forward(l))
    /\ l \notin signalled
    /\ stream' = [stream EXCEPT !["out"] = Flushed(Forward(l))]
    /\ signalled' = signalled \cup {l}
    /\ UNCHANGED <<closed, holding, overflow, emitted, stopping, ended, pumping, seen>>

\* Mutant of CloseOut: the merged stream is closed with the first layer.
CloseOut_First ==
    /\ signalled # {}
    /\ "out" \notin closed
    /\ closed' = closed \cup {"out"}
    /\ UNCHANGED <<stream, holding, overflow, emitted, stopping, ended, signalled,
                   pumping, seen>>

\* The goroutine that waits for both forwarders and then closes out.
CloseOut ==
    /\ signalled = Layers
    /\ "out" \notin closed
    /\ closed' = closed \cup {"out"}
    /\ UNCHANGED <<stream, holding, overflow, emitted, stopping, ended, signalled,
                   pumping, seen>>

\* IO.unwatch, or IO.close: the first call of WatcherInfo.Stop.
Unwatch ==
    /\ stopping = 0
    /\ stopping' = 1
    /\ UNCHANGED <<stream, closed, holding, overflow, emitted, ended, signalled,
                   pumping, seen>>

\* Mutant of StopNext: stop returns after the first layer.
StopNext_FirstOnly ==
    /\ stopping = 1
    /\ stopping' = Len(StopOrder) + 1
    /\ LET l == StopOrder[1]
       IN  /\ Idle(Source(l))
           /\ stream' = [stream EXCEPT ![l] = Flushed(Source(l))]
           /\ closed' = closed \cup {l}
    /\ UNCHANGED <<holding, overflow, emitted, ended, signalled, pumping, seen>>

(***************************************************************************)
(* The stop function releases the layers in turn.  An in-memory layer      *)
(* flushes and closes its stream under its mutex; closing fsnotify's       *)
(* watcher only ends the source, and its pump closes the stream later.     *)
(***************************************************************************)
StopNext ==
    /\ stopping \in 1..Len(StopOrder)
    /\ stopping' = stopping + 1
    /\ LET l == StopOrder[stopping]
       IN  \/ /\ l \notin Fsnotify
              /\ Idle(Source(l))
              /\ stream' = [stream EXCEPT ![l] = Flushed(Source(l))]
              /\ closed' = closed \cup {l}
              /\ UNCHANGED ended
           \/ /\ l \in Fsnotify
              /\ ended' = ended \cup {l}
              /\ UNCHANGED <<stream, closed>>
    /\ UNCHANGED <<holding, overflow, emitted, signalled, pumping, seen>>

\* pumpFsnotify after its source was closed.
FsnotifyEnd(l) ==
    /\ l \in ended
    /\ l \notin closed
    /\ Idle(Source(l))
    /\ stream' = [stream EXCEPT ![l] = Flushed(Source(l))]
    /\ closed' = closed \cup {l}
    /\ UNCHANGED <<holding, overflow, emitted, stopping, ended, signalled, pumping, seen>>

\* The pump of doWatchWord receives an event and runs the callback.
Pump ==
    /\ pumping
    /\ stream["out"] # <<>>
    /\ seen' = Append(seen, Head(stream["out"]))
    /\ stream' = [stream EXCEPT !["out"] = Tail(@)]
    /\ UNCHANGED <<closed, holding, overflow, emitted, stopping, ended, signalled, pumping>>

PumpEnd ==
    /\ pumping
    /\ "out" \in closed
    /\ stream["out"] = <<>>
    /\ pumping' = FALSE
    /\ UNCHANGED <<stream, closed, holding, overflow, emitted, stopping, ended,
                   signalled, seen>>

Send(s) == SendMarker(s) \/ SendEvent(s)

WatchNext ==
    \/ \E s \in Senders : SendMarker(s) \/ SendEvent(s)
    \/ \E l \in Layers : \/ Emit(l)
                         \/ ForwardReceive(l)
                         \/ ForwardEnd(l)
                         \/ FsnotifyEnd(l)
    \/ CloseOut
    \/ Unwatch
    \/ StopNext
    \/ Pump
    \/ PumpEnd

(***************************************************************************)
(* Every goroutine is scheduled, a sender never waits, and the callback    *)
(* returns.  Nobody has to change a file or to call unwatch.               *)
(***************************************************************************)
WatchFairness ==
    /\ \A s \in Senders : WF_watchVars(Send(s))
    /\ \A l \in Layers : WF_watchVars(ForwardReceive(l)) /\ WF_watchVars(ForwardEnd(l))
                         /\ WF_watchVars(FsnotifyEnd(l))
    /\ WF_watchVars(CloseOut)
    /\ WF_watchVars(StopNext)
    /\ WF_watchVars(Pump)
    /\ WF_watchVars(PumpEnd)

WatchSpec == WatchInit /\ [][WatchNext]_watchVars /\ WatchFairness

(***************************************************************************)
(* Properties.                                                             *)
(***************************************************************************)

IsItem(e) == /\ DOMAIN e = {"op", "layer", "n"}
             /\ e.op \in {"change", "overflow"}
             /\ e.layer \in Layers
             /\ e.n \in 0..MaxEvents

WatchTypeOK ==
    /\ \A c \in DOMAIN stream : /\ Len(stream[c]) \in 0..Buffer
                                /\ \A i \in 1..Len(stream[c]) : IsItem(stream[c][i])
    /\ closed \subseteq Layers \cup {"out"}
    /\ \A s \in Senders : Idle(s) \/ (Len(holding[s]) = 1 /\ IsItem(holding[s][1]))
    /\ overflow \subseteq Senders
    /\ emitted \in [Layers -> 0..MaxEvents]
    /\ stopping \in 0..Len(StopOrder) + 1
    /\ ended \subseteq Fsnotify
    /\ signalled \subseteq Layers
    /\ pumping \in BOOLEAN

\* The changes of layer l the callback has been told, as positions of seen.
Changes(l) == {i \in 1..Len(seen) : seen[i].op = "change" /\ seen[i].layer = l}

\* The number of the change at position i: position 0 is before the first
\* change, and behind seen comes the change the layer will report next.
Number(l, i) == IF i = 0 THEN 0
                ELSE IF i > Len(seen) THEN emitted[l] + 1
                ELSE seen[i].n

(***************************************************************************)
(* A gap is announced, and only a gap: between two changes of a layer that *)
(* the callback sees one after the other, there is an overflow marker      *)
(* exactly when changes are missing, never more markers than changes lost, *)
(* and the changes come in the order in which they happened ("told exactly *)
(* once, in order, that events were dropped", watch.go), although a change *)
(* and a marker both pass two senders that may drop them.                  *)
(***************************************************************************)
GapIsMarked ==
    \A l \in Layers : \A i, j \in Changes(l) \cup {0, Len(seen) + 1} :
        i < j /\ (\A k \in Changes(l) : k <= i \/ k >= j) =>
            LET markers == {k \in (i + 1)..(j - 1) : seen[k].layer = l}
                lost == Number(l, j) - Number(l, i) - 1
            IN  /\ Number(l, j) > Number(l, i)
                /\ Cardinality(markers) <= lost
                /\ j <= Len(seen) /\ lost > 0 => markers # {}

(***************************************************************************)
(* Nobody sends on a closed stream, which would panic, and out is closed   *)
(* only when there is nothing left to forward.  stop closes the streams of *)
(* the layers under the feet of the forwarders, and out has two senders.   *)
(***************************************************************************)
NoSendOnClosed ==
    /\ \A s \in Senders : Target(s) \in closed => Idle(s)
    /\ "out" \in closed => \A l \in Layers : stream[l] = <<>> /\ l \in closed

(***************************************************************************)
(* unwatch ends the watcher: after it is called the callbacks for what was *)
(* still buffered run and the pump ends, however the layers are closed.    *)
(***************************************************************************)
UnwatchEndsPump == stopping > 0 ~> ~pumping

=============================================================================

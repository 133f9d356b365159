----------------------- MODULE ServiceDispatch_proofs -----------------------
(***************************************************************************)
(* Proofs that a service handles one request at a time: nobody else writes *)
(* its state while a call runs its handlers, for any number of services,   *)
(* actors and handlers and any calls of prior and of other services,       *)
(* cyclic ones included; that the chain of handlers a request runs, copied *)
(* in an earlier critical section, is one the service had; and that nobody *)
(* waits in a circle when the services that call each other are ordered by *)
(* a rank.                                                                 *)
(***************************************************************************)
EXTENDS ServiceDispatch, SequenceTheorems, WellFoundedInduction, TLAPS

IInv == /\ TypeOK
        /\ NoLostUpdate
        /\ RunnersHold
        /\ OuterFramesWait
        /\ HeldOnce
        /\ InAHandler

\* The chain of handlers that dispatchService copies is made of handlers.
LEMMA ChainType ==
    ASSUME TypeOK, NEW s \in Service, NEW p \in Pattern
    PROVE  Chain(s, p) \in Seq(Handler)
<1>1. wraps[s] \in Seq(Handler) /\ stacks[s][p] \in Seq(Handler)
  BY DEF TypeOK
<1>2. ASSUME NEW q \in Seq(Handler) PROVE Reverse(q) \in Seq(Handler)
  <2>1. \A i \in 1..Len(q) : q[(Len(q) - i) + 1] \in Handler
    BY ElementOfSeq
  <2>2. Reverse(q) \in [1..Len(q) -> Handler]
    BY <2>1 DEF Reverse
  <2>3. Len(q) \in Nat
    BY LenProperties
  <2> QED BY <2>2, <2>3, SeqDef
<1> QED BY <1>1, <1>2 DEF Chain

\* What replacing the innermost call of an actor changes.
LEMMA ReplaceFrame ==
    ASSUME TypeOK, NEW a \in Actor, Depth(a) > 0, NEW f \in Frame, Replace(a, f)
    PROVE  /\ frames' \in [Actor -> Seq(Frame)]
           /\ \A b \in Actor : b # a => frames'[b] = frames[b]
           /\ Len(frames'[a]) = Len(frames[a])
           /\ \A i \in 1..Len(frames[a]) : i # Len(frames[a]) => frames'[a][i] = frames[a][i]
           /\ frames'[a][Len(frames[a])] = f
BY DEF TypeOK, Replace, Depth

\* What leaving the innermost call of an actor changes.
LEMMA PopFrame ==
    ASSUME TypeOK, NEW a \in Actor, Depth(a) > 0, Pop(a)
    PROVE  /\ frames' \in [Actor -> Seq(Frame)]
           /\ \A b \in Actor : b # a => frames'[b] = frames[b]
           /\ Len(frames'[a]) = Len(frames[a]) - 1
           /\ \A i \in 1..Len(frames'[a]) : frames'[a][i] = frames[a][i]
<1>1. frames[a] \in Seq(Frame) /\ Len(frames[a]) \in Nat
  BY LenProperties DEF TypeOK
<1>2. frames'[a] = SubSeq(frames[a], 1, Len(frames[a]) - 1)
  BY DEF Pop, TypeOK
<1>3. \A i \in 1..Len(frames[a]) : frames[a][i] \in Frame
  BY <1>1, ElementOfSeq
<1>4. /\ SubSeq(frames[a], 1, Len(frames[a]) - 1) \in Seq(Frame)
      /\ Len(SubSeq(frames[a], 1, Len(frames[a]) - 1)) = Len(frames[a]) - 1
      /\ \A i \in 1..(Len(frames[a]) - 1) :
            SubSeq(frames[a], 1, Len(frames[a]) - 1)[i] = frames[a][i]
  BY <1>1 DEF Depth
<1>5. \A b \in Actor : b # a => frames'[b] = frames[b]
  BY DEF Pop, TypeOK
<1>6. frames' \in [Actor -> Seq(Frame)]
  BY <1>2, <1>4, <1>5 DEF Pop, TypeOK
<1> QED BY <1>2, <1>4, <1>5, <1>6

\* A new call has the type of a frame.
LEMMA NewFrameType ==
    ASSUME TypeOK, NEW s \in Service, NEW p \in Pattern
    PROVE  NewFrame(s, p) \in Frame
<1>1. Len(wraps[s]) \in Nat /\ Len(stacks[s][p]) \in Nat
  BY LenProperties DEF TypeOK
<1> QED BY <1>1 DEF NewFrame, Frame

\* The innermost call of an actor is a frame of a service, and its fields
\* have their types.
LEMMA TopFrame ==
    ASSUME TypeOK, NEW a \in Actor, Depth(a) > 0
    PROVE  /\ Len(frames[a]) \in 1..Len(frames[a])
           /\ Top(a) \in Frame /\ Top(a) = frames[a][Len(frames[a])]
           /\ Top(a).svc \in Service /\ Top(a).pat \in Pattern
<1>1. frames[a] \in Seq(Frame) /\ Len(frames[a]) \in Nat
  BY LenProperties DEF TypeOK
<1>2. Top(a) \in Frame
  BY <1>1, ElementOfSeq DEF Top, Depth
<1> QED BY <1>1, <1>2 DEF Top, Depth, Frame

\* Frame f stands for the same call as the innermost one of a, in a handler.
SameCall(a, f) == /\ f \in Frame /\ f.pc = "run" /\ Len(f.acts) > 0
                  /\ f.svc = Top(a).svc /\ f.pat = Top(a).pat /\ f.from = Top(a).from

\* The handler that has the control is an activation, and with another one in
\* its place the call is still the same.
LEMMA RunningFrame ==
    ASSUME TypeOK, InAHandler, NEW a \in Actor, At(a, "run")
    PROVE  /\ Depth(a) > 0 /\ Top(a) \in Frame /\ Top(a).pc = "run"
           /\ Top(a).acts \in Seq(Activation) /\ Len(Top(a).acts) > 0
           /\ Running(a) \in Activation
           /\ \A x \in Activation : /\ SameCall(a, WithRunning(a, x))
                                    /\ WithRunning(a, x).own = Top(a).own
                                    /\ WithRunning(a, x).acts \in Seq(Activation)
<1>1. /\ Depth(a) > 0 /\ Top(a).pc = "run"
      /\ Top(a) \in Frame /\ Top(a) = frames[a][Len(frames[a])]
      /\ Len(frames[a]) \in 1..Len(frames[a])
  BY TopFrame DEF At
<1>2. Top(a).acts \in Seq(Activation) /\ Len(Top(a).acts) > 0
  BY <1>1 DEF Frame, InAHandler
<1>3. Running(a) \in Activation
  BY <1>2, ElementOfSeq, LenProperties DEF Running
<1>4. ASSUME NEW x \in Activation
      PROVE  /\ SameCall(a, WithRunning(a, x))
             /\ WithRunning(a, x).own = Top(a).own
             /\ WithRunning(a, x).acts \in Seq(Activation)
  <2> DEFINE q == [Top(a).acts EXCEPT ![Len(Top(a).acts)] = x]
  <2>1. q \in Seq(Activation) /\ Len(q) > 0
    BY <1>2
  <2> HIDE DEF q
  <2>2. WithRunning(a, x) = [Top(a) EXCEPT !.acts = q]
    BY DEF WithRunning, Activations, q
  <2> QED
    BY <1>1, <2>1, <2>2 DEF SameCall, Frame
<1> QED
  BY <1>1, <1>2, <1>3, <1>4

\* With any activations, the call is still the same.
LEMMA ActivationsFrame ==
    ASSUME TypeOK, NEW a \in Actor, At(a, "run"), NEW q \in Seq(Activation), Len(q) > 0
    PROVE  SameCall(a, Activations(a, q)) /\ Activations(a, q).own = Top(a).own
BY TopFrame DEF At, SameCall, Frame, Activations

\* A read of the state, a call of prior and its return replace the innermost
\* frame by one of the same call.
LEMMA InsideTheCall ==
    ASSUME TypeOK, InAHandler, NEW a \in Actor, Read(a) \/ Prior(a) \/ PriorReturns(a)
    PROVE  /\ At(a, "run") /\ UNCHANGED <<mu, stacks, wraps, count, calls>>
           /\ \E f \in Frame : SameCall(a, f) /\ f.own = Top(a).own /\ Replace(a, f)
<1>1. At(a, "run") /\ UNCHANGED <<mu, stacks, wraps, count, calls>>
  BY DEF Read, Prior, PriorReturns, InBody
<1>2. /\ Top(a) \in Frame /\ Running(a) \in Activation
      /\ Top(a).acts \in Seq(Activation) /\ Len(Top(a).acts) > 0
      /\ \A x \in Activation : /\ SameCall(a, WithRunning(a, x))
                               /\ WithRunning(a, x).own = Top(a).own
                               /\ WithRunning(a, x).acts \in Seq(Activation)
  BY <1>1, RunningFrame
<1>3. CASE Read(a)
  <2> DEFINE x == [Running(a) EXCEPT !.pc = "write", !.seen = count[Top(a).svc]]
  <2>1. Replace(a, WithRunning(a, x))
    BY <1>3 DEF Read
  <2>2. count[Top(a).svc] \in Nat
    BY <1>2 DEF TypeOK, Frame
  <2>3. x \in Activation
    BY <1>2, <2>2 DEF Activation
  <2> HIDE DEF x
  <2> QED
    BY <1>1, <1>2, <2>1, <2>3 DEF SameCall
<1>4. CASE Prior(a)
  <2> DEFINE q == Append(WithRunning(a, Calling(a)).acts, Started)
  <2>1. Replace(a, Activations(a, q))
    BY <1>4 DEF Prior
  <2>2. Calling(a) \in Activation /\ Started \in Activation
    BY <1>2 DEF Activation, Calling, Started
  <2>3. q \in Seq(Activation) /\ Len(q) > 0
    BY <1>2, <2>2
  <2> HIDE DEF q
  <2> QED
    BY <1>1, <2>1, <2>3, ActivationsFrame DEF SameCall
<1>5. CASE PriorReturns(a)
  <2> DEFINE q == Front(Top(a).acts)
  <2>1. Replace(a, Activations(a, q)) /\ Len(Top(a).acts) > 1
    BY <1>5 DEF PriorReturns
  <2>2. q \in Seq(Activation) /\ Len(q) > 0
    BY <1>2, <2>1 DEF Front
  <2> HIDE DEF q
  <2> QED
    BY <1>1, <2>1, <2>2, ActivationsFrame DEF SameCall
<1> QED
  BY <1>1, <1>3, <1>4, <1>5

\* So does a write.
LEMMA WriteInside ==
    ASSUME TypeOK, InAHandler, NEW a \in Actor, Write(a)
    PROVE  /\ At(a, "run") /\ UNCHANGED <<mu, stacks, wraps, calls>>
           /\ \E f \in Frame, v \in Nat : /\ SameCall(a, f) /\ f.own = v /\ Replace(a, f)
                                          /\ count' = [count EXCEPT ![Top(a).svc] = v]
<1> DEFINE v == Running(a).seen + 1
           x == [Running(a) EXCEPT !.pc = "done"]
           f == [WithRunning(a, x) EXCEPT !.own = v]
<1>1. /\ At(a, "run") /\ UNCHANGED <<mu, stacks, wraps, calls>>
      /\ Replace(a, f) /\ count' = [count EXCEPT ![Top(a).svc] = v]
  BY DEF Write, InBody
<1>2. Running(a) \in Activation /\ x \in Activation /\ v \in Nat
  BY <1>1, RunningFrame DEF Activation
<1> HIDE DEF x, v
<1>3. SameCall(a, WithRunning(a, x))
  BY <1>1, <1>2, RunningFrame
<1>4. f \in Frame /\ SameCall(a, f) /\ f.own = v
  BY <1>2, <1>3 DEF SameCall, Frame
<1> HIDE DEF f
<1> QED
  BY <1>1, <1>2, <1>4

\* dispatchService starts the chain in the call that waited for the mutex.
LEMMA EnterFrame ==
    ASSUME TypeOK, NEW a \in Actor, Enter(a)
    PROVE  /\ At(a, "enter") /\ UNCHANGED <<stacks, wraps, count, calls>>
           /\ \E f \in Frame : SameCall(a, f) /\ f.own = count[f.svc] /\ Replace(a, f)
<1> DEFINE f == [Top(a) EXCEPT !.pc = "run", !.acts = <<Started>>, !.own = count[Top(a).svc]]
<1>1. At(a, "enter") /\ Replace(a, f) /\ UNCHANGED <<stacks, wraps, count, calls>>
  BY DEF Enter
<1>2. Top(a) \in Frame /\ count[Top(a).svc] \in Nat
  BY <1>1, TopFrame DEF At, TypeOK
<1>3. <<Started>> \in Seq(Activation) /\ Len(<<Started>>) = 1
  BY DEF Started, Activation
<1>4. /\ f \in Frame /\ f.pc = "run" /\ f.acts = <<Started>> /\ f.own = count[Top(a).svc]
      /\ f.svc = Top(a).svc /\ f.pat = Top(a).pat /\ f.from = Top(a).from
  BY <1>2, <1>3 DEF Frame
<1> HIDE DEF f
<1>5. SameCall(a, f) /\ f.own = count[f.svc]
  BY <1>3, <1>4 DEF SameCall
<1> QED
  BY <1>1, <1>4, <1>5

\* A call made in a handler puts a new frame on top of that of the call.
LEMMA NestedFrames ==
    ASSUME TypeOK, InAHandler, NEW a \in Actor, NEW s \in Service, NEW p \in Pattern,
           Nested(a, s, p)
    PROVE  /\ At(a, "run") /\ UNCHANGED <<mu, stacks, wraps, count, calls>>
           /\ frames' \in [Actor -> Seq(Frame)]
           /\ \A b \in Actor : b # a => frames'[b] = frames[b]
           /\ Len(frames'[a]) = Len(frames[a]) + 1
           /\ \A i \in 1..Len(frames[a]) : i # Len(frames[a]) => frames'[a][i] = frames[a][i]
           /\ SameCall(a, frames'[a][Len(frames[a])])
           /\ frames'[a][Len(frames[a])].own = Top(a).own
           /\ frames'[a][Len(frames[a]) + 1] = NewFrame(s, p)
<1> DEFINE n == Len(frames[a])
           f == WithRunning(a, Calling(a))
           g == NewFrame(s, p)
<1>1. /\ At(a, "run") /\ UNCHANGED <<mu, stacks, wraps, count, calls>>
      /\ frames' = [frames EXCEPT ![a] = Append([frames[a] EXCEPT ![n] = f], g)]
  BY DEF Nested
<1>2. n \in 1..n
  BY <1>1, TopFrame DEF At
<1>3. Calling(a) \in Activation
  <2>1. Running(a) \in Activation
    BY <1>1, RunningFrame
  <2> QED
    BY <2>1 DEF Calling, Activation
<1>4. SameCall(a, f) /\ f.own = Top(a).own /\ f \in Frame
  BY <1>1, <1>3, RunningFrame DEF SameCall
<1>5. g \in Frame
  BY NewFrameType
<1> HIDE DEF f, g
<1>6. /\ frames' \in [Actor -> Seq(Frame)]
      /\ \A b \in Actor : b # a => frames'[b] = frames[b]
      /\ Len(frames'[a]) = n + 1
      /\ \A i \in 1..n : i # n => frames'[a][i] = frames[a][i]
      /\ frames'[a][n] = f /\ frames'[a][n + 1] = g
  BY <1>1, <1>2, <1>4, <1>5 DEF TypeOK
<1> QED
  BY <1>1, <1>4, <1>6 DEF g

\* A step that only moves the innermost call between two program counters
\* keeps the invariant if it holds the mutex it needs.
LEMMA ReplaceKeeps ==
    ASSUME IInv, NEW a \in Actor, Depth(a) > 0, NEW f \in Frame, Replace(a, f),
           f.svc = Top(a).svc,
           f.pc = "run" => Top(a).pc = "run" /\ f.own = Top(a).own /\ Len(f.acts) > 0,
           UNCHANGED <<mu, stacks, wraps, count, calls>>
    PROVE  IInv'
<1> USE ReplaceFrame, TopFrame DEF IInv
<1>1. TypeOK'
  BY DEF TypeOK
<1>2. NoLostUpdate'
  <2> SUFFICES ASSUME NEW b \in Actor, NEW i \in 1..Len(frames'[b]), frames'[b][i].pc = "run"
               PROVE  count[frames'[b][i].svc] = frames'[b][i].own
    BY DEF NoLostUpdate
  <2>1. CASE b = a /\ i = Len(frames[a])
    <3>1. /\ frames'[b][i] = f /\ f.svc = Top(a).svc /\ f.own = Top(a).own
          /\ Top(a).pc = "run" /\ Top(a) = frames[a][i] /\ i \in 1..Len(frames[a])
      BY <2>1
    <3> QED BY <3>1 DEF NoLostUpdate
  <2>2. CASE ~(b = a /\ i = Len(frames[a]))
    <3>1. i \in 1..Len(frames[b]) /\ frames'[b][i] = frames[b][i]
      BY <2>2
    <3> QED BY <3>1 DEF NoLostUpdate
  <2> QED BY <2>1, <2>2
<1>3. RunnersHold'
  BY DEF RunnersHold, Top
<1>4. OuterFramesWait'
  BY DEF OuterFramesWait
<1>5. HeldOnce'
  BY DEF HeldOnce, Top
<1>6. InAHandler'
  <2> SUFFICES ASSUME NEW b \in Actor, NEW i \in 1..Len(frames'[b]), frames'[b][i].pc = "run"
               PROVE  Len(frames'[b][i].acts) > 0
    BY DEF InAHandler
  <2>1. CASE b = a /\ i = Len(frames[a])
    <3>1. frames'[b][i] = f
      BY <2>1
    <3> QED BY <3>1
  <2>2. CASE ~(b = a /\ i = Len(frames[a]))
    <3>1. i \in 1..Len(frames[b]) /\ frames'[b][i] = frames[b][i]
      BY <2>2
    <3> QED BY <3>1 DEF InAHandler
  <2> QED BY <2>1, <2>2
<1> QED BY <1>1, <1>2, <1>3, <1>4, <1>5, <1>6

\* Leaving the innermost call keeps the invariant when the mutex is released
\* if, and only if, that call held it.
LEMMA PopKeeps ==
    ASSUME IInv, NEW a \in Actor, Depth(a) > 0, Pop(a),
           \/ Top(a).pc # "run" /\ UNCHANGED mu
           \/ Top(a).pc = "run" /\ mu' = [mu EXCEPT ![Top(a).svc] = NoActor],
           UNCHANGED <<stacks, wraps, count, calls>>
    PROVE  IInv'
<1> USE PopFrame, TopFrame DEF IInv
<1>1. TypeOK'
  BY DEF TypeOK
<1>2. NoLostUpdate'
  BY DEF NoLostUpdate
<1>3. RunnersHold'
  <2> SUFFICES ASSUME NEW b \in Actor, NEW i \in 1..Len(frames'[b]),
                      frames'[b][i].pc = "run"
               PROVE  mu'[frames'[b][i].svc] = b
    BY DEF RunnersHold
  <2>1. frames'[b][i] = frames[b][i] /\ i \in 1..Len(frames[b]) /\ (b = a => i # Len(frames[b]))
    OBVIOUS
  <2>2. mu[frames[b][i].svc] = b
    BY <2>1 DEF RunnersHold
  <2>3. CASE Top(a).pc # "run" /\ UNCHANGED mu
    BY <2>1, <2>2, <2>3
  <2>4. CASE Top(a).pc = "run" /\ mu' = [mu EXCEPT ![Top(a).svc] = NoActor]
    <3>1. mu[Top(a).svc] = a
      BY <2>4 DEF RunnersHold
    <3>2. frames[b][i].svc # Top(a).svc
      BY <3>1, <2>1, <2>2, <2>4 DEF HeldOnce
    <3> QED BY <3>2, <2>1, <2>2, <2>4 DEF TypeOK
  <2> QED BY <2>3, <2>4
<1>4. OuterFramesWait'
  BY DEF OuterFramesWait
<1>5. HeldOnce'
  BY DEF HeldOnce
<1>6. InAHandler'
  <2>1. \A b \in Actor : \A i \in 1..Len(frames'[b]) :
           i \in 1..Len(frames[b]) /\ frames'[b][i] = frames[b][i]
    OBVIOUS
  <2> QED BY <2>1 DEF InAHandler
<1> QED BY <1>1, <1>2, <1>3, <1>4, <1>5, <1>6

\* dispatchService takes the mutex only when it is free, so no other call of
\* any actor, this one included, runs a chain of that service.
LEMMA EnterKeeps ==
    ASSUME IInv, NEW a \in Actor, Enter(a)
    PROVE  IInv'
<1>1. /\ Depth(a) > 0 /\ Top(a).pc = "enter" /\ mu[Top(a).svc] = NoActor
      /\ mu' = [mu EXCEPT ![Top(a).svc] = a]
      /\ UNCHANGED <<stacks, wraps, count, calls>>
  BY DEF Enter, At, Free
<1>2. TypeOK /\ RunnersHold /\ HeldOnce
  BY DEF IInv
<1>3. /\ Top(a) \in Frame /\ Top(a).svc \in Service
      /\ Len(frames[a]) \in 1..Len(frames[a])
  BY <1>1, <1>2, TopFrame
<1>4. PICK f \in Frame : /\ Replace(a, f) /\ f.svc = Top(a).svc /\ f.pc = "run"
                         /\ Len(f.acts) > 0 /\ f.own = count[f.svc]
  BY <1>2, EnterFrame DEF SameCall
<1>5. /\ frames' \in [Actor -> Seq(Frame)]
      /\ \A b \in Actor : b # a => frames'[b] = frames[b]
      /\ Len(frames'[a]) = Len(frames[a])
      /\ \A i \in 1..Len(frames[a]) : i # Len(frames[a]) => frames'[a][i] = frames[a][i]
      /\ frames'[a][Len(frames[a])] = f
  BY <1>1, <1>2, <1>4, ReplaceFrame
<1>6. ASSUME NEW b \in Actor, NEW i \in 1..Len(frames[b]), frames[b][i].pc = "run"
      PROVE  frames[b][i].svc # Top(a).svc
  BY <1>1, <1>2, <1>6, DispatchAssumption DEF RunnersHold
<1>7. TypeOK'
  BY <1>1, <1>2, <1>3, <1>5 DEF TypeOK
<1>8. NoLostUpdate'
  BY <1>1, <1>4, <1>5 DEF IInv, NoLostUpdate
<1>9. RunnersHold'
  <2> SUFFICES ASSUME NEW b \in Actor, NEW i \in 1..Len(frames'[b]),
                      frames'[b][i].pc = "run"
               PROVE  mu'[frames'[b][i].svc] = b
    BY DEF RunnersHold
  <2>1. CASE b = a /\ i = Len(frames[a])
    BY <2>1, <1>1, <1>2, <1>3, <1>4, <1>5 DEF TypeOK
  <2>2. CASE ~(b = a /\ i = Len(frames[a]))
    <3>1. i \in 1..Len(frames[b]) /\ frames'[b][i] = frames[b][i]
      BY <2>2, <1>5
    <3> QED BY <3>1, <1>6, <1>1, <1>2 DEF RunnersHold, TypeOK
  <2> QED BY <2>1, <2>2
<1>10. OuterFramesWait'
  BY <1>5 DEF IInv, OuterFramesWait
<1>11. HeldOnce'
  <2> SUFFICES ASSUME NEW b \in Actor, NEW i \in 1..Len(frames'[b]),
                      NEW j \in 1..Len(frames'[b]), i # j,
                      frames'[b][i].pc = "run", frames'[b][j].pc = "run"
               PROVE  frames'[b][i].svc # frames'[b][j].svc
    BY DEF HeldOnce
  <2>1. \A k \in 1..Len(frames'[b]) : ~(b = a /\ k = Len(frames[a])) =>
            k \in 1..Len(frames[b]) /\ frames'[b][k] = frames[b][k]
    BY <1>5
  <2>2. CASE b # a \/ (i # Len(frames[a]) /\ j # Len(frames[a]))
    BY <2>1, <2>2, <1>2 DEF HeldOnce
  <2>3. CASE b = a /\ i = Len(frames[a])
    BY <2>1, <2>3, <1>4, <1>5, <1>6
  <2>4. CASE b = a /\ j = Len(frames[a])
    BY <2>1, <2>4, <1>4, <1>5, <1>6
  <2> QED BY <2>2, <2>3, <2>4
<1>12. InAHandler'
  BY <1>4, <1>5 DEF IInv, InAHandler
<1> QED BY <1>7, <1>8, <1>9, <1>10, <1>11, <1>12 DEF IInv

\* A handler's write: no other call runs a chain of the service.
LEMMA WriteKeeps ==
    ASSUME IInv, NEW a \in Actor, Write(a)
    PROVE  IInv'
<1>1. /\ At(a, "run") /\ Depth(a) > 0 /\ Top(a).pc = "run"
      /\ UNCHANGED <<mu, stacks, wraps, calls>>
  BY DEF Write, InBody, At
<1>2. TypeOK /\ RunnersHold /\ HeldOnce /\ InAHandler
  BY DEF IInv
<1>3. /\ Top(a) \in Frame /\ Top(a).svc \in Service /\ Top(a) = frames[a][Len(frames[a])]
      /\ Len(frames[a]) \in 1..Len(frames[a])
  BY <1>1, <1>2, TopFrame
<1>4. PICK f \in Frame, v \in Nat : /\ Replace(a, f) /\ f.svc = Top(a).svc /\ f.pc = "run"
                                    /\ Len(f.acts) > 0 /\ f.own = v
                                    /\ count' = [count EXCEPT ![Top(a).svc] = v]
  BY <1>2, WriteInside DEF SameCall
<1>5. /\ frames' \in [Actor -> Seq(Frame)]
      /\ \A b \in Actor : b # a => frames'[b] = frames[b]
      /\ Len(frames'[a]) = Len(frames[a])
      /\ \A i \in 1..Len(frames[a]) : i # Len(frames[a]) => frames'[a][i] = frames[a][i]
      /\ frames'[a][Len(frames[a])] = f
  BY <1>1, <1>2, <1>4, ReplaceFrame
<1>6. mu[Top(a).svc] = a
  BY <1>1, <1>2, <1>3 DEF RunnersHold
<1>7. ASSUME NEW b \in Actor, NEW i \in 1..Len(frames[b]), frames[b][i].pc = "run",
             ~(b = a /\ i = Len(frames[a]))
      PROVE  frames[b][i].svc # Top(a).svc
  <2>1. mu[frames[b][i].svc] = b
    BY <1>2, <1>7 DEF RunnersHold
  <2> QED BY <2>1, <1>1, <1>2, <1>3, <1>6, <1>7 DEF HeldOnce
<1>8. TypeOK'
  BY <1>1, <1>2, <1>3, <1>4, <1>5 DEF TypeOK
<1>9. NoLostUpdate'
  <2> SUFFICES ASSUME NEW b \in Actor, NEW i \in 1..Len(frames'[b]),
                      frames'[b][i].pc = "run"
               PROVE  count'[frames'[b][i].svc] = frames'[b][i].own
    BY DEF NoLostUpdate
  <2>1. CASE b = a /\ i = Len(frames[a])
    BY <2>1, <1>1, <1>2, <1>3, <1>4, <1>5 DEF TypeOK
  <2>2. CASE ~(b = a /\ i = Len(frames[a]))
    <3>1. i \in 1..Len(frames[b]) /\ frames'[b][i] = frames[b][i]
      BY <2>2, <1>5
    <3>2. frames[b][i].svc # Top(a).svc
      BY <2>2, <3>1, <1>7
    <3>3. count[frames[b][i].svc] = frames[b][i].own
      BY <3>1 DEF IInv, NoLostUpdate
    <3>4. count'[frames[b][i].svc] = count[frames[b][i].svc]
      <4>1. frames[b][i] \in Frame
        BY <3>1, <1>2, ElementOfSeq DEF TypeOK
      <4> QED BY <4>1, <3>2, <1>2, <1>4 DEF TypeOK, Frame
    <3> QED BY <3>1, <3>3, <3>4
  <2> QED BY <2>1, <2>2
<1>10. RunnersHold'
  <2> SUFFICES ASSUME NEW b \in Actor, NEW i \in 1..Len(frames'[b]),
                      frames'[b][i].pc = "run"
               PROVE  mu[frames'[b][i].svc] = b
    BY <1>1 DEF RunnersHold
  <2>1. CASE b = a /\ i = Len(frames[a])
    BY <2>1, <1>4, <1>5, <1>6
  <2>2. CASE ~(b = a /\ i = Len(frames[a]))
    BY <2>2, <1>2, <1>5 DEF RunnersHold
  <2> QED BY <2>1, <2>2
<1>11. OuterFramesWait'
  BY <1>5 DEF IInv, OuterFramesWait
<1>12. HeldOnce'
  <2>1. \A b \in Actor : \A i \in 1..Len(frames'[b]) :
           /\ i \in 1..Len(frames[b])
           /\ frames'[b][i].svc = frames[b][i].svc
           /\ frames'[b][i].pc = "run" => frames[b][i].pc = "run"
    <3> SUFFICES ASSUME NEW b \in Actor, NEW i \in 1..Len(frames'[b])
                 PROVE  /\ i \in 1..Len(frames[b])
                        /\ frames'[b][i].svc = frames[b][i].svc
                        /\ frames'[b][i].pc = "run" => frames[b][i].pc = "run"
      OBVIOUS
    <3>1. CASE b = a /\ i = Len(frames[a])
      BY <3>1, <1>1, <1>3, <1>4, <1>5
    <3>2. CASE ~(b = a /\ i = Len(frames[a]))
      BY <3>2, <1>5
    <3> QED BY <3>1, <3>2
  <2> QED BY <2>1, <1>2 DEF HeldOnce
<1>13. InAHandler'
  BY <1>2, <1>4, <1>5 DEF InAHandler
<1> QED BY <1>8, <1>9, <1>10, <1>11, <1>12, <1>13 DEF IInv

\* A call made in a handler: the new call is the innermost one and holds
\* nothing yet.
LEMMA NestedKeeps ==
    ASSUME IInv, NEW a \in Actor, NEW s \in Service, NEW p \in Pattern, Nested(a, s, p)
    PROVE  IInv'
<1> DEFINE n == Len(frames[a])
           f == frames'[a][n]
<1>1. /\ At(a, "run") /\ Depth(a) > 0 /\ Top(a).pc = "run"
      /\ UNCHANGED <<mu, stacks, wraps, count, calls>>
  BY DEF Nested, At
<1>2. TypeOK /\ InAHandler
  BY DEF IInv
<1>3. Top(a) = frames[a][n] /\ n \in 1..n
  BY <1>1, <1>2, TopFrame
<1>4. /\ f.svc = Top(a).svc /\ f.pc = "run" /\ f.own = Top(a).own /\ Len(f.acts) > 0
      /\ frames'[a][n + 1].pc = "route"
  <2>1. SameCall(a, f) /\ f.own = Top(a).own /\ frames'[a][n + 1] = NewFrame(s, p)
    BY <1>2, NestedFrames
  <2> HIDE DEF f
  <2> QED BY <2>1 DEF SameCall, NewFrame
<1>5. /\ frames' \in [Actor -> Seq(Frame)]
      /\ \A b \in Actor : b # a => frames'[b] = frames[b]
      /\ Len(frames'[a]) = n + 1
      /\ \A i \in 1..n : i # n => frames'[a][i] = frames[a][i]
  BY <1>2, NestedFrames
<1>6. \A b \in Actor : \A i \in 1..Len(frames'[b]) : frames'[b][i].pc = "run" =>
         /\ i \in 1..Len(frames[b]) /\ frames[b][i].pc = "run"
         /\ frames'[b][i].svc = frames[b][i].svc /\ frames'[b][i].own = frames[b][i].own
         /\ frames[b][i].acts # frames'[b][i].acts => Len(frames'[b][i].acts) > 0
  <2> SUFFICES ASSUME NEW b \in Actor, NEW i \in 1..Len(frames'[b]), frames'[b][i].pc = "run"
               PROVE  /\ i \in 1..Len(frames[b]) /\ frames[b][i].pc = "run"
                      /\ frames'[b][i].svc = frames[b][i].svc
                      /\ frames'[b][i].own = frames[b][i].own
                      /\ frames[b][i].acts # frames'[b][i].acts => Len(frames'[b][i].acts) > 0
    OBVIOUS
  <2>1. CASE b = a /\ i = n
    BY <2>1, <1>1, <1>3, <1>4
  <2>2. CASE b = a /\ i # n
    <3>1. i # n + 1
      BY <2>2, <1>4
    <3>2. i \in 1..n
      BY <3>1, <2>2, <1>3, <1>5
    <3> QED BY <3>2, <2>2, <1>5
  <2>3. CASE b # a
    BY <2>3, <1>5
  <2> QED BY <2>1, <2>2, <2>3
<1> HIDE DEF f, n
<1>7. TypeOK'
  BY <1>1, <1>2, <1>5 DEF TypeOK
<1>8. NoLostUpdate'
  BY <1>1, <1>6 DEF IInv, NoLostUpdate
<1>9. RunnersHold'
  BY <1>1, <1>6 DEF IInv, RunnersHold
<1>10. OuterFramesWait'
  BY <1>3, <1>4, <1>5 DEF IInv, OuterFramesWait, n, f
<1>11. HeldOnce'
  BY <1>6 DEF IInv, HeldOnce
<1>12. InAHandler'
  BY <1>6 DEF IInv, InAHandler
<1> QED BY <1>7, <1>8, <1>9, <1>10, <1>11, <1>12 DEF IInv

\* A new service: nobody is in a call.
LEMMA InitHolds == Init => IInv
BY DispatchAssumption DEF Init, IInv, TypeOK, NoLostUpdate, RunnersHold, OuterFramesWait,
                          HeldOnce, InAHandler

\* Every step of a call, of `add` and of `wrap` keeps the invariant.
LEMMA NextKeeps == IInv /\ [Next]_vars => IInv'
<1> SUFFICES ASSUME IInv, [Next]_vars PROVE IInv'
  OBVIOUS
<1>1. TypeOK /\ InAHandler
  BY DEF IInv
<1>2. ASSUME NEW a \in Actor, NEW s \in Service, NEW p \in Pattern, Call(a, s, p)
      PROVE  IInv'
  <2>1. /\ frames[a] = <<>> /\ frames' = [frames EXCEPT ![a] = <<NewFrame(s, p)>>]
        /\ calls' = [calls EXCEPT ![a] = @ + 1]
        /\ UNCHANGED <<mu, stacks, wraps, count>>
    BY <1>2 DEF Call, Idle
  <2>2. NewFrame(s, p) \in Frame /\ NewFrame(s, p).pc = "route"
    BY <1>1, NewFrameType DEF NewFrame
  <2>3. /\ frames' \in [Actor -> Seq(Frame)]
        /\ \A b \in Actor : b # a => frames'[b] = frames[b]
        /\ Len(frames'[a]) = 1 /\ frames'[a][1].pc = "route"
    BY <2>1, <2>2, <1>1 DEF TypeOK
  <2>4. TypeOK'
    BY <2>1, <2>3, <1>1 DEF TypeOK
  <2>5. \A b \in Actor : \A i \in 1..Len(frames'[b]) :
           frames'[b][i].pc = "run" => frames'[b] = frames[b]
    BY <2>3
  <2>6. NoLostUpdate' /\ RunnersHold' /\ InAHandler'
    <3>1. NoLostUpdate'
      BY <2>1, <2>5 DEF IInv, NoLostUpdate
    <3>2. RunnersHold'
      BY <2>1, <2>5 DEF IInv, RunnersHold
    <3>3. InAHandler'
      BY <2>1, <2>5 DEF IInv, InAHandler
    <3> QED BY <3>1, <3>2, <3>3
  <2>7. OuterFramesWait'
    BY <2>1, <2>3 DEF IInv, OuterFramesWait
  <2>8. HeldOnce'
    BY <2>1, <2>3 DEF IInv, HeldOnce
  <2> QED BY <2>4, <2>6, <2>7, <2>8 DEF IInv
<1>3. ASSUME NEW a \in Actor, Route(a) PROVE IInv'
  <2>1. /\ Depth(a) > 0 /\ Top(a).pc = "route"
        /\ UNCHANGED <<mu, stacks, wraps, count, calls>>
    BY <1>3 DEF Route, At
  <2>2. Top(a) \in Frame /\ Top(a).svc \in Service /\ Top(a).pat \in Pattern
    BY <2>1, <1>1, TopFrame
  <2>3. CASE Pop(a)
    BY <2>1, <2>3, PopKeeps
  <2>4. CASE Replace(a, [Top(a) EXCEPT !.pc = "enter",
                                       !.chain = Chain(Top(a).svc, Top(a).pat)])
    <3> DEFINE f == [Top(a) EXCEPT !.pc = "enter", !.chain = Chain(Top(a).svc, Top(a).pat)]
    <3>1. f \in Frame /\ f.svc = Top(a).svc /\ f.pc = "enter"
      BY <2>2, <1>1, ChainType DEF Frame
    <3> HIDE DEF f
    <3> QED BY <3>1, <2>1, <2>4, ReplaceKeeps DEF f
  <2> QED BY <2>3, <2>4, <1>3 DEF Route
<1>4. ASSUME NEW a \in Actor, Read(a) \/ Prior(a) \/ PriorReturns(a) PROVE IInv'
  <2>1. /\ Depth(a) > 0 /\ Top(a).pc = "run"
        /\ UNCHANGED <<mu, stacks, wraps, count, calls>>
    BY <1>1, <1>4, InsideTheCall DEF At
  <2>2. PICK f \in Frame : SameCall(a, f) /\ f.own = Top(a).own /\ Replace(a, f)
    BY <1>1, <1>4, InsideTheCall
  <2> QED BY <2>1, <2>2, ReplaceKeeps DEF SameCall
<1>5. ASSUME NEW a \in Actor, Return(a) PROVE IInv'
  BY <1>5, PopKeeps DEF Return, At
<1>6. ASSUME NEW a \in Actor, NEW s \in Service, NEW p \in Pattern, NEW h \in Handler,
             Add(a, s, p, h)
      PROVE  IInv'
  <2>1. /\ stacks' = [stacks EXCEPT ![s][p] = Append(@, h)]
        /\ UNCHANGED <<mu, wraps, count, frames, calls>>
    BY <1>6 DEF Add
  <2>2. TypeOK'
    BY <2>1, <1>1 DEF TypeOK
  <2>3. NoLostUpdate' /\ RunnersHold' /\ InAHandler'
    BY <2>1 DEF IInv, NoLostUpdate, RunnersHold, InAHandler
  <2>4. OuterFramesWait' /\ HeldOnce'
    BY <2>1 DEF IInv, OuterFramesWait, HeldOnce
  <2> QED BY <2>2, <2>3, <2>4 DEF IInv
<1>7. ASSUME NEW a \in Actor, NEW s \in Service, NEW h \in Handler, Wrap(a, s, h)
      PROVE  IInv'
  <2>1. /\ wraps' = [wraps EXCEPT ![s] = Append(@, h)]
        /\ UNCHANGED <<mu, stacks, count, frames, calls>>
    BY <1>7 DEF Wrap
  <2>2. TypeOK'
    BY <2>1, <1>1 DEF TypeOK
  <2>3. NoLostUpdate' /\ RunnersHold' /\ InAHandler'
    BY <2>1 DEF IInv, NoLostUpdate, RunnersHold, InAHandler
  <2>4. OuterFramesWait' /\ HeldOnce'
    BY <2>1 DEF IInv, OuterFramesWait, HeldOnce
  <2> QED BY <2>2, <2>3, <2>4 DEF IInv
<1>8. CASE UNCHANGED vars
  BY <1>8 DEF vars, IInv, TypeOK, NoLostUpdate, RunnersHold, OuterFramesWait, HeldOnce,
              InAHandler
<1> QED
  BY <1>2, <1>3, <1>4, <1>5, <1>6, <1>7, <1>8, EnterKeeps, WriteKeeps, NestedKeeps
     DEF Next, Body, Locks

\* "One request at a time": while dispatchService runs the handlers of a call
\* nobody else writes the service's state, so no other call's write is lost,
\* whatever the handlers call (prior and other services, at any point) and
\* whichever of them fail.
THEOREM OneRequestAtATime == Spec => [](TypeOK /\ NoLostUpdate)
<1>1. IInv => TypeOK /\ NoLostUpdate
  BY DEF IInv
<1> QED BY <1>1, InitHolds, NextKeeps, PTL DEF Spec

\* Two calls that are both inside a chain of one service are the same call:
\* what the mutex is for, nested calls of one actor included.
Exclusive ==
    \A a, b \in Actor : \A i \in 1..Len(frames[a]), j \in 1..Len(frames[b]) :
        /\ frames[a][i].pc = "run" /\ frames[b][j].pc = "run"
        /\ frames[a][i].svc = frames[b][j].svc
        => a = b /\ i = j

\* At no time do two calls run handlers of the same service.
THEOREM HandlersExclude == Spec => []Exclusive
<1>1. IInv => Exclusive
  BY DEF IInv, Exclusive, RunnersHold, HeldOnce
<1> QED BY <1>1, InitHolds, NextKeeps, PTL DEF Spec
-----------------------------------------------------------------------------
(***************************************************************************)
(* The copied chain.  Wraps and stacks only grow at their ends, so what a  *)
(* call counted when it was made is still a prefix of them, and the chain  *)
(* it copied is made of two prefixes, whatever was added since.            *)
(***************************************************************************)
\* The chain of frame f is the one of some moment, W and S being the wraps of
\* its service and the stack of its pattern.
Dated(f, W, S) ==
    \E w \in f.from.wraps..Len(W), k \in f.from.stack..Len(S) :
        f.chain = Reverse(SubSeq(W, 1, w)) \o Reverse(SubSeq(S, 1, k))

Snapshot(f, W, S) == /\ f.from.wraps <= Len(W)
                     /\ f.from.stack <= Len(S)
                     /\ f.pc = "enter" => Dated(f, W, S)

Snapshots == \A a \in Actor : \A i \in 1..Len(frames[a]) :
                LET f == frames[a][i] IN Snapshot(f, wraps[f.svc], stacks[f.svc][f.pat])

\* A prefix stays what it is when something is appended.
LEMMA PrefixOfAppend ==
    ASSUME NEW s \in Seq(Handler), NEW h \in Handler, NEW k \in Nat, k <= Len(s)
    PROVE  SubSeq(Append(s, h), 1, k) = SubSeq(s, 1, k)
OBVIOUS

\* A later `wrap` takes nothing from a frame's chain.
LEMMA WrapKeepsDate ==
    ASSUME NEW f \in Frame, NEW W \in Seq(Handler), NEW S \in Seq(Handler), NEW h \in Handler,
           Snapshot(f, W, S)
    PROVE  Snapshot(f, Append(W, h), S)
<1>1. f.from.wraps \in Nat /\ f.from.stack \in Nat
  BY DEF Frame
<1>2. Len(W) \in Nat /\ Len(Append(W, h)) = Len(W) + 1
  OBVIOUS
<1>3. ASSUME Dated(f, W, S) PROVE Dated(f, Append(W, h), S)
  <2>1. PICK w \in f.from.wraps..Len(W), k \in f.from.stack..Len(S) :
           f.chain = Reverse(SubSeq(W, 1, w)) \o Reverse(SubSeq(S, 1, k))
    BY <1>3 DEF Dated
  <2>2. w \in Nat /\ w <= Len(W) /\ w \in f.from.wraps..Len(Append(W, h))
    BY <1>1, <1>2, <2>1
  <2>3. SubSeq(Append(W, h), 1, w) = SubSeq(W, 1, w)
    BY <2>2, PrefixOfAppend
  <2> QED
    BY <2>1, <2>2, <2>3 DEF Dated
<1> QED
  BY <1>1, <1>2, <1>3 DEF Snapshot

\* Neither does a later `add`.
LEMMA AddKeepsDate ==
    ASSUME NEW f \in Frame, NEW W \in Seq(Handler), NEW S \in Seq(Handler), NEW h \in Handler,
           Snapshot(f, W, S)
    PROVE  Snapshot(f, W, Append(S, h))
<1>1. f.from.wraps \in Nat /\ f.from.stack \in Nat
  BY DEF Frame
<1>2. Len(S) \in Nat /\ Len(Append(S, h)) = Len(S) + 1
  OBVIOUS
<1>3. ASSUME Dated(f, W, S) PROVE Dated(f, W, Append(S, h))
  <2>1. PICK w \in f.from.wraps..Len(W), k \in f.from.stack..Len(S) :
           f.chain = Reverse(SubSeq(W, 1, w)) \o Reverse(SubSeq(S, 1, k))
    BY <1>3 DEF Dated
  <2>2. k \in Nat /\ k <= Len(S) /\ k \in f.from.stack..Len(Append(S, h))
    BY <1>1, <1>2, <2>1
  <2>3. SubSeq(Append(S, h), 1, k) = SubSeq(S, 1, k)
    BY <2>2, PrefixOfAppend
  <2> QED
    BY <2>1, <2>2, <2>3 DEF Dated
<1> QED
  BY <1>1, <1>2, <1>3 DEF Snapshot

\* A step that leaves wraps and stacks alone, and replaces the innermost
\* frame by one whose chain is dated, keeps the snapshots.
LEMMA ReplaceKeepsSnapshots ==
    ASSUME TypeOK, Snapshots, NEW a \in Actor, Depth(a) > 0, NEW f \in Frame, Replace(a, f),
           f.svc = Top(a).svc, f.pat = Top(a).pat, f.from = Top(a).from,
           f.pc = "enter" => Dated(f, wraps[f.svc], stacks[f.svc][f.pat]),
           UNCHANGED <<stacks, wraps>>
    PROVE  Snapshots'
<1>1. Snapshot(f, wraps[f.svc], stacks[f.svc][f.pat])
  BY TopFrame DEF Snapshots, Snapshot
<1> QED
  BY <1>1, ReplaceFrame, TopFrame DEF Snapshots

\* Leaving the innermost call keeps those of the others.
LEMMA PopKeepsSnapshots ==
    ASSUME TypeOK, Snapshots, NEW a \in Actor, Depth(a) > 0, Pop(a), UNCHANGED <<stacks, wraps>>
    PROVE  Snapshots'
<1>1. Len(frames[a]) \in 1..Len(frames[a])
  BY TopFrame
<1> QED
  BY <1>1, PopFrame DEF Snapshots

\* A new call has counted the wraps and handlers there are.
LEMMA NewFrameDated ==
    ASSUME TypeOK, NEW s \in Service, NEW p \in Pattern
    PROVE  /\ NewFrame(s, p).svc = s /\ NewFrame(s, p).pat = p
           /\ Snapshot(NewFrame(s, p), wraps[s], stacks[s][p])
<1>1. Len(wraps[s]) \in Nat /\ Len(stacks[s][p]) \in Nat
  BY LenProperties DEF TypeOK
<1> QED
  BY <1>1 DEF NewFrame, Snapshot

\* dispatchService copies the chain of that moment.
LEMMA RouteKeepsSnapshots ==
    ASSUME TypeOK, Snapshots, NEW a \in Actor, Route(a)
    PROVE  Snapshots'
<1>1. /\ Depth(a) > 0 /\ Top(a).pc = "route" /\ UNCHANGED <<stacks, wraps>>
  BY DEF Route, At
<1>2. /\ Top(a) \in Frame /\ Top(a).svc \in Service /\ Top(a).pat \in Pattern
      /\ Len(frames[a]) \in 1..Len(frames[a]) /\ Top(a) = frames[a][Len(frames[a])]
  BY <1>1, TopFrame
<1>3. CASE Pop(a)
  BY <1>1, <1>3, PopKeepsSnapshots
<1>4. CASE Replace(a, [Top(a) EXCEPT !.pc = "enter",
                                     !.chain = Chain(Top(a).svc, Top(a).pat)])
  <2> DEFINE f == [Top(a) EXCEPT !.pc = "enter", !.chain = Chain(Top(a).svc, Top(a).pat)]
             W == wraps[Top(a).svc]
             S == stacks[Top(a).svc][Top(a).pat]
  <2>1. /\ f \in Frame /\ f.svc = Top(a).svc /\ f.pat = Top(a).pat /\ f.from = Top(a).from
        /\ f.chain = Chain(Top(a).svc, Top(a).pat)
    BY <1>2, ChainType DEF Frame
  <2>2. W \in Seq(Handler) /\ S \in Seq(Handler)
    BY <1>2 DEF TypeOK
  <2>3. Snapshot(Top(a), W, S)
    BY <1>2 DEF Snapshots
  <2>4. f.from.wraps \in Nat /\ f.from.stack \in Nat
    BY <2>1 DEF Frame
  <2>5. f.chain = Reverse(W) \o Reverse(S)
    BY <2>1 DEF Chain
  <2> HIDE DEF f, W, S
  <2>6. SubSeq(W, 1, Len(W)) = W /\ SubSeq(S, 1, Len(S)) = S
    BY <2>2
  <2>7. Len(W) \in f.from.wraps..Len(W) /\ Len(S) \in f.from.stack..Len(S)
    BY <2>1, <2>2, <2>3, <2>4 DEF Snapshot
  <2>8. Dated(f, W, S)
    BY <2>5, <2>6, <2>7 DEF Dated
  <2>9. Dated(f, wraps[f.svc], stacks[f.svc][f.pat])
    BY <2>1, <2>8 DEF W, S
  <2> QED
    BY <1>1, <1>4, <2>1, <2>9, ReplaceKeepsSnapshots DEF f
<1> QED
  BY <1>3, <1>4 DEF Route

\* No call has been made.
LEMMA InitSnapshots == Init => Snapshots
BY DEF Init, Snapshots

\* Every step keeps the snapshots.
LEMMA NextSnapshots == TypeOK /\ InAHandler /\ Snapshots /\ [Next]_vars => Snapshots'
<1> SUFFICES ASSUME TypeOK, InAHandler, Snapshots, [Next]_vars PROVE Snapshots'
  OBVIOUS
<1>1. ASSUME NEW a \in Actor, NEW s \in Service, NEW p \in Pattern, Call(a, s, p)
      PROVE  Snapshots'
  <2>1. /\ frames' = [frames EXCEPT ![a] = <<NewFrame(s, p)>>] /\ UNCHANGED <<stacks, wraps>>
    BY <1>1 DEF Call
  <2>2. /\ \A b \in Actor : b # a => frames'[b] = frames[b]
        /\ frames'[a] = <<NewFrame(s, p)>>
    BY <2>1 DEF TypeOK
  <2> QED
    BY <2>1, <2>2, NewFrameDated DEF Snapshots
<1>2. ASSUME NEW a \in Actor, NEW s \in Service, NEW p \in Pattern, Nested(a, s, p)
      PROVE  Snapshots'
  <2> DEFINE n == Len(frames[a])
             f == frames'[a][n]
  <2>1. /\ Depth(a) > 0 /\ UNCHANGED <<stacks, wraps>>
    BY <1>2 DEF Nested, At
  <2>2. Top(a) = frames[a][n] /\ n \in 1..n
    BY <2>1, TopFrame
  <2>3. SameCall(a, f)
    BY <1>2, NestedFrames
  <2>4. /\ \A b \in Actor : b # a => frames'[b] = frames[b]
        /\ Len(frames'[a]) = n + 1
        /\ \A i \in 1..n : i # n => frames'[a][i] = frames[a][i]
        /\ frames'[a][n + 1] = NewFrame(s, p)
    BY <1>2, NestedFrames
  <2>5. Snapshot(f, wraps[f.svc], stacks[f.svc][f.pat])
    BY <2>2, <2>3 DEF SameCall, Snapshots, Snapshot
  <2> SUFFICES ASSUME NEW b \in Actor, NEW i \in 1..Len(frames'[b])
               PROVE  Snapshot(frames'[b][i], wraps[frames'[b][i].svc],
                               stacks[frames'[b][i].svc][frames'[b][i].pat])
    BY <2>1 DEF Snapshots
  <2>6. CASE b = a /\ i = n + 1
    BY <2>4, <2>6, NewFrameDated
  <2>7. CASE b = a /\ i = n
    BY <2>4, <2>5, <2>7
  <2>8. CASE b # a \/ (i # n /\ i # n + 1)
    <3>1. i \in 1..Len(frames[b]) /\ frames'[b][i] = frames[b][i]
      BY <2>2, <2>4, <2>8
    <3> QED
      BY <3>1 DEF Snapshots
  <2> QED
    BY <2>6, <2>7, <2>8
<1>3. ASSUME NEW a \in Actor, NEW f \in Frame, Depth(a) > 0, SameCall(a, f), Replace(a, f),
             UNCHANGED <<stacks, wraps>>
      PROVE  Snapshots'
  BY <1>3, ReplaceKeepsSnapshots DEF SameCall
<1>4. ASSUME NEW a \in Actor, Read(a) \/ Prior(a) \/ PriorReturns(a) PROVE Snapshots'
  BY <1>3, <1>4, InsideTheCall DEF At
<1>5. ASSUME NEW a \in Actor, Write(a) PROVE Snapshots'
  BY <1>3, <1>5, WriteInside DEF At
<1>6. ASSUME NEW a \in Actor, Return(a) PROVE Snapshots'
  BY <1>6, PopKeepsSnapshots DEF Return, At
<1>7. ASSUME NEW b \in Actor, NEW i \in 1..Len(frames[b])
      PROVE  /\ frames[b][i] \in Frame /\ frames[b][i].svc \in Service
             /\ frames[b][i].pat \in Pattern
             /\ wraps[frames[b][i].svc] \in Seq(Handler)
             /\ stacks[frames[b][i].svc][frames[b][i].pat] \in Seq(Handler)
             /\ Snapshot(frames[b][i], wraps[frames[b][i].svc],
                         stacks[frames[b][i].svc][frames[b][i].pat])
  <2>1. frames[b][i] \in Frame
    BY ElementOfSeq DEF TypeOK
  <2>2. frames[b][i].svc \in Service /\ frames[b][i].pat \in Pattern
    BY <2>1 DEF Frame
  <2> QED
    BY <2>1, <2>2 DEF TypeOK, Snapshots
<1>8. ASSUME NEW a \in Actor, NEW s \in Service, NEW p \in Pattern, NEW h \in Handler,
             Add(a, s, p, h)
      PROVE  Snapshots'
  <2>1. stacks' = [stacks EXCEPT ![s] = [stacks[s] EXCEPT ![p] = Append(stacks[s][p], h)]]
    BY <1>8 DEF Add
  <2>2. UNCHANGED <<wraps, frames>>
    BY <1>8 DEF Add
  <2> SUFFICES ASSUME NEW b \in Actor, NEW i \in 1..Len(frames[b])
               PROVE  Snapshot(frames[b][i], wraps[frames[b][i].svc],
                               stacks'[frames[b][i].svc][frames[b][i].pat])
    BY <2>2 DEF Snapshots
  <2>3. CASE frames[b][i].svc = s /\ frames[b][i].pat = p
    <3>1. stacks'[s][p] = Append(stacks[s][p], h)
      BY <2>1 DEF TypeOK
    <3> QED
      BY <1>7, <2>3, <3>1, AddKeepsDate
  <2>4. CASE ~(frames[b][i].svc = s /\ frames[b][i].pat = p)
    <3>1. stacks'[frames[b][i].svc][frames[b][i].pat] = stacks[frames[b][i].svc][frames[b][i].pat]
      BY <1>7, <2>1, <2>4 DEF TypeOK
    <3> QED
      BY <1>7, <3>1
  <2> QED
    BY <2>3, <2>4
<1>9. ASSUME NEW a \in Actor, NEW s \in Service, NEW h \in Handler, Wrap(a, s, h)
      PROVE  Snapshots'
  <2>1. wraps' = [wraps EXCEPT ![s] = Append(wraps[s], h)] /\ UNCHANGED <<stacks, frames>>
    BY <1>9 DEF Wrap
  <2> SUFFICES ASSUME NEW b \in Actor, NEW i \in 1..Len(frames[b])
               PROVE  Snapshot(frames[b][i], wraps'[frames[b][i].svc],
                               stacks[frames[b][i].svc][frames[b][i].pat])
    BY <2>1 DEF Snapshots
  <2>2. CASE frames[b][i].svc = s
    <3>1. wraps'[s] = Append(wraps[s], h)
      BY <2>1 DEF TypeOK
    <3> QED
      BY <1>7, <2>2, <3>1, WrapKeepsDate
  <2>3. CASE frames[b][i].svc # s
    <3>1. wraps'[frames[b][i].svc] = wraps[frames[b][i].svc]
      BY <1>7, <2>1, <2>3 DEF TypeOK
    <3> QED
      BY <1>7, <3>1
  <2> QED
    BY <2>2, <2>3
<1>10. CASE UNCHANGED vars
  BY <1>10 DEF vars, Snapshots
<1>11. ASSUME NEW a \in Actor, Enter(a) PROVE Snapshots'
  BY <1>3, <1>11, EnterFrame DEF At
<1> QED
  BY <1>1, <1>2, <1>4, <1>5, <1>6, <1>8, <1>9, <1>10, <1>11, RouteKeepsSnapshots
     DEF Next, Body, Locks

(***************************************************************************)
(* The chain a request is about to run, copied before the mutex was given  *)
(* up and taken again, is the chain of one moment since the call was made, *)
(* however many handlers and wraps were added meanwhile.                   *)
(***************************************************************************)
THEOREM ChainsAreSnapshots == Spec => []ChainIsASnapshot
<1>1. ASSUME TypeOK, Snapshots PROVE ChainIsASnapshot
  <2> SUFFICES ASSUME NEW a \in Actor, At(a, "enter")
               PROVE  Dated(Top(a), wraps[Top(a).svc], stacks[Top(a).svc][Top(a).pat])
    BY DEF ChainIsASnapshot, Dated
  <2>1. Len(frames[a]) \in 1..Len(frames[a]) /\ Top(a) = frames[a][Len(frames[a])]
    BY <1>1, TopFrame DEF At
  <2> QED
    BY <1>1, <2>1 DEF Snapshots, Snapshot, At
<1>2. IInv => TypeOK /\ InAHandler
  BY DEF IInv
<1> QED
  BY <1>1, <1>2, InitHolds, NextKeeps, InitSnapshots, NextSnapshots, PTL DEF Spec
-----------------------------------------------------------------------------
(***************************************************************************)
(* Waiting.  When the services can be ranked so that handlers call only    *)
(* services of lower rank, the innermost call of whoever holds a mutex     *)
(* that is waited for is for a service of lower rank, or is not waiting.   *)
(* Among the calls that wait, one is for a service of least rank; the      *)
(* holder of its mutex cannot be waiting.                                  *)
(***************************************************************************)
\* Handlers call services of lower rank only: no service is reached again
\* from its own handlers.
Descends(rank) ==
    /\ rank \in [Service -> Nat]
    /\ \A t \in Service : \A s \in Calls[t] : rank[s] < rank[t]

\* The calls of an actor go down in rank, from the outermost inwards.
FramesDescend(rank) ==
    \A a \in Actor : \A i, j \in 1..Len(frames[a]) :
        i < j => rank[frames[a][j].svc] < rank[frames[a][i].svc]

\* A mutex that is held is held by a call that is in a handler.
HoldersRun ==
    \A s \in Service : mu[s] # NoActor =>
        \E i \in 1..Len(frames[mu[s]]) : /\ frames[mu[s]][i].svc = s
                                         /\ frames[mu[s]][i].pc = "run"

WaitInv(rank) == FramesDescend(rank) /\ HoldersRun

\* A step that changes neither the service of the innermost call nor whether
\* that is in a handler.
LEMMA ReplaceKeepsWait ==
    ASSUME TypeOK, NEW rank, Descends(rank), WaitInv(rank),
           NEW a \in Actor, Depth(a) > 0, NEW f \in Frame, Replace(a, f),
           f.svc = Top(a).svc, Top(a).pc = "run" => f.pc = "run",
           UNCHANGED mu
    PROVE  WaitInv(rank)'
<1>1. FramesDescend(rank)'
  <2>1. ASSUME NEW b \in Actor
        PROVE  /\ Len(frames'[b]) = Len(frames[b])
               /\ \A i \in 1..Len(frames[b]) : frames'[b][i].svc = frames[b][i].svc
    BY ReplaceFrame, TopFrame
  <2> QED
    BY <2>1 DEF WaitInv, FramesDescend
<1>2. HoldersRun'
  <2> SUFFICES ASSUME NEW s \in Service, mu[s] # NoActor
               PROVE  \E i \in 1..Len(frames'[mu[s]]) : /\ frames'[mu[s]][i].svc = s
                                                        /\ frames'[mu[s]][i].pc = "run"
    BY DEF HoldersRun
  <2>1. PICK i \in 1..Len(frames[mu[s]]) : /\ frames[mu[s]][i].svc = s
                                           /\ frames[mu[s]][i].pc = "run"
    BY DEF WaitInv, HoldersRun
  <2>2. mu[s] \in Actor
    BY DEF TypeOK
  <2>3. /\ i \in 1..Len(frames'[mu[s]]) /\ frames'[mu[s]][i].svc = s
        /\ frames'[mu[s]][i].pc = "run"
    BY <2>1, <2>2, ReplaceFrame, TopFrame
  <2> QED
    BY <2>3
<1> QED
  BY <1>1, <1>2 DEF WaitInv

\* Leaving the innermost call, whose mutex is released if it was held.
LEMMA PopKeepsWait ==
    ASSUME TypeOK, NEW rank, Descends(rank), WaitInv(rank),
           NEW a \in Actor, Depth(a) > 0, Pop(a),
           \/ Top(a).pc # "run" /\ UNCHANGED mu
           \/ mu' = [mu EXCEPT ![Top(a).svc] = NoActor]
    PROVE  WaitInv(rank)'
<1>1. /\ \A b \in Actor : b # a => frames'[b] = frames[b]
      /\ Len(frames'[a]) = Len(frames[a]) - 1 /\ Len(frames[a]) \in Nat
      /\ \A i \in 1..Len(frames'[a]) : frames'[a][i] = frames[a][i]
  BY PopFrame, LenProperties DEF TypeOK
<1>2. FramesDescend(rank)'
  <2>1. ASSUME NEW b \in Actor, NEW i \in 1..Len(frames'[b])
        PROVE  i \in 1..Len(frames[b]) /\ frames'[b][i] = frames[b][i]
    BY <1>1
  <2> QED
    BY <2>1 DEF WaitInv, FramesDescend
<1>3. HoldersRun'
  <2> SUFFICES ASSUME NEW s \in Service, mu'[s] # NoActor
               PROVE  \E i \in 1..Len(frames'[mu'[s]]) : /\ frames'[mu'[s]][i].svc = s
                                                         /\ frames'[mu'[s]][i].pc = "run"
    BY DEF HoldersRun
  <2>1. /\ mu'[s] = mu[s] /\ mu[s] \in Actor
        /\ Top(a).pc # "run" \/ s # Top(a).svc
    <3>1. CASE Top(a).pc # "run" /\ UNCHANGED mu
      BY <3>1 DEF TypeOK
    <3>2. CASE mu' = [mu EXCEPT ![Top(a).svc] = NoActor]
      BY <3>2 DEF TypeOK
    <3> QED
      BY <3>1, <3>2
  <2>2. PICK i \in 1..Len(frames[mu[s]]) : /\ frames[mu[s]][i].svc = s
                                           /\ frames[mu[s]][i].pc = "run"
    BY <2>1 DEF WaitInv, HoldersRun
  <2>3. /\ i \in 1..Len(frames'[mu[s]]) /\ frames'[mu[s]][i] = frames[mu[s]][i]
    <3>1. CASE mu[s] # a
      BY <1>1, <2>1, <2>2, <3>1
    <3>2. CASE mu[s] = a
      <4>1. i # Len(frames[a])
        BY <2>1, <2>2, <3>2 DEF Top
      <4> QED
        BY <1>1, <2>2, <3>2, <4>1
    <3> QED
      BY <3>1, <3>2
  <2> QED
    BY <2>1, <2>2, <2>3
<1> QED
  BY <1>2, <1>3 DEF WaitInv

\* dispatchService takes the mutex for the chain it runs.
LEMMA EnterKeepsWait ==
    ASSUME TypeOK, NEW rank, Descends(rank), WaitInv(rank), NEW a \in Actor, Enter(a)
    PROVE  WaitInv(rank)'
<1>1. /\ Depth(a) > 0 /\ Top(a).pc = "enter" /\ Top(a).svc \in Service
      /\ mu' = [mu EXCEPT ![Top(a).svc] = a]
  BY TopFrame DEF Enter, At
<1>2. PICK f \in Frame : Replace(a, f) /\ f.svc = Top(a).svc /\ f.pc = "run"
  BY EnterFrame DEF SameCall
<1>3. FramesDescend(rank)'
  <2>1. ASSUME NEW b \in Actor
        PROVE  /\ Len(frames'[b]) = Len(frames[b])
               /\ \A i \in 1..Len(frames[b]) : frames'[b][i].svc = frames[b][i].svc
    BY <1>1, <1>2, ReplaceFrame, TopFrame
  <2> QED
    BY <2>1 DEF WaitInv, FramesDescend
<1>4. HoldersRun'
  <2> SUFFICES ASSUME NEW s \in Service, mu'[s] # NoActor
               PROVE  \E i \in 1..Len(frames'[mu'[s]]) : /\ frames'[mu'[s]][i].svc = s
                                                         /\ frames'[mu'[s]][i].pc = "run"
    BY DEF HoldersRun
  <2>1. CASE s = Top(a).svc
    <3>1. mu'[s] = a
      BY <1>1, <1>2, <2>1 DEF TypeOK
    <3>2. /\ Len(frames[a]) \in 1..Len(frames'[a])
          /\ frames'[a][Len(frames[a])] = f
      BY <1>1, <1>2, ReplaceFrame, TopFrame
    <3> QED
      BY <1>2, <2>1, <3>1, <3>2
  <2>2. CASE s # Top(a).svc
    <3>1. mu'[s] = mu[s] /\ mu[s] \in Actor
      BY <1>1, <2>2 DEF TypeOK
    <3>2. PICK i \in 1..Len(frames[mu[s]]) : /\ frames[mu[s]][i].svc = s
                                             /\ frames[mu[s]][i].pc = "run"
      BY <3>1 DEF WaitInv, HoldersRun
    <3>3. i \in 1..Len(frames'[mu[s]]) /\ frames'[mu[s]][i] = frames[mu[s]][i]
      BY <1>1, <1>2, <2>2, <3>1, <3>2, ReplaceFrame, TopFrame
    <3> QED
      BY <3>1, <3>2, <3>3
  <2> QED
    BY <2>1, <2>2
<1> QED
  BY <1>3, <1>4 DEF WaitInv

\* A call made in a handler is of a service of lower rank than all the calls
\* it is nested in.
LEMMA NestedKeepsWait ==
    ASSUME TypeOK, InAHandler, NEW rank, Descends(rank), WaitInv(rank),
           NEW a \in Actor, NEW s \in Service, NEW p \in Pattern, Nested(a, s, p)
    PROVE  WaitInv(rank)'
<1> DEFINE n == Len(frames[a])
           f == frames'[a][n]
           g == frames'[a][n + 1]
<1>1. Depth(a) > 0 /\ Top(a).pc = "run" /\ s \in Calls[Top(a).svc] /\ UNCHANGED mu
  BY DEF Nested, At
<1>2. Top(a).svc \in Service /\ Top(a) = frames[a][n] /\ n \in 1..n
  BY <1>1, TopFrame
<1>3. f.svc = Top(a).svc /\ f.pc = "run" /\ g.svc = s
  <2>1. SameCall(a, f) /\ g = NewFrame(s, p)
    BY NestedFrames
  <2> HIDE DEF f, g
  <2> QED
    BY <2>1 DEF SameCall, NewFrame
<1>4. /\ \A b \in Actor : b # a => frames'[b] = frames[b]
      /\ Len(frames'[a]) = n + 1
      /\ \A i \in 1..n : i # n => frames'[a][i] = frames[a][i]
  BY NestedFrames
<1>5. \A b \in Actor : \A i \in 1..Len(frames[b]) :
         frames[b][i] \in Frame /\ frames[b][i].svc \in Service
  <2> SUFFICES ASSUME NEW b \in Actor, NEW i \in 1..Len(frames[b])
               PROVE  frames[b][i] \in Frame
    BY DEF Frame
  <2> QED
    BY ElementOfSeq DEF TypeOK
<1>6. rank[s] < rank[Top(a).svc]
  BY <1>1, <1>2 DEF Descends
<1>7. \A i \in 1..n : rank[s] < rank[frames[a][i].svc]
  <2> SUFFICES ASSUME NEW i \in 1..n PROVE rank[s] < rank[frames[a][i].svc]
    OBVIOUS
  <2>1. /\ rank[s] \in Nat /\ rank[Top(a).svc] \in Nat /\ rank[frames[a][i].svc] \in Nat
    BY <1>2, <1>5 DEF Descends
  <2>2. i = n \/ rank[Top(a).svc] < rank[frames[a][i].svc]
    BY <1>2 DEF WaitInv, FramesDescend
  <2> QED
    BY <1>2, <1>6, <2>1, <2>2
<1> HIDE DEF n
<1>8. FramesDescend(rank)'
  <2> SUFFICES ASSUME NEW b \in Actor, NEW i \in 1..Len(frames'[b]),
                      NEW j \in 1..Len(frames'[b]), i < j
               PROVE  rank[frames'[b][j].svc] < rank[frames'[b][i].svc]
    BY DEF FramesDescend
  <2>1. CASE b # a
    BY <1>4, <2>1 DEF WaitInv, FramesDescend
  <2>2. CASE b = a
    <3>1. n \in Nat /\ i \in 1..n /\ (j \in 1..n \/ j = n + 1)
      BY <1>2, <1>4, <2>2
    <3>2. \A k \in 1..n : frames'[a][k].svc = frames[a][k].svc
      BY <1>2, <1>3, <1>4
    <3>3. CASE j \in 1..n
      BY <2>2, <3>1, <3>2, <3>3 DEF WaitInv, FramesDescend, n
    <3>4. CASE j = n + 1
      BY <1>3, <1>4, <1>7, <2>2, <3>1, <3>2, <3>4
    <3> QED
      BY <3>1, <3>3, <3>4
  <2> QED
    BY <2>1, <2>2
<1>9. HoldersRun'
  <2> SUFFICES ASSUME NEW t \in Service, mu[t] # NoActor
               PROVE  \E i \in 1..Len(frames'[mu[t]]) : /\ frames'[mu[t]][i].svc = t
                                                        /\ frames'[mu[t]][i].pc = "run"
    BY <1>1 DEF HoldersRun
  <2>1. mu[t] \in Actor
    BY DEF TypeOK
  <2>2. PICK i \in 1..Len(frames[mu[t]]) : /\ frames[mu[t]][i].svc = t
                                           /\ frames[mu[t]][i].pc = "run"
    BY DEF WaitInv, HoldersRun
  <2>3. CASE mu[t] = a
    <3>1. i \in 1..n /\ i \in 1..Len(frames'[a])
      BY <1>2, <1>4, <2>2, <2>3 DEF n
    <3>2. frames'[a][i].svc = t /\ frames'[a][i].pc = "run"
      BY <1>2, <1>3, <1>4, <2>2, <2>3, <3>1
    <3> QED
      BY <2>3, <3>1, <3>2
  <2>4. CASE mu[t] # a
    BY <1>4, <2>1, <2>2, <2>4
  <2> QED
    BY <2>3, <2>4
<1> QED
  BY <1>8, <1>9 DEF WaitInv

\* Nobody is in a call.
LEMMA InitWait == ASSUME NEW rank PROVE Init => WaitInv(rank)
BY DEF Init, WaitInv, FramesDescend, HoldersRun

\* Every step keeps calls going down in rank and mutexes with their handlers.
LEMMA NextWait ==
    ASSUME NEW rank, Descends(rank)
    PROVE  TypeOK /\ InAHandler /\ WaitInv(rank) /\ [Next]_vars => WaitInv(rank)'
<1> SUFFICES ASSUME TypeOK, InAHandler, WaitInv(rank), [Next]_vars PROVE WaitInv(rank)'
  OBVIOUS
<1>1. ASSUME NEW a \in Actor, NEW s \in Service, NEW p \in Pattern, Call(a, s, p)
      PROVE  WaitInv(rank)'
  <2>1. /\ frames[a] = <<>> /\ frames' = [frames EXCEPT ![a] = <<NewFrame(s, p)>>]
        /\ UNCHANGED mu
    BY <1>1 DEF Call, Idle
  <2>2. /\ \A b \in Actor : b # a => frames'[b] = frames[b]
        /\ Len(frames'[a]) = 1 /\ Len(frames[a]) = 0
    BY <2>1 DEF TypeOK
  <2>3. FramesDescend(rank)'
    BY <2>2 DEF WaitInv, FramesDescend
  <2>4. ASSUME NEW t \in Service, mu[t] # NoActor PROVE mu[t] # a /\ mu[t] \in Actor
    BY <2>2, <2>4 DEF WaitInv, HoldersRun, TypeOK
  <2>5. HoldersRun'
    BY <2>1, <2>2, <2>4 DEF WaitInv, HoldersRun
  <2> QED
    BY <2>3, <2>5 DEF WaitInv
<1>2. ASSUME NEW a \in Actor, Route(a) PROVE WaitInv(rank)'
  <2>1. Depth(a) > 0 /\ Top(a).pc = "route" /\ UNCHANGED mu
    BY <1>2 DEF Route, At
  <2>2. CASE Pop(a)
    BY <2>1, <2>2, PopKeepsWait
  <2>3. CASE Replace(a, [Top(a) EXCEPT !.pc = "enter",
                                       !.chain = Chain(Top(a).svc, Top(a).pat)])
    <3> DEFINE f == [Top(a) EXCEPT !.pc = "enter", !.chain = Chain(Top(a).svc, Top(a).pat)]
    <3>1. f \in Frame /\ f.svc = Top(a).svc
      BY <2>1, TopFrame, ChainType DEF Frame
    <3> HIDE DEF f
    <3> QED
      BY <3>1, <2>1, <2>3, ReplaceKeepsWait DEF f
  <2> QED
    BY <2>2, <2>3, <1>2 DEF Route
<1>3. ASSUME NEW a \in Actor, NEW f \in Frame, Depth(a) > 0, SameCall(a, f), Replace(a, f),
             UNCHANGED mu
      PROVE  WaitInv(rank)'
  BY <1>3, ReplaceKeepsWait DEF SameCall
<1>4. ASSUME NEW a \in Actor, Read(a) \/ Prior(a) \/ PriorReturns(a) PROVE WaitInv(rank)'
  BY <1>3, <1>4, InsideTheCall DEF At
<1>5. ASSUME NEW a \in Actor, Write(a) PROVE WaitInv(rank)'
  BY <1>3, <1>5, WriteInside DEF At
<1>6. ASSUME NEW a \in Actor, Return(a) PROVE WaitInv(rank)'
  BY <1>6, PopKeepsWait DEF Return, At
<1>7. CASE UNCHANGED <<mu, frames>>
  BY <1>7 DEF WaitInv, FramesDescend, HoldersRun
<1> QED
  BY <1>1, <1>2, <1>3, <1>4, <1>5, <1>6, <1>7, EnterKeepsWait, NestedKeepsWait
     DEF Next, Body, Locks, Add, Wrap, vars

\* Of some natural numbers, one is the least.
LEMMA LeastRank ==
    ASSUME NEW S \in SUBSET Nat, S # {}
    PROVE  \E n \in S : \A m \in S : n <= m
<1>1. IsWellFoundedOn(OpToRel(<, Nat), Nat)
  BY NatLessThanWellFounded
<1>2. PICK n \in S : \A m \in S : ~(<<m, n>> \in OpToRel(<, Nat))
  BY <1>1, WFMin
<1>3. \A m \in S : ~(m < n)
  BY <1>2 DEF OpToRel
<1> QED
  BY <1>3

\* The holder of the mutex waited for by a call of least rank is not waiting.
LEMMA SomebodyRuns ==
    ASSUME TypeOK, NEW rank, Descends(rank), WaitInv(rank)
    PROVE  NoCircularWait
<1> SUFFICES ASSUME NEW a \in Actor, Waits(a)
             PROVE  \E b \in Actor : ~Idle(b) /\ ~Waits(b)
  BY DEF NoCircularWait
<1> DEFINE W == {b \in Actor : Waits(b)}
           R == {rank[Top(b).svc] : b \in W}
<1>1. \A b \in W : Top(b).svc \in Service /\ Depth(b) > 0
  BY TopFrame DEF Waits
<1>2. R \in SUBSET Nat /\ R # {}
  BY <1>1 DEF Descends
<1> HIDE DEF R
<1>3. PICK n \in R : \A m \in R : n <= m
  BY <1>2, LeastRank
<1>4. PICK b \in W : n = rank[Top(b).svc]
  BY DEF R
<1> DEFINE s == Top(b).svc
           c == mu[s]
<1>5. s \in Service /\ c \in Actor /\ c # NoActor
  BY <1>1, <1>4 DEF Waits, Free, TypeOK
<1>6. PICK i \in 1..Len(frames[c]) : frames[c][i].svc = s /\ frames[c][i].pc = "run"
  BY <1>5 DEF WaitInv, HoldersRun
<1> HIDE DEF s, c
<1>7. Len(frames[c]) \in Nat /\ Len(frames[c]) > 0 /\ Depth(c) > 0
  BY <1>5, <1>6, LenProperties DEF TypeOK, Depth
<1>8. ~Idle(c)
  BY <1>7 DEF Idle
<1>9. ~Waits(c)
  <2> SUFFICES ASSUME Waits(c) PROVE FALSE
    OBVIOUS
  <2>1. /\ Top(c) = frames[c][Len(frames[c])] /\ Len(frames[c]) \in 1..Len(frames[c])
        /\ Top(c).svc \in Service
    BY <1>5, <1>7, TopFrame
  <2>2. i # Len(frames[c])
    BY <1>6, <2>1 DEF Waits
  <2>3. rank[Top(c).svc] < rank[s]
    BY <1>5, <1>6, <1>7, <2>1, <2>2 DEF WaitInv, FramesDescend
  <2>4. rank[Top(c).svc] \in R
    BY <1>5 DEF R
  <2>5. rank[s] <= rank[Top(c).svc]
    BY <1>3, <1>4, <2>4 DEF s
  <2> QED
    BY <1>5, <2>1, <2>3, <2>5 DEF Descends
<1> QED
  BY <1>5, <1>8, <1>9

(***************************************************************************)
(* The mutexes of the services cannot all wait for one another: if no      *)
(* service is reached again from its own handlers (the services can be     *)
(* ranked), whenever a call waits for a mutex of dispatchService some call *)
(* can go on, for any number of services and actors and any nesting.       *)
(***************************************************************************)
THEOREM NobodyWaitsInACircle ==
    ASSUME NEW CONSTANT rank, Descends(rank)
    PROVE  Spec => []NoCircularWait
<1>1. IInv => TypeOK /\ InAHandler
  BY DEF IInv
<1>2. Init => WaitInv(rank)
  BY InitWait
<1>3. TypeOK /\ InAHandler /\ WaitInv(rank) /\ [Next]_vars => WaitInv(rank)'
  BY NextWait
<1>4. TypeOK /\ WaitInv(rank) => NoCircularWait
  BY SomebodyRuns
<1> QED
  BY <1>1, <1>2, <1>3, <1>4, InitHolds, NextKeeps, PTL DEF Spec
=============================================================================

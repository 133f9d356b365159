--------------------------- MODULE Serving_proofs ---------------------------
(***************************************************************************)
(* Proofs about what serves.  run() of `boru serve` (Supervisor.tla), for  *)
(* any number of services and of control clients: it outlasts every Start  *)
(* it has launched, and its exit code tells whether one of them failed.    *)
(* The connection of an endpoint and its session (NetSession.tla), for any *)
(* callers, any timeouts and any way in which reads cut the stream:        *)
(* nothing is lost on it, and replies correlate.                           *)
(***************************************************************************)
EXTENDS Supervisor, NetSession, SequenceTheorems, FiniteSetTheorems, TLAPS

(* run() of `boru serve`.                                                  *)
\* The services whose goroutine has been launched and has not returned.
Going == {s \in Service : startPc[s] \notin {"none", "returned"}}

RunTypes ==
    /\ startPc \in [Service -> {"none", "launched", "listening", "bound", "serving",
                                "served", "failed", "returned"}]
    /\ registered \subseteq Service
    /\ failed \subseteq Service
    /\ hadErr \in BOOLEAN

\* wg counts the goroutines, and a service is registered when it is launched.
Counted == wg = Cardinality(Going)
Launched ==
    /\ \A s \in Service : startPc[s] = "none" <=> s \notin registered
    /\ runPc # "launch" => registered = Service

\* An error is on record as long as its goroutine has not passed it on.
ErrorKept ==
    /\ hadErr => failed # {}
    /\ \A s \in failed : hadErr \/ startPc[s] = "failed"
    /\ \A s \in Service : startPc[s] = "failed" => s \in failed

Exited == runPc = "exited" => Going = {} /\ (exitCode = 1 <=> hadErr)

Inv == RunTypes /\ Counted /\ Launched /\ ErrorKept /\ Exited

\* The variables the invariant speaks of.
view == <<runPc, wg, registered, hadErr, exitCode, startPc, failed>>

\* The goroutines are finitely many, before and after a step.
LEMMA GoingFinite == IsFiniteSet(Going) /\ IsFiniteSet(Going)'
BY SupervisorAssumption, FS_Subset DEF Going

\* The invariants say what the properties say.
LEMMA InvSafe == Inv => NoServiceLeftBehind /\ ExitCodeTellsFailure
<1> SUFFICES ASSUME Inv, runPc = "exited"
             PROVE  /\ \A s \in Service : startPc[s] = "returned"
                    /\ exitCode = 1 <=> failed # {}
  BY DEF NoServiceLeftBehind, ExitCodeTellsFailure
<1>1. \A s \in Service : startPc[s] = "returned"
  BY DEF Inv, Exited, Launched, Going
<1>2. hadErr <=> failed # {}
  BY <1>1 DEF Inv, ErrorKept, RunTypes
<1> QED BY <1>1, <1>2 DEF Inv, Exited

\* Nothing is launched yet.
LEMMA InitInv == Init => Inv
<1> SUFFICES ASSUME Init PROVE Inv
  OBVIOUS
<1>1. Going = {}
  BY DEF Init, Going
<1>2. Counted
  BY <1>1, FS_EmptySet DEF Counted, Init
<1> QED BY <1>2 DEF Init, Inv, RunTypes, Launched, ErrorKept, Exited

\* run() launches a service: it is counted before its goroutine exists.
LEMMA LaunchStep ==
    ASSUME Inv, NEW s \in Service, Launch(s)
    PROVE  Inv'
<1>1. /\ s \notin registered /\ registered' = registered \cup {s}
      /\ wg' = wg + 1 /\ startPc' = [startPc EXCEPT ![s] = "launched"]
      /\ runPc' = IF registered' = Service THEN "select" ELSE "launch"
      /\ UNCHANGED <<hadErr, exitCode, failed>>
  BY DEF Launch
<1>2. s \notin Going
  BY <1>1 DEF Inv, Launched, Going
<1>3. Going' = Going \cup {s}
  BY <1>1 DEF Inv, RunTypes, Going
<1>4. Counted'
  BY <1>1, <1>2, <1>3, GoingFinite, FS_AddElement DEF Inv, Counted
<1>5. RunTypes' /\ Launched' /\ Exited'
  BY <1>1 DEF Inv, RunTypes, Launched, Exited
<1>6. ErrorKept'
  BY <1>1 DEF Inv, RunTypes, Launched, ErrorKept
<1> QED BY <1>4, <1>5, <1>6 DEF Inv

\* A goroutine goes on inside Start, or passes its error on.
LEMMA StartMoves ==
    ASSUME Inv, NEW s \in Service,
           \/ StartBegins(s) \/ Listen(s) \/ Serve(s) \/ ServeReturns(s)
           \/ StartFails(s) \/ RecordError(s)
    PROVE  Inv'
<1>1. /\ UNCHANGED <<runPc, wg, registered, exitCode>>
      /\ runPc # "exited"
  BY DEF StartBegins, Listen, Serve, ServeReturns, StartFails, RecordError, runVars, Alive
<1>2. PICK p \in {"listening", "bound", "serving", "served", "failed"} :
         startPc' = [startPc EXCEPT ![s] = p]
  BY DEF StartBegins, Listen, Serve, ServeReturns, StartFails, RecordError
<1>3. s \in Going
  BY DEF StartBegins, Listen, Serve, ServeReturns, StartFails, RecordError, Going
<1>4. Going' = Going
  BY <1>2, <1>3 DEF Inv, RunTypes, Going
<1>5. Counted' /\ Launched' /\ Exited'
  BY <1>1, <1>2, <1>3, <1>4 DEF Inv, RunTypes, Counted, Launched, Exited, Going
<1>6. RunTypes' /\ ErrorKept'
  <2>1. CASE StartFails(s)
    BY <2>1 DEF StartFails, Inv, RunTypes, ErrorKept, runVars
  <2>2. CASE RecordError(s)
    <3>1. failed # {}
      BY <2>2 DEF RecordError, Inv, ErrorKept
    <3> QED BY <2>2, <3>1 DEF RecordError, Inv, RunTypes, ErrorKept
  <2>3. CASE StartBegins(s) \/ Listen(s) \/ Serve(s) \/ ServeReturns(s)
    <3>1. UNCHANGED <<registered, failed, hadErr>> /\ startPc[s] # "failed"
      BY <2>3 DEF StartBegins, Listen, Serve, ServeReturns, runVars
    <3>2. startPc'[s] # "failed" /\ \A u \in Service : u # s => startPc'[u] = startPc[u]
      BY <2>3 DEF StartBegins, Listen, Serve, ServeReturns, Inv, RunTypes
    <3>3. RunTypes'
      BY <1>2, <3>1 DEF Inv, RunTypes
    <3> QED BY <3>1, <3>2, <3>3 DEF Inv, RunTypes, ErrorKept
  <2> QED BY <2>1, <2>2, <2>3
<1> QED BY <1>5, <1>6 DEF Inv

\* wg.Done: the goroutine has passed its error on and is counted once.
LEMMA StartReturnsStep ==
    ASSUME Inv, NEW s \in Service, StartReturns(s)
    PROVE  Inv'
<1>1. /\ startPc[s] = "served" /\ startPc' = [startPc EXCEPT ![s] = "returned"]
      /\ wg' = wg - 1 /\ runPc # "exited"
      /\ UNCHANGED <<runPc, registered, hadErr, exitCode, failed>>
  BY DEF StartReturns, Alive
<1>2. s \in Going /\ Going' = Going \ {s}
  BY <1>1 DEF Inv, RunTypes, Going
<1>3. Counted'
  BY <1>1, <1>2, GoingFinite, FS_RemoveElement DEF Inv, Counted
<1> QED BY <1>1, <1>3 DEF Inv, RunTypes, Launched, ErrorKept, Exited

\* run() returns when the counter is zero, which says that nobody is going.
LEMMA RunReturnsStep ==
    ASSUME Inv, RunReturns
    PROVE  Inv'
<1>1. /\ wg = 0 /\ runPc \in {"select", "cancelled"} /\ runPc' = "exited"
      /\ exitCode' = IF hadErr THEN 1 ELSE 0
      /\ UNCHANGED <<wg, registered, hadErr, startPc, failed>>
  BY DEF RunReturns, svcVars
<1>2. Going = {} /\ Going' = Going
  BY <1>1, GoingFinite, FS_EmptySet DEF Inv, Counted, Going
<1>3. Exited'
  <2>1. exitCode' = 1 <=> hadErr
    BY <1>1 DEF Inv, RunTypes
  <2> QED BY <1>1, <1>2, <2>1 DEF Exited
<1>4. RunTypes' /\ Counted' /\ Launched' /\ ErrorKept'
  BY <1>1, <1>2 DEF Inv, RunTypes, Counted, Launched, ErrorKept
<1> QED BY <1>3, <1>4 DEF Inv

\* The steps that leave all of this alone: signals, requests, control.
LEMMA ViewStep ==
    ASSUME Inv, UNCHANGED view
    PROVE  Inv'
BY DEF view, Inv, RunTypes, Counted, Launched, ErrorKept, Exited, Going

\* Every step keeps the invariant.
LEMMA NextInv == Inv /\ [Next]_vars => Inv'
<1> SUFFICES ASSUME Inv, [Next]_vars PROVE Inv'
  OBVIOUS
<1>1. ASSUME NEW s \in Service, Launch(s) PROVE Inv'
  BY <1>1, LaunchStep
<1>2. ASSUME NEW s \in Service, StartStep(s) \/ StartFails(s) PROVE Inv'
  BY <1>2, StartMoves, StartReturnsStep DEF StartStep
<1>3. ASSUME NEW s \in Service, WatchStep(s) \/ Request(s) \/ Respond(s) PROVE Inv'
  <2>1. UNCHANGED view
    BY <1>3 DEF WatchStep, WatcherShutsDown, WatcherEnds, Request, Respond, view, runVars,
                svcVars
  <2> QED BY <2>1, ViewStep
<1>4. CASE Signal
  <2>1. UNCHANGED view
    BY <1>4 DEF Signal, view, svcVars
  <2> QED BY <2>1, ViewStep
<1>5. CASE CancelAll
  BY <1>5 DEF CancelAll, svcVars, Inv, RunTypes, Counted, Launched, ErrorKept, Exited, Going
<1>6. CASE RunReturns
  BY <1>6, RunReturnsStep
<1>7. ASSUME NEW c \in Client, ControlStep(c) PROVE Inv'
  <2>1. UNCHANGED view
    BY <1>7 DEF ControlStep, StopMarks, StopShutsDown, StopDrained, StopTimesOut, StopCancels,
                PauseFlag, PauseState, ResumeFlag, ResumeState, view, runVars, svcVars
  <2> QED BY <2>1, ViewStep
<1>8. ASSUME NEW c \in Client, NEW s \in Service, NEW l \in {"stop", "pause", "resume"},
             OpBegin(c, s, l)
      PROVE  Inv'
  <2>1. UNCHANGED view
    BY <1>8 DEF OpBegin, view, runVars, svcVars
  <2> QED BY <2>1, ViewStep
<1>9. CASE UNCHANGED vars
  <2>1. UNCHANGED view
    BY <1>9 DEF vars, view, runVars, svcVars
  <2> QED BY <2>1, ViewStep
<1> QED BY <1>1, <1>2, <1>3, <1>4, <1>5, <1>6, <1>7, <1>8, <1>9 DEF Next

(***************************************************************************)
(* run() returns, and the process ends, only when the Start of every       *)
(* service has returned, whatever signals and control requests come.       *)
(***************************************************************************)
THEOREM RunOutlastsServices == Spec => []NoServiceLeftBehind
BY InitInv, NextInv, InvSafe, PTL DEF Spec

(***************************************************************************)
(* The exit code of run() is 1 exactly when the Start of some service has  *)
(* come to an error, also when it does during the shutdown.                *)
(***************************************************************************)
THEOREM ExitCodeIsTrue == Spec => []ExitCodeTellsFailure
BY InitInv, NextInv, InvSafe, PTL DEF Spec

-----------------------------------------------------------------------------
(* The connection.  Its two properties follow from one picture: requests   *)
(* and replies are one numbered stream, of which every buffer holds a      *)
(* segment.                                                                *)
\* The stream that both directions carry: piece number j of the messages
\* 1, 2, 3, ..., and a sequence that is its pieces a + 1 to b.
PieceAt(j) == [msg |-> (j + 1) \div 2, part |-> IF j % 2 = 1 THEN 1 ELSE 2]
IsSegment(s, a, b) == /\ s \in Seq(Piece)
                      /\ Len(s) = b - a
                      /\ \A i \in 1..Len(s) : s[i] = PieceAt(a + i)

\* A sequence of message numbers that counts from one.
Counts(ms) == \A i \in 1..Len(ms) : ms[i] = i

\* Requests are numbered as they are written, and whatever has been decoded
\* since, in whichever call, was decoded in that order.
Numbered == /\ Len(written) <= MaxWritten
            /\ Counts(written) /\ Counts(taken)

\* What has come, what is still on its way, what the session is answering
\* and what it has not got to yet are consecutive segments of the stream.
\* The half of the client outlives the session.
ClientHalf(a, b) == /\ IsSegment(buf, 2 * Len(taken), a)
                    /\ IsSegment(toClient, a, b)
                    /\ b <= 2 * Len(written)

SessionHalf(b, r, d) ==
    /\ b = 2 * r
    /\ sReply \in {0, r + 1}
    /\ IsSegment(sBuf, 2 * (IF sReply = 0 THEN r ELSE r + 1), d)
    /\ IsSegment(toServer, d, 2 * Len(written))

Stream == \E a, b \in Nat : /\ ClientHalf(a, b)
                            /\ serverOpen => \E r, d \in Nat : SessionHalf(b, r, d)

\* tr.mu: whoever writes or reads holds it, and its request is the last one.
Serialized ==
    /\ \A c \in Caller : pc[c] \in {"write", "read"} => mu = c
    /\ \A c \in Caller : pc[c] = "read" => mine[c] = Len(written) /\ Len(taken) < Len(written)

Reading == \E c \in Caller : pc[c] = "read"

\* No request has been given up.
NoneGivenUp == Len(written) = Len(taken) + (IF Reading THEN 1 ELSE 0)

Correlated ==
    /\ \A x \in results : x[2] <= Len(taken) /\ x[2] <= x[1]
    /\ \A x, y \in results : x[2] = y[2] => x = y
    /\ NoneGivenUp => \A x \in results : x[1] = x[2]

NetInv == NetTypeOK /\ Numbered /\ Stream /\ Serialized /\ Correlated

-----------------------------------------------------------------------------
\* Segments: the pieces of two that follow each other follow each other, ...
LEMMA SegmentJoin ==
    ASSUME NEW s, NEW t, NEW a \in Nat, NEW b \in Nat, NEW d \in Nat,
           IsSegment(s, a, b), IsSegment(t, b, d)
    PROVE  IsSegment(s \o t, a, d)
<1>1. s \in Seq(Piece) /\ t \in Seq(Piece) /\ Len(s) = b - a /\ Len(t) = d - b
  BY DEF IsSegment
<1>2. s \o t \in Seq(Piece) /\ Len(s \o t) = d - a
  BY <1>1
<1>3. ASSUME NEW i \in 1..Len(s \o t) PROVE (s \o t)[i] = PieceAt(a + i)
  <2>1. CASE i <= Len(s)
    BY <1>1, <2>1 DEF IsSegment
  <2>2. CASE i > Len(s)
    <3>1. i - Len(s) \in 1..Len(t) /\ (s \o t)[i] = t[i - Len(s)]
      BY <1>1, <1>2, <2>2
    <3>2. b + (i - Len(s)) = a + i
      BY <1>1
    <3> QED
      BY <3>1, <3>2 DEF IsSegment
  <2> QED
    BY <1>1, <2>1, <2>2
<1> QED
  BY <1>2, <1>3 DEF IsSegment

\* ... a read of n pieces cuts a segment in two, ...
LEMMA SegmentCut ==
    ASSUME NEW s, NEW a \in Nat, NEW b \in Nat, IsSegment(s, a, b), NEW n \in 0..Len(s)
    PROVE  /\ IsSegment(First(s, n), a, a + n)
           /\ IsSegment(Drop(s, n), a + n, b)
           /\ a + n <= b
<1>1. s \in Seq(Piece) /\ Len(s) = b - a /\ Len(s) \in Nat
  BY DEF IsSegment
<1>2. First(s, n) \in Seq(Piece) /\ Len(First(s, n)) = n
      /\ \A i \in 1..n : First(s, n)[i] = s[i]
  BY <1>1 DEF First
<1>3. Drop(s, n) \in Seq(Piece) /\ Len(Drop(s, n)) = Len(s) - n
      /\ \A i \in 1..(Len(s) - n) : Drop(s, n)[i] = s[n + i]
  BY <1>1 DEF Drop
<1>4. \A i \in 1..(Len(s) - n) : n + i \in 1..Len(s) /\ a + (n + i) = (a + n) + i
  BY <1>1
<1> QED
  BY <1>1, <1>2, <1>3, <1>4 DEF IsSegment

\* ... there is one segment between two bounds, ...
LEMMA SegmentUnique ==
    ASSUME NEW s, NEW t, NEW a \in Nat, NEW b \in Nat, IsSegment(s, a, b), IsSegment(t, a, b)
    PROVE  s = t
BY DEF IsSegment

\* ... and a message is two pieces of it.
LEMMA SegmentFrame ==
    ASSUME NEW m \in Requests
    PROVE  IsSegment(Frame(m), 2 * m - 2, 2 * m)
<1>1. m \in Nat /\ m >= 1
  BY SessionAssumption DEF Requests
<1>2. Frame(m) \in Seq(Piece) /\ Len(Frame(m)) = 2
  BY DEF Frame, Piece
<1>3. ((2 * m - 2 + 1) + 1) \div 2 = m /\ ((2 * m - 2 + 2) + 1) \div 2 = m
  BY <1>1
<1>4. (2 * m - 2 + 1) % 2 = 1 /\ (2 * m - 2 + 2) % 2 = 0
  BY <1>1
<1>5. PieceAt(2 * m - 2 + 1) = Frame(m)[1] /\ PieceAt(2 * m - 2 + 2) = Frame(m)[2]
  BY <1>3, <1>4 DEF PieceAt, Frame
<1> QED
  BY <1>1, <1>2, <1>5 DEF IsSegment

\* The first whole message of a buffer is the message the stream is at.
LEMMA SegmentHead ==
    ASSUME NEW s, NEW k \in Nat, NEW b \in Nat, IsSegment(s, 2 * k, b), ~NeedMore(s)
    PROVE  /\ s[1].msg = k + 1
           /\ IsSegment(Rest(s), 2 * (k + 1), b)
           /\ 2 * (k + 1) <= b
<1>1. s \in Seq(Piece) /\ Len(s) = b - 2 * k /\ Len(s) \in Nat /\ Len(s) >= 2
  BY DEF IsSegment, NeedMore
<1>2. s[1] = PieceAt(2 * k + 1)
  BY <1>1 DEF IsSegment
<1>3. (2 * k + 1 + 1) \div 2 = k + 1
  OBVIOUS
<1>4. s[1].msg = k + 1
  BY <1>2, <1>3 DEF PieceAt
<1>5. Rest(s) = Drop(s, 2)
  BY DEF Rest, Drop
<1>6. IsSegment(Drop(s, 2), 2 * k + 2, b) /\ 2 * k + 2 <= b
  BY <1>1, SegmentCut
<1> QED
  BY <1>4, <1>5, <1>6

\* The pieces of messages that count from one.
LEMMA SegmentFlat ==
    ASSUME NEW ms \in Seq(Requests), Counts(ms)
    PROVE  IsSegment(Flat(ms), 0, 2 * Len(ms))
<1>1. Len(ms) \in Nat
  OBVIOUS
<1>2. ASSUME NEW i \in 1..(2 * Len(ms))
      PROVE  /\ (i + 1) \div 2 \in 1..Len(ms)
             /\ ms[(i + 1) \div 2] = (i + 1) \div 2
             /\ ms[(i + 1) \div 2] \in Requests
  <2>1. (i + 1) \div 2 \in 1..Len(ms)
    BY <1>1
  <2> QED
    BY <2>1 DEF Counts
<1>3. \A i \in 1..(2 * Len(ms)) :
         Flat(ms)[i] = PieceAt(i) /\ Flat(ms)[i] \in Piece
  BY <1>2 DEF Flat, PieceAt, Piece
<1>4. Flat(ms) = [i \in 1..(2 * Len(ms)) |-> Flat(ms)[i]]
  BY DEF Flat
<1>5. Flat(ms) \in Seq(Piece) /\ Len(Flat(ms)) = 2 * Len(ms)
  BY <1>1, <1>3, <1>4
<1>6. \A i \in 1..(2 * Len(ms)) : 0 + i = i
  BY <1>1
<1> QED
  BY <1>1, <1>3, <1>5, <1>6 DEF IsSegment

\* Nothing is a segment of no length.
LEMMA SegmentEmpty == \A a \in Nat : IsSegment(<<>>, a, a)
BY DEF IsSegment

-----------------------------------------------------------------------------
\* The segments put together are the requests written.
LEMMA NetInvSafe == NetInv => StreamIntact /\ RepliesInTurn
<1> SUFFICES ASSUME NetInv PROVE StreamIntact /\ RepliesInTurn
  OBVIOUS
<1>1. /\ written \in Seq(Requests) /\ taken \in Seq(Requests)
      /\ Len(written) \in Nat /\ Len(taken) \in Nat
      /\ Counts(written) /\ Counts(taken)
      /\ sReply \in 0..MaxWritten /\ MaxWritten \in Nat
  BY SessionAssumption DEF NetInv, NetTypeOK, Numbered
<1>2. StreamIntact
  <2> SUFFICES ASSUME serverOpen
               PROVE  Flat(taken) \o buf \o toClient \o Pending \o sBuf \o toServer
                        = Flat(written)
    BY DEF StreamIntact
  <2>1. PICK a \in Nat, b \in Nat :
          ClientHalf(a, b) /\ \E r, d \in Nat : SessionHalf(b, r, d)
    BY DEF NetInv, Stream
  <2>2. PICK r \in Nat, d \in Nat : SessionHalf(b, r, d)
    BY <2>1
  <2>3. PICK e \in Nat : /\ IsSegment(Pending, 2 * r, e) /\ IsSegment(sBuf, e, d)
    <3>1. CASE sReply = 0
      BY <2>2, <3>1, SegmentEmpty DEF Pending, SessionHalf
    <3>2. CASE sReply # 0
      <4>1. sReply = r + 1 /\ sReply \in Requests
        BY <1>1, <2>2, <3>2 DEF Requests, SessionHalf
      <4>2. IsSegment(Frame(sReply), 2 * r, 2 * (r + 1))
        BY <4>1, SegmentFrame
      <4> QED
        BY <2>2, <3>2, <4>1, <4>2 DEF Pending, SessionHalf
    <3> QED
      BY <3>1, <3>2
  <2>4. IsSegment(Flat(taken), 0, 2 * Len(taken)) /\ IsSegment(Flat(written), 0, 2 * Len(written))
    BY <1>1, SegmentFlat
  <2>5. IsSegment(Flat(taken) \o buf, 0, a)
    BY <1>1, <2>1, <2>4, SegmentJoin DEF ClientHalf
  <2>6. IsSegment(Flat(taken) \o buf \o toClient, 0, 2 * r)
    BY <2>1, <2>2, <2>5, SegmentJoin DEF ClientHalf, SessionHalf
  <2>7. IsSegment(Flat(taken) \o buf \o toClient \o Pending, 0, e)
    BY <2>3, <2>6, SegmentJoin
  <2>8. IsSegment(Flat(taken) \o buf \o toClient \o Pending \o sBuf, 0, d)
    BY <2>3, <2>7, SegmentJoin
  <2>9. IsSegment(Flat(taken) \o buf \o toClient \o Pending \o sBuf \o toServer,
                  0, 2 * Len(written))
    BY <1>1, <2>2, <2>8, SegmentJoin DEF SessionHalf
  <2>10. 2 * Len(written) \in Nat
    BY <1>1
  <2> QED
    BY <2>4, <2>9, <2>10, SegmentUnique
<1>3. Cardinality({c \in Caller : pc[c] = "read"}) = IF Reading THEN 1 ELSE 0
  <2>1. CASE Reading
    <3>1. PICK c \in Caller : pc[c] = "read"
      BY <2>1 DEF Reading
    <3>2. {h \in Caller : pc[h] = "read"} = {c}
      BY <3>1 DEF NetInv, Serialized
    <3> QED
      BY <2>1, <3>2, FS_Singleton
  <2>2. CASE ~Reading
    <3>1. {h \in Caller : pc[h] = "read"} = {}
      BY <2>2 DEF Reading
    <3> QED
      BY <2>2, <3>1, FS_EmptySet
  <2> QED
    BY <2>1, <2>2
<1>4. RepliesInTurn
  BY <1>3 DEF NetInv, Correlated, NoneGivenUp, RepliesInTurn
<1> QED
  BY <1>2, <1>4

\* Nothing has been written: every buffer is the empty segment.
LEMMA NetInitInv == NetInit => NetInv
<1> SUFFICES ASSUME NetInit PROVE NetInv
  OBVIOUS
<1>1. Len(<<>>) = 0 /\ IsSegment(<<>>, 0, 0)
  BY SegmentEmpty
<1>2. NetTypeOK
  BY SessionAssumption DEF NetInit, NetTypeOK
<1>3. Numbered /\ Serialized /\ Correlated
  BY <1>1, SessionAssumption DEF NetInit, Numbered, Counts, Serialized, Correlated
<1>4. Stream
  BY <1>1 DEF NetInit, Stream, ClientHalf, SessionHalf
<1> QED
  BY <1>2, <1>3, <1>4 DEF NetInv

-----------------------------------------------------------------------------
\* Message numbers that count go on counting when the next is appended.
LEMMA CountOn ==
    ASSUME NEW ms \in Seq(Requests), Counts(ms), NEW m, m = Len(ms) + 1, m \in Requests
    PROVE  /\ Append(ms, m) \in Seq(Requests)
           /\ Len(Append(ms, m)) = Len(ms) + 1
           /\ Counts(Append(ms, m))
BY DEF Counts

\* Who holds the lock, and what the numbers are, in a state of the system.
LEMMA NetFacts ==
    ASSUME NetInv
    PROVE  /\ written \in Seq(Requests) /\ taken \in Seq(Requests)
           /\ Len(written) \in Nat /\ Len(taken) \in Nat /\ MaxWritten \in Nat
           /\ Len(written) <= MaxWritten
           /\ Len(taken) <= Len(written)
           /\ Counts(written) /\ Counts(taken)
<1>1. /\ written \in Seq(Requests) /\ taken \in Seq(Requests)
      /\ Len(written) \in Nat /\ Len(taken) \in Nat /\ MaxWritten \in Nat
      /\ Len(written) <= MaxWritten /\ Counts(written) /\ Counts(taken)
  BY SessionAssumption DEF NetInv, NetTypeOK, Numbered
<1>2. PICK a \in Nat, b \in Nat : ClientHalf(a, b)
  BY DEF NetInv, Stream
<1>3. Len(buf) \in Nat /\ Len(toClient) \in Nat
  BY DEF NetInv, NetTypeOK
<1> QED
  BY <1>1, <1>2, <1>3 DEF IsSegment, ClientHalf

\* A request is written: its two pieces follow all others to the session.
LEMMA WriteStep == ASSUME NetInv, NEW c \in Caller, WriteRequest(c) PROVE NetInv'
<1>1. PICK m : m = Len(written) + 1
  OBVIOUS
<1>2. /\ m \in Requests /\ m \in Nat /\ m - 1 = Len(written) /\ m <= MaxWritten
  BY <1>1, NetFacts DEF WriteRequest, Requests
<1>3. /\ written' = Append(written, m) /\ mine' = [mine EXCEPT ![c] = m]
      /\ toServer' = toServer \o Frame(m) /\ pc' = [pc EXCEPT ![c] = "read"]
      /\ UNCHANGED <<mu, timeout, buf, toClient, server, clientOpen, taken, results>>
  BY <1>1 DEF WriteRequest
<1>4. written' \in Seq(Requests) /\ Len(written') = m /\ Counts(written')
  BY <1>1, <1>2, <1>3, NetFacts, CountOn
<1>5. pc[c] = "write" /\ timeout[c] # "invalid" /\ mu = c
  BY DEF WriteRequest, ValidTimeout, NetInv, Serialized
<1>6. NetTypeOK'
  <2>1. toServer' \in Seq(Piece)
    BY <1>2, <1>3 DEF NetInv, NetTypeOK, Frame, Piece
  <2>2. mine' \in [Caller -> 0..MaxWritten]
    BY <1>2, <1>3, SessionAssumption DEF NetInv, NetTypeOK
  <2> QED
    BY <1>3, <1>4, <1>5, <2>1, <2>2 DEF NetInv, NetTypeOK, server
<1>7. Numbered'
  BY <1>2, <1>3, <1>4 DEF NetInv, Numbered, Counts
<1>8. Stream'
  <2>1. PICK a \in Nat, b \in Nat :
          ClientHalf(a, b) /\ (serverOpen => \E r, d \in Nat : SessionHalf(b, r, d))
    BY DEF NetInv, Stream
  <2>2. ClientHalf(a, b)'
    BY <1>2, <1>3, <1>4, <2>1 DEF ClientHalf
  <2>3. ASSUME NEW r \in Nat, NEW d \in Nat, SessionHalf(b, r, d)
        PROVE  SessionHalf(b, r, d)'
    <3>1. IsSegment(Frame(m), 2 * Len(written), 2 * m)
      <4>1. 2 * m - 2 = 2 * Len(written)
        BY <1>2
      <4> QED
        BY <1>2, <4>1, SegmentFrame
    <3>2. IsSegment(toServer \o Frame(m), d, 2 * m)
      BY <1>2, <2>3, <3>1, SegmentJoin, NetFacts DEF SessionHalf
    <3> QED
      BY <1>3, <1>4, <2>3, <3>2 DEF SessionHalf, server
  <2> QED
    BY <1>3, <2>1, <2>2, <2>3 DEF Stream, server
<1>9. Serialized'
  <2>1. \A h \in Caller : h # c => pc[h] \notin {"write", "read"}
    BY <1>5 DEF NetInv, Serialized
  <2>2. Len(taken) < m
    BY <1>2, NetFacts
  <2> QED
    BY <1>3, <1>4, <1>5, <2>1, <2>2 DEF NetInv, NetTypeOK, Serialized
<1>10. Correlated'
  <2>1. Reading' /\ ~Reading
    <3>1. \A h \in Caller : h # c => pc[h] # "read"
      BY <1>5 DEF NetInv, Serialized
    <3> QED
      BY <1>3, <1>5, <3>1 DEF Reading, NetInv, NetTypeOK
  <2>2. NoneGivenUp' => NoneGivenUp
    BY <1>2, <1>3, <1>4, <2>1, NetFacts DEF NoneGivenUp
  <2> QED
    BY <1>3, <2>2 DEF NetInv, Correlated
<1> QED
  BY <1>6, <1>7, <1>8, <1>9, <1>10 DEF NetInv

\* A reply is decoded: it is the next of the stream, whose request is not
\* later than the caller's own.
LEMMA DecodeStep == ASSUME NetInv, NEW c \in Caller, Decode(c) PROVE NetInv'
<1>1. PICK k : k = Len(taken) + 1
  OBVIOUS
<1>2. PICK a \in Nat, b \in Nat :
          ClientHalf(a, b) /\ (serverOpen => \E r, d \in Nat : SessionHalf(b, r, d))
  BY DEF NetInv, Stream
<1>3. k \in Nat /\ k >= 1 /\ k - 1 = Len(taken)
  BY <1>1, NetFacts
<1>4. buf[1].msg = k /\ IsSegment(Rest(buf), 2 * k, a) /\ 2 * k <= a
  BY <1>1, <1>2, NetFacts, SegmentHead DEF Decode, ClientHalf
<1>5. k <= Len(written) /\ k \in Requests
  <2>1. a <= b /\ b <= 2 * Len(written)
    <3>1. Len(toClient) \in Nat
      BY DEF NetInv, NetTypeOK
    <3> QED
      BY <1>2, <3>1 DEF ClientHalf, IsSegment
  <2> QED
    BY <1>3, <1>4, <2>1, NetFacts DEF Requests
<1>6. /\ buf' = Rest(buf) /\ taken' = Append(taken, k)
      /\ results' = results \cup {<<mine[c], k>>}
      /\ mu' = NoCaller /\ pc' = [pc EXCEPT ![c] = "idle"]
      /\ UNCHANGED <<timeout, mine, wire, server, clientOpen, written>>
  BY <1>4 DEF Decode, Leave
<1>7. taken' \in Seq(Requests) /\ Len(taken') = k /\ Counts(taken')
  BY <1>1, <1>3, <1>5, <1>6, NetFacts, CountOn
<1>8. pc[c] = "read" /\ mu = c /\ mine[c] = Len(written)
      /\ \A h \in Caller : h # c => pc[h] \notin {"write", "read"}
  BY DEF Decode, NetInv, Serialized
<1>9. mine[c] \in Requests
  BY <1>5, <1>8, NetFacts DEF Requests
<1>10. NetTypeOK'
  <2>1. buf' \in Seq(Piece)
    BY <1>4, <1>6 DEF IsSegment
  <2>2. results' \subseteq Requests \X Requests
    BY <1>5, <1>6, <1>9 DEF NetInv, NetTypeOK
  <2> QED
    BY <1>6, <1>7, <2>1, <2>2 DEF NetInv, NetTypeOK, server, wire
<1>11. Numbered'
  BY <1>6, <1>7 DEF NetInv, Numbered
<1>12. Stream'
  <2>1. ClientHalf(a, b)'
    BY <1>2, <1>4, <1>6, <1>7 DEF ClientHalf, wire
  <2>2. \A r, d \in Nat : SessionHalf(b, r, d)' <=> SessionHalf(b, r, d)
    BY <1>6 DEF SessionHalf, server, wire
  <2> QED
    BY <1>2, <1>6, <2>1, <2>2 DEF Stream, server
<1>13. Serialized'
  BY <1>6, <1>8 DEF NetInv, NetTypeOK, Serialized
<1>14. Correlated'
  <2>1. Reading /\ ~Reading'
    BY <1>6, <1>8 DEF Reading, NetInv, NetTypeOK
  <2>2. NoneGivenUp' => NoneGivenUp /\ mine[c] = k
    BY <1>3, <1>6, <1>7, <1>8, <2>1, NetFacts DEF NoneGivenUp
  <2>3. \A x \in results : x[2] <= k - 1 /\ x[2] <= x[1] /\ x[2] \in Nat
    BY <1>3 DEF NetInv, Correlated, NetTypeOK, Requests
  <2>4. \A x \in results' : x \in results \/ (x[1] = mine[c] /\ x[2] = k /\ x = <<mine[c], k>>)
    BY <1>6
  <2>5. \A x \in results' : x[2] <= k /\ x[2] <= x[1]
    BY <1>3, <1>5, <1>8, <2>3, <2>4
  <2>6. \A x, y \in results' : x[2] = y[2] => x = y
    BY <1>3, <2>3, <2>4 DEF NetInv, Correlated
  <2>7. NoneGivenUp' => \A x \in results' : x[1] = x[2]
    BY <2>2, <2>4 DEF NetInv, Correlated
  <2> QED
    BY <1>7, <2>5, <2>6, <2>7 DEF Correlated
<1> QED
  BY <1>10, <1>11, <1>12, <1>13, <1>14 DEF NetInv

\* The steps of a caller that move no piece and no number: it waits, gets
\* the lock, or gives up; giving up a request in the read can only mean
\* that one is given up from then on.
LEMMA CallerStep ==
    ASSUME NetInv, NEW c \in Caller,
           Call(c) \/ Lock(c) \/ WriteFails(c) \/ DecodeFails(c) \/ ReadFails(c)
    PROVE  NetInv'
<1>1. UNCHANGED <<mine, buf, wire, server, clientOpen, written, taken, results>>
  BY DEF Call, Lock, WriteFails, DecodeFails, ReadFails
<1>2. Numbered' /\ Stream'
  <2>1. Numbered'
    BY <1>1 DEF NetInv, Numbered
  <2>2. \A a, b \in Nat : ClientHalf(a, b)' <=> ClientHalf(a, b)
    BY <1>1 DEF ClientHalf, wire
  <2>3. \A b, r, d \in Nat : SessionHalf(b, r, d)' <=> SessionHalf(b, r, d)
    BY <1>1 DEF SessionHalf, wire, server
  <2> QED
    BY <1>1, <2>1, <2>2, <2>3 DEF NetInv, Stream, server
<1>3. /\ pc' \in [Caller -> {"idle", "wait", "write", "read"}]
      /\ \A h \in Caller : h # c => pc'[h] = pc[h]
      /\ pc'[c] # "read"
      /\ mu' \in Caller \cup {NoCaller}
  BY DEF Call, Lock, WriteFails, DecodeFails, ReadFails, Leave, NetInv, NetTypeOK
<1>4. NetTypeOK'
  <2>1. timeout' \in [Caller -> {"none", "ms", "invalid"}]
    BY SessionAssumption DEF Call, Lock, WriteFails, DecodeFails, ReadFails, NetInv, NetTypeOK
  <2>2. \A h \in Caller : h # c => timeout'[h] = timeout[h]
    BY DEF Call, Lock, WriteFails, DecodeFails, ReadFails, NetInv, NetTypeOK
  <2> QED
    BY <1>1, <1>3, <2>1, <2>2 DEF NetInv, NetTypeOK, wire, server
<1>5. Serialized'
  <2>1. CASE Call(c)
    BY <1>1, <1>3, <2>1 DEF Call, NetInv, NetTypeOK, Serialized
  <2>2. CASE Lock(c)
    BY <1>1, <1>3, <2>2, SessionAssumption DEF Lock, NetInv, NetTypeOK, Serialized
  <2>3. CASE WriteFails(c) \/ DecodeFails(c) \/ ReadFails(c)
    <3>1. pc[c] \in {"write", "read"} /\ pc'[c] = "idle"
      BY <2>3 DEF WriteFails, DecodeFails, ReadFails, Leave, NetInv, NetTypeOK
    <3>2. \A h \in Caller : pc'[h] \notin {"write", "read"}
      BY <1>3, <3>1 DEF NetInv, Serialized
    <3> QED
      BY <3>2 DEF Serialized
  <2> QED
    BY <2>1, <2>2, <2>3
<1>6. Correlated'
  <2>1. NoneGivenUp' => NoneGivenUp
    <3>1. CASE pc[c] = "read"
      <4>1. ~Reading' /\ Len(taken) < Len(written)
        BY <1>3, <3>1 DEF Reading, NetInv, Serialized
      <4> QED
        BY <1>1, <4>1, NetFacts DEF NoneGivenUp
    <3>2. CASE pc[c] # "read"
      <4>1. Reading' <=> Reading
        BY <1>3, <3>2 DEF Reading
      <4> QED
        BY <1>1, <4>1 DEF NoneGivenUp
    <3> QED
      BY <3>1, <3>2
  <2> QED
    BY <1>1, <2>1 DEF NetInv, Correlated
<1> QED
  BY <1>2, <1>4, <1>5, <1>6 DEF NetInv

\* The steps that leave the callers and the numbers alone need only keep the
\* types and the segments.
LEMMA WireStep ==
    ASSUME NetInv, NetTypeOK', Stream',
           UNCHANGED <<mu, pc, mine, written, taken, results>>
    PROVE  NetInv'
BY DEF NetInv, Numbered, Serialized, Correlated, NoneGivenUp, Reading

\* A read moves the first pieces of what is on its way to the buffer.
LEMMA ReadStep == ASSUME NetInv, NEW c \in Caller, Read(c) PROVE NetInv'
<1>1. PICK n \in 1..Len(toClient) :
          buf' = buf \o First(toClient, n) /\ toClient' = Drop(toClient, n)
  BY DEF Read, Chunks
<1>2. UNCHANGED <<mu, pc, timeout, mine, toServer, server, clientOpen, written, taken, results>>
  BY DEF Read
<1>3. PICK a \in Nat, b \in Nat :
          ClientHalf(a, b) /\ (serverOpen => \E r, d \in Nat : SessionHalf(b, r, d))
  BY DEF NetInv, Stream
<1>4. /\ IsSegment(First(toClient, n), a, a + n) /\ IsSegment(Drop(toClient, n), a + n, b)
      /\ a + n \in Nat /\ Len(toClient) \in Nat
  <2>1. n \in 0..Len(toClient) /\ n \in Nat /\ Len(toClient) \in Nat
    BY DEF NetInv, NetTypeOK
  <2> QED
    BY <1>3, <2>1, SegmentCut DEF ClientHalf
<1>5. IsSegment(buf \o First(toClient, n), 2 * Len(taken), a + n)
  <2>1. 2 * Len(taken) \in Nat
    BY NetFacts
  <2> QED
    BY <1>3, <1>4, <2>1, SegmentJoin DEF ClientHalf
<1>6. NetTypeOK'
  BY <1>1, <1>2, <1>4, <1>5 DEF NetInv, NetTypeOK, IsSegment, server
<1>7. Stream'
  <2>1. ClientHalf(a + n, b)'
    BY <1>1, <1>2, <1>3, <1>4, <1>5 DEF ClientHalf
  <2>2. \A r, d \in Nat : SessionHalf(b, r, d)' <=> SessionHalf(b, r, d)
    BY <1>2 DEF SessionHalf, server
  <2> QED
    BY <1>2, <1>3, <1>4, <2>1, <2>2 DEF Stream, server
<1> QED
  BY <1>2, <1>6, <1>7, WireStep

\* The session reads, dispatches and replies.
LEMMA SessionReadStep == ASSUME NetInv, SessionRead PROVE NetInv'
<1>1. PICK n \in 1..Len(toServer) :
          sBuf' = sBuf \o First(toServer, n) /\ toServer' = Drop(toServer, n)
  BY DEF SessionRead, Chunks
<1>2. UNCHANGED <<clientVars, toClient, sReply, serverOpen>> /\ serverOpen /\ sReply = 0
  BY DEF SessionRead
<1>3. PICK a \in Nat, b \in Nat : ClientHalf(a, b) /\ \E r, d \in Nat : SessionHalf(b, r, d)
  BY <1>2 DEF NetInv, Stream
<1>4. PICK r \in Nat, d \in Nat : SessionHalf(b, r, d)
  BY <1>3
<1>5. n \in 0..Len(toServer) /\ n \in Nat /\ Len(toServer) \in Nat /\ d + n \in Nat
  BY DEF NetInv, NetTypeOK
<1>6. /\ IsSegment(First(toServer, n), d, d + n)
      /\ IsSegment(Drop(toServer, n), d + n, 2 * Len(written))
  <2>1. 2 * Len(written) \in Nat
    BY NetFacts
  <2> QED
    BY <1>4, <1>5, <2>1, SegmentCut DEF SessionHalf
<1>7. IsSegment(sBuf \o First(toServer, n), 2 * r, d + n)
  <2>1. IsSegment(sBuf, 2 * r, d)
    BY <1>2, <1>4 DEF SessionHalf
  <2> QED
    BY <1>5, <1>6, <2>1, SegmentJoin
<1>8. NetTypeOK'
  BY <1>1, <1>2, <1>6, <1>7 DEF NetInv, NetTypeOK, IsSegment, clientVars
<1>9. Stream'
  <2>1. ClientHalf(a, b)'
    BY <1>2, <1>3 DEF ClientHalf, clientVars
  <2>2. SessionHalf(b, r, d + n)'
    BY <1>1, <1>2, <1>4, <1>6, <1>7 DEF SessionHalf, clientVars
  <2> QED
    BY <1>5, <2>1, <2>2 DEF Stream
<1> QED
  BY <1>2, <1>8, <1>9, WireStep DEF clientVars

\* The session cuts the first message off its buffer and answers it.
LEMMA SessionDispatchStep == ASSUME NetInv, SessionDispatch PROVE NetInv'
<1>1. /\ UNCHANGED <<clientVars, wire, serverOpen>> /\ serverOpen /\ sReply = 0
      /\ sReply' = sBuf[1].msg /\ sBuf' = Rest(sBuf) /\ ~NeedMore(sBuf)
  BY DEF SessionDispatch
<1>2. PICK a \in Nat, b \in Nat : ClientHalf(a, b) /\ \E r, d \in Nat : SessionHalf(b, r, d)
  BY <1>1 DEF NetInv, Stream
<1>3. PICK r \in Nat, d \in Nat : SessionHalf(b, r, d)
  BY <1>2
<1>4. sReply' = r + 1 /\ IsSegment(Rest(sBuf), 2 * (r + 1), d) /\ 2 * (r + 1) <= d
  BY <1>1, <1>3, SegmentHead DEF SessionHalf
<1>5. r + 1 <= Len(written)
  <2>1. Len(toServer) \in Nat
    BY DEF NetInv, NetTypeOK
  <2> QED
    BY <1>3, <1>4, <2>1, NetFacts DEF SessionHalf, IsSegment
<1>6. NetTypeOK'
  <2>1. sReply' \in 0..MaxWritten
    BY <1>4, <1>5, NetFacts
  <2>2. sBuf' \in Seq(Piece)
    BY <1>1, <1>4 DEF IsSegment
  <2> QED
    BY <1>1, <2>1, <2>2 DEF NetInv, NetTypeOK, clientVars, wire
<1>7. Stream'
  <2>1. ClientHalf(a, b)'
    BY <1>1, <1>2 DEF ClientHalf, clientVars, wire
  <2>2. SessionHalf(b, r, d)'
    BY <1>1, <1>3, <1>4 DEF SessionHalf, clientVars, wire
  <2> QED
    BY <2>1, <2>2 DEF Stream
<1> QED
  BY <1>1, <1>6, <1>7, WireStep DEF clientVars

\* The session writes the answer, which joins the stream to the client.
LEMMA SessionReplyStep == ASSUME NetInv, SessionReply PROVE NetInv'
<1>1. /\ UNCHANGED <<clientVars, toServer, sBuf, serverOpen>> /\ serverOpen /\ sReply # 0
      /\ toClient' = toClient \o Frame(sReply) /\ sReply' = 0
  BY DEF SessionReply
<1>2. PICK a \in Nat, b \in Nat : ClientHalf(a, b) /\ \E r, d \in Nat : SessionHalf(b, r, d)
  BY <1>1 DEF NetInv, Stream
<1>3. PICK r \in Nat, d \in Nat : SessionHalf(b, r, d)
  BY <1>2
<1>4. sReply = r + 1 /\ sReply \in Requests /\ b = 2 * r
  BY <1>1, <1>3, SessionAssumption DEF SessionHalf, NetInv, NetTypeOK, Requests
<1>5. IsSegment(Frame(sReply), b, 2 * (r + 1))
  <2>1. 2 * sReply - 2 = b /\ 2 * sReply = 2 * (r + 1)
    BY <1>4
  <2> QED
    BY <1>4, <2>1, SegmentFrame
<1>6. IsSegment(toClient \o Frame(sReply), a, 2 * (r + 1))
  BY <1>2, <1>5, SegmentJoin DEF ClientHalf
<1>7. IsSegment(sBuf, 2 * (r + 1), d) /\ IsSegment(toServer, d, 2 * Len(written))
  BY <1>1, <1>3 DEF SessionHalf
<1>8. 2 * (r + 1) <= 2 * Len(written)
  <2>1. Len(toServer) \in Nat /\ Len(sBuf) \in Nat
    BY DEF NetInv, NetTypeOK
  <2> QED
    BY <1>7, <2>1, NetFacts DEF IsSegment
<1>9. NetTypeOK'
  <2>1. toClient' \in Seq(Piece)
    BY <1>1, <1>6 DEF IsSegment
  <2>2. sReply' \in 0..MaxWritten
    BY <1>1, SessionAssumption
  <2> QED
    BY <1>1, <2>1, <2>2 DEF NetInv, NetTypeOK, clientVars
<1>10. Stream'
  <2>1. ClientHalf(a, 2 * (r + 1))'
    BY <1>1, <1>2, <1>6, <1>8 DEF ClientHalf, clientVars
  <2>2. SessionHalf(2 * (r + 1), r + 1, d)'
    BY <1>1, <1>7 DEF SessionHalf, clientVars
  <2>3. r + 1 \in Nat /\ 2 * (r + 1) \in Nat
    OBVIOUS
  <2> QED
    BY <2>1, <2>2, <2>3 DEF Stream
<1> QED
  BY <1>1, <1>9, <1>10, WireStep DEF clientVars

\* The session ends: of what is on its way to the client a prefix is left.
LEMMA SessionEndsStep == ASSUME NetInv, SessionEnds PROVE NetInv'
<1>1. /\ UNCHANGED <<clientVars, toServer, sBuf, sReply>> /\ serverOpen' = FALSE
      /\ toClient' \in {toClient, <<>>}
  BY DEF SessionEnds
<1>2. PICK a \in Nat, b \in Nat : ClientHalf(a, b)
  BY DEF NetInv, Stream
<1>3. NetTypeOK'
  <2>1. toClient' \in Seq(Piece)
    <3>1. toClient \in Seq(Piece) /\ <<>> \in Seq(Piece)
      BY DEF NetInv, NetTypeOK
    <3> QED
      BY <1>1, <3>1, Zenon
  <2>2. serverOpen' \in BOOLEAN
    BY <1>1
  <2> QED
    BY <1>1, <2>1, <2>2 DEF NetInv, NetTypeOK, clientVars
<1>4. a <= 2 * Len(written)
  <2>1. Len(toClient) \in Nat
    BY DEF NetInv, NetTypeOK
  <2> QED
    BY <1>2, <2>1, NetFacts DEF ClientHalf, IsSegment
<1>5. ClientHalf(a, b)' \/ ClientHalf(a, a)'
  <2>1. CASE toClient' = toClient
    BY <1>1, <1>2, <2>1 DEF ClientHalf, clientVars
  <2>2. CASE toClient' = <<>>
    BY <1>1, <1>2, <1>4, <2>2, SegmentEmpty DEF ClientHalf, clientVars
  <2> QED
    BY <1>1, <2>1, <2>2
<1>6. Stream'
  BY <1>1, <1>5 DEF Stream
<1> QED
  BY <1>1, <1>3, <1>6, WireStep DEF clientVars

\* Every step keeps the invariant.
LEMMA NetNextInv == NetInv /\ [NetNext]_netVars => NetInv'
<1> SUFFICES ASSUME NetInv, [NetNext]_netVars PROVE NetInv'
  OBVIOUS
<1>1. ASSUME NEW c \in Caller, Call(c) \/ Dispatch(c) PROVE NetInv'
  BY <1>1, CallerStep, WriteStep, DecodeStep, ReadStep DEF Dispatch
<1>2. CASE Session
  BY <1>2, SessionReadStep, SessionDispatchStep, SessionReplyStep DEF Session
<1>3. CASE SessionEnds
  BY <1>3, SessionEndsStep
<1>4. CASE CloseEndpoint \/ UNCHANGED netVars
  <2>1. UNCHANGED <<mu, pc, timeout, mine, buf, wire, server, written, taken, results>>
        /\ clientOpen' \in BOOLEAN
    BY <1>4 DEF CloseEndpoint, netVars, NetInv, NetTypeOK
  <2>2. NetTypeOK'
    BY <2>1 DEF NetInv, NetTypeOK, wire, server
  <2>3. \A a, b \in Nat : ClientHalf(a, b)' <=> ClientHalf(a, b)
    BY <2>1 DEF ClientHalf, wire
  <2>4. \A b, r, d \in Nat : SessionHalf(b, r, d)' <=> SessionHalf(b, r, d)
    BY <2>1 DEF SessionHalf, wire, server
  <2>5. Stream'
    BY <2>1, <2>3, <2>4 DEF NetInv, Stream, server
  <2> QED
    BY <2>1, <2>2, <2>5, WireStep
<1> QED
  BY <1>1, <1>2, <1>3, <1>4 DEF NetNext

\* However reads cut the stream and whichever calls give up, nothing is lost,
\* repeated or reordered between the requests dispatch writes and the
\* replies it decodes, as long as the session lives.
THEOREM NothingLostOnTheWire == NetSpec => []StreamIntact
<1>1. NetSpec => []NetInv
  BY NetInitInv, NetNextInv, PTL DEF NetSpec
<1>2. NetInv => StreamIntact
  BY NetInvSafe
<1> QED
  BY <1>1, <1>2, PTL

\* No two calls return one reply, none returns the reply to a later request,
\* and while no request has been given up every call returns its own.
THEOREM RepliesCorrelate == NetSpec => []RepliesInTurn
<1>1. NetSpec => []NetInv
  BY NetInitInv, NetNextInv, PTL DEF NetSpec
<1>2. NetInv => RepliesInTurn
  BY NetInvSafe
<1> QED
  BY <1>1, <1>2, PTL
=============================================================================

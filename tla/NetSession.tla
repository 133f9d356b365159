----------------------------- MODULE NetSession -----------------------------
(***************************************************************************)
(* boru:net over one connection (lang/go/modules/net_codec.go): a          *)
(* connected Endpoint, shared by many callers (endpointTransport), and the *)
(* session that serves it (runConnSession).                                *)
(*                                                                         *)
(* A message is two pieces on the wire, so that a read may end inside one; *)
(* the codec of both sides decodes the first two pieces of a buffer. A     *)
(* reply carries the number of its request. The transport is external:     *)
(* bytes arrive in order, once, in chunks of any size; a closed connection *)
(* fails the other side's reads and writes sooner or later.                *)
(***************************************************************************)
EXTENDS Naturals, Sequences, FiniteSets

CONSTANTS Caller,
          NoCaller,   \* nobody holds tr.mu
          Timeouts,   \* the timeout: options of calls, of "none", "ms", "invalid"
          Malformed,  \* requests whose reply the codec of the client refuses
          MaxWritten  \* bound: requests written

ASSUME SessionAssumption == /\ NoCaller \notin Caller
                            /\ Timeouts \subseteq {"none", "ms", "invalid"}
                            /\ Malformed \subseteq Nat
                            /\ MaxWritten \in Nat

VARIABLES mu,        \* endpointTransport.mu: its holder
          pc,        \* each caller: "idle", "wait" for mu, "write", "read"
          timeout,   \* each caller: the timeout: option of the call
          mine,      \* each caller: the number of its request
          buf,       \* endpointTransport.buf
          toServer, toClient,   \* the two directions of the connection
          sBuf,      \* runConnSession: buf
          sReply,    \* runConnSession: the reply being made, 0 when none
          clientOpen, serverOpen,
          written,   \* history: requests written, in order
          taken,     \* history: replies decoded by calls, in order
          results    \* history: pairs of a request and the reply its call got

wire == <<toServer, toClient>>
server == <<sBuf, sReply, serverOpen>>
netVars == <<mu, pc, timeout, mine, buf, wire, server, clientOpen, written, taken, results>>

Requests == 1..MaxWritten
Piece == [msg : Requests, part : {1, 2}]
Frame(m) == <<[msg |-> m, part |-> 1], [msg |-> m, part |-> 2]>>

NetTypeOK == /\ mu \in Caller \cup {NoCaller}
             /\ pc \in [Caller -> {"idle", "wait", "write", "read"}]
             /\ timeout \in [Caller -> {"none", "ms", "invalid"}]
             /\ \A c \in Caller : pc[c] = "read" => timeout[c] # "invalid"
             /\ mine \in [Caller -> 0..MaxWritten]
             /\ buf \in Seq(Piece) /\ sBuf \in Seq(Piece)
             /\ toServer \in Seq(Piece) /\ toClient \in Seq(Piece)
             /\ sReply \in 0..MaxWritten
             /\ clientOpen \in BOOLEAN /\ serverOpen \in BOOLEAN
             /\ written \in Seq(Requests) /\ taken \in Seq(Requests)
             /\ results \subseteq Requests \X Requests

NetInit == /\ mu = NoCaller
           /\ pc = [c \in Caller |-> "idle"]
           /\ timeout = [c \in Caller |-> "none"]
           /\ mine = [c \in Caller |-> 0]
           /\ buf = <<>> /\ sBuf = <<>> /\ toServer = <<>> /\ toClient = <<>>
           /\ sReply = 0
           /\ clientOpen = TRUE /\ serverOpen = TRUE
           /\ written = <<>> /\ taken = <<>> /\ results = {}

-----------------------------------------------------------------------------
\* readDecodeStep over a framed codec: {need} short of a whole message.
NeedMore(b) == Len(b) < 2
Rest(b) == SubSeq(b, 3, Len(b))

\* A Read returns between one piece and all of what has arrived.
Chunks(w) == 1..Len(w)
First(w, n) == SubSeq(w, 1, n)
Drop(w, n) == SubSeq(w, n + 1, Len(w))

\* dispatch returns, with a reply or an error, and tr.mu is released.
Leave(c) == /\ mu' = NoCaller
            /\ pc' = [pc EXCEPT ![c] = "idle"]

\* call {req} endpoint {opts}: dispatch, about to lock tr.mu.
Call(c) == /\ pc[c] = "idle"
           /\ Len(written) < MaxWritten
           /\ pc' = [pc EXCEPT ![c] = "wait"]
           /\ \E t \in Timeouts : timeout' = [timeout EXCEPT ![c] = t]
           /\ UNCHANGED <<mu, mine, buf, wire, server, clientOpen, written, taken, results>>

\* Mutant: calls are not serialized.
Lock_Shared(c) == /\ pc[c] = "wait"
                  /\ mu' = c
                  /\ pc' = [pc EXCEPT ![c] = "write"]
                  /\ UNCHANGED <<timeout, mine, buf, wire, server, clientOpen, written, taken,
                                 results>>

\* dispatch: the lock; the deadline is set only now.
Lock(c) == /\ pc[c] = "wait"
           /\ mu = NoCaller
           /\ mu' = c
           /\ pc' = [pc EXCEPT ![c] = "write"]
           /\ UNCHANGED <<timeout, mine, buf, wire, server, clientOpen, written, taken, results>>

\* dispatch: timeout:, when there is one, is a non-negative Integer.
ValidTimeout(c) == timeout[c] # "invalid"

\* dispatch: encode-req and Write.
WriteRequest(c) ==
    /\ pc[c] = "write"
    /\ clientOpen /\ ValidTimeout(c)
    /\ Len(written) < MaxWritten
    /\ LET m == Len(written) + 1 IN
       /\ mine' = [mine EXCEPT ![c] = m]
       /\ written' = Append(written, m)
       /\ toServer' = toServer \o Frame(m)
    /\ pc' = [pc EXCEPT ![c] = "read"]
    /\ UNCHANGED <<mu, timeout, buf, toClient, server, clientOpen, taken, results>>

\* dispatch: the option or the codec refuses the request, or Write fails.
WriteFails(c) == /\ pc[c] = "write"
                 /\ Leave(c)
                 /\ UNCHANGED <<timeout, mine, buf, wire, server, clientOpen, written, taken,
                                results>>

\* dispatch: the buffer holds a whole message, which is the reply.
Decode(c) == /\ pc[c] = "read"
             /\ ~NeedMore(buf) /\ buf[1].msg \notin Malformed
             /\ buf' = Rest(buf)
             /\ taken' = Append(taken, buf[1].msg)
             /\ results' = results \cup {<<mine[c], buf[1].msg>>}
             /\ Leave(c)
             /\ UNCHANGED <<timeout, mine, wire, server, clientOpen, written>>

\* dispatch: the codec refuses what the buffer holds, and leaves it there.
DecodeFails(c) == /\ pc[c] = "read"
                  /\ ~NeedMore(buf) /\ buf[1].msg \in Malformed
                  /\ Leave(c)
                  /\ UNCHANGED <<timeout, mine, buf, wire, server, clientOpen, written, taken,
                                 results>>

\* dispatch: Read, which appends what has come to the buffer.
Read(c) == /\ pc[c] = "read"
           /\ NeedMore(buf)
           /\ clientOpen
           /\ \E n \in Chunks(toClient) : /\ buf' = buf \o First(toClient, n)
                                          /\ toClient' = Drop(toClient, n)
           /\ UNCHANGED <<mu, pc, timeout, mine, toServer, server, clientOpen, written, taken,
                          results>>

\* Mutant: the deadline is never set on the connection.
Expires_Never(c) == FALSE

\* SetReadDeadline: the deadline of the call may pass before the reply comes.
Expires(c) == timeout[c] = "ms"

\* dispatch: Read fails, by the deadline or because the connection is gone.
ReadFails(c) == /\ pc[c] = "read"
                /\ NeedMore(buf)
                /\ Expires(c) \/ ~clientOpen \/ (~serverOpen /\ toClient = <<>>)
                /\ Leave(c)
                /\ UNCHANGED <<timeout, mine, buf, wire, server, clientOpen, written, taken,
                               results>>

\* The closer of the Endpoint (socketConn.close), without tr.mu.
CloseEndpoint == /\ clientOpen
                 /\ clientOpen' = FALSE
                 /\ UNCHANGED <<mu, pc, timeout, mine, buf, wire, server, written, taken, results>>

-----------------------------------------------------------------------------
clientVars == <<mu, pc, timeout, mine, buf, clientOpen, written, taken, results>>

\* runConnSession: Read when the buffer holds no whole message.
SessionRead == /\ serverOpen
               /\ sReply = 0
               /\ NeedMore(sBuf)
               /\ \E n \in Chunks(toServer) : /\ sBuf' = sBuf \o First(toServer, n)
                                              /\ toServer' = Drop(toServer, n)
               /\ UNCHANGED <<clientVars, toClient, sReply, serverOpen>>

\* Mutant: what follows the first message of a buffer is forgotten.
SessionDispatch_ForgetsRest == /\ serverOpen
                               /\ sReply = 0
                               /\ ~NeedMore(sBuf)
                               /\ sReply' = sBuf[1].msg
                               /\ sBuf' = <<>>
                               /\ UNCHANGED <<clientVars, wire, serverOpen>>

\* runConnSession: decode one message and dispatch it; an error of the
\* dispatch is a reply too.
SessionDispatch == /\ serverOpen
                   /\ sReply = 0
                   /\ ~NeedMore(sBuf)
                   /\ sReply' = sBuf[1].msg
                   /\ sBuf' = Rest(sBuf)
                   /\ UNCHANGED <<clientVars, wire, serverOpen>>

\* runConnSession: encode and Write.
SessionReply == /\ serverOpen
                /\ sReply # 0
                /\ clientOpen
                /\ toClient' = toClient \o Frame(sReply)
                /\ sReply' = 0
                /\ UNCHANGED <<clientVars, toServer, sBuf, serverOpen>>

\* runConnSession ends: the codec fails, the handler panics, or a read or a
\* write does; the deferred close runs. Replies on their way may be lost.
SessionEnds == /\ serverOpen
               /\ serverOpen' = FALSE
               /\ toClient' \in {toClient, <<>>}
               /\ UNCHANGED <<clientVars, toServer, sBuf, sReply>>

-----------------------------------------------------------------------------
Dispatch(c) == \/ Lock(c) \/ WriteRequest(c) \/ WriteFails(c) \/ Decode(c)
               \/ DecodeFails(c) \/ Read(c) \/ ReadFails(c)
Session == SessionRead \/ SessionDispatch \/ SessionReply

NetNext == \/ \E c \in Caller : Call(c) \/ Dispatch(c)
           \/ CloseEndpoint \/ Session \/ SessionEnds

NetSpec == NetInit /\ [][NetNext]_netVars

\* Callers run and deadlines pass; the service need not answer.
NetLiveSpec == NetSpec /\ \A c \in Caller : WF_netVars(Dispatch(c))

-----------------------------------------------------------------------------
Flat(ms) == [i \in 1..(2 * Len(ms)) |-> [msg |-> ms[(i + 1) \div 2], part |-> IF i % 2 = 1 THEN 1 ELSE 2]]
Pending == IF sReply = 0 THEN <<>> ELSE Frame(sReply)

\* Nothing is lost, repeated or reordered between the requests written and
\* the replies returned, whichever calls have timed out and however reads
\* cut the stream: the replies taken, what is on its way and what waits in
\* the buffers are the requests, in order, as long as the session lives.
StreamIntact ==
    serverOpen =>
        Flat(taken) \o buf \o toClient \o Pending \o sBuf \o toServer = Flat(written)

\* What is left of the correlation of requests and replies when calls give
\* up: no two calls return one reply, none returns the reply to a request
\* later than its own, and while no request has been given up, by a timeout
\* or because its reply was malformed, every call returns its own reply.
RepliesInTurn ==
    /\ \A r, q \in results : r[2] = q[2] => r = q
    /\ \A r \in results : r[2] <= r[1]
    /\ Len(written) = Len(taken) + Cardinality({c \in Caller : pc[c] = "read"})
           => \A r \in results : r[1] = r[2]

\* "synchronous correlation": the reply a call returns is the reply to its
\* own request.  It does not hold of the code once a call has given up
\* (README, Disagreements); RepliesInTurn says what does.
ReplyMatches == \A r \in results : r[1] = r[2]

\* A call with a deadline returns once it has the lock, though the service
\* never answers.
TimedCallReturns == \A c \in Caller : (pc[c] = "read" /\ timeout[c] = "ms") ~> (pc[c] = "idle")
=============================================================================

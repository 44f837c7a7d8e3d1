------------------------ MODULE SocketServer_proofs ------------------------
(***************************************************************************)
(* Proofs about SocketServer for any number of connections and permits.    *)
(*                                                                         *)
(* The argument: a connection joins the served ones only by taking one     *)
(* free permit, and leaves them only by giving one back; a move inside     *)
(* them, and everything else, touches neither.                             *)
(***************************************************************************)
EXTENDS SocketServer, FiniteSetTheorems, SequenceTheorems, TLAPS

Phase == {"none", "backlog", "reading", "sending", "done"}

Served == {c \in Connection : Serving(c)}

PermitInv ==
    /\ handler \in [Connection -> Phase]
    /\ permits \in Nat
    /\ PermitsBalance

\* A connection nobody has opened has no handler.
NewHasNoHandler ==
    /\ client \in [Connection -> {"new", "open", "gone"}]
    /\ \A c \in Connection : client[c] = "new" => handler[c] = "none"

-----------------------------------------------------------------------------
LEMMA ServedIsFinite == IsFiniteSet(Served) /\ Cardinality(Served) \in Nat
<1>1. Served \in SUBSET Connection  BY DEF Served
<1>2. IsFiniteSet(Served)  BY <1>1, FS_Subset, ServerAssumption
<1> QED  BY <1>2, FS_CardinalityType

LEMMA InitEstablishes == Init => PermitInv
<1> SUFFICES ASSUME Init PROVE PermitInv  OBVIOUS
<1>1. Served = {}  BY DEF Served, Serving, Init
<1>2. Cardinality(Served) = 0  BY <1>1, FS_EmptySet
<1>3. permits + Cardinality(Served) = max_connections
  BY <1>2, ServerAssumption DEF Init
<1> QED  BY <1>3, ServerAssumption DEF PermitInv, PermitsBalance, Served, Init, Phase

\* A step that changes neither the permits nor who is served.
LEMMA OthersKeep ==
    ASSUME PermitInv, handler' \in [Connection -> Phase], permits' = permits,
           \A c \in Connection : (handler'[c] \in {"reading", "sending"}) = Serving(c)
    PROVE  PermitInv'
<1>1. Served' = Served  BY DEF Served, Serving
<1>2. permits' + Cardinality(Served') = max_connections
  BY <1>1 DEF PermitInv, PermitsBalance, Served
<1> QED  BY <1>2 DEF PermitInv, PermitsBalance, Served

\* The server never serves more than it has permits for: taking one is the only way in.
LEMMA AcceptKeeps ==
    ASSUME PermitInv, NEW c \in Connection, Accept(c)
    PROVE  PermitInv'
<1>1. CASE permits > 0
  <2>1. /\ handler' = [handler EXCEPT ![c] = "reading"]
        /\ permits' = permits - 1
        /\ ~Serving(c)
    BY <1>1 DEF Accept, Serving
  <2>2. Served' = Served \cup {c}  BY <2>1 DEF Served, Serving, PermitInv
  <2>3. c \notin Served  BY <2>1 DEF Served
  <2>4. Cardinality(Served') = Cardinality(Served) + 1
    BY <2>2, <2>3, ServedIsFinite, FS_AddElement
  <2>5. permits' + Cardinality(Served') = max_connections
    BY <2>1, <2>4, ServedIsFinite DEF PermitInv, PermitsBalance, Served
  <2>6. handler' \in [Connection -> Phase] /\ permits' \in Nat
    BY <1>1, <2>1 DEF PermitInv, Phase
  <2> QED  BY <2>5, <2>6 DEF PermitInv, PermitsBalance, Served
<1>2. CASE ~(permits > 0)
  <2>1. /\ handler' = [handler EXCEPT ![c] = "done"]
        /\ permits' = permits
        /\ ~Serving(c)
    BY <1>2 DEF Accept, Serving
  <2> QED  BY <2>1, OthersKeep DEF PermitInv, Phase, Serving
<1> QED  BY <1>1, <1>2

\* Whatever ends a handler gives its one permit back.
LEMMA FinishKeeps ==
    ASSUME PermitInv, NEW c \in Connection, Serving(c), Finish(c)
    PROVE  PermitInv'
<1>1. handler' = [handler EXCEPT ![c] = "done"] /\ permits' = permits + 1
  BY DEF Finish
<1>2. Served' = Served \ {c}  BY <1>1 DEF Served, Serving, PermitInv
<1>3. c \in Served  BY DEF Served
<1>4. Cardinality(Served') = Cardinality(Served) - 1
  BY <1>2, <1>3, ServedIsFinite, FS_RemoveElement
<1>5. permits' + Cardinality(Served') = max_connections
  BY <1>1, <1>4, ServedIsFinite DEF PermitInv, PermitsBalance, Served
<1>6. handler' \in [Connection -> Phase] /\ permits' \in Nat
  BY <1>1 DEF PermitInv, Phase
<1> QED  BY <1>5, <1>6 DEF PermitInv, PermitsBalance, Served

LEMMA HandlerKeeps ==
    ASSUME PermitInv, NEW c \in Connection,
           ReadFrame(c) \/ ReadEof(c) \/ ReadTimeout(c) \/ SendEvent(c)
    PROVE  PermitInv'
<1>1. Serving(c)  BY DEF ReadFrame, ReadEof, ReadTimeout, SendEvent, Serving
<1>2. CASE Finish(c)  BY <1>1, <1>2, FinishKeeps
<1>3. CASE ~Finish(c)
  <2>1. \/ handler' = [handler EXCEPT ![c] = "sending"]
        \/ handler' = [handler EXCEPT ![c] = "reading"]
    BY <1>3 DEF ReadFrame, ReadEof, ReadTimeout, SendEvent
  <2>2. permits' = permits  BY <1>3 DEF ReadFrame, ReadEof, ReadTimeout, SendEvent
  <2> QED  BY <1>1, <2>1, <2>2, OthersKeep DEF PermitInv, Phase, Serving
<1> QED  BY <1>2, <1>3

\* abort_all ends every handler, and returns as many permits.
LEMMA GraceOverKeeps ==
    ASSUME PermitInv, GraceOver
    PROVE  PermitInv'
<1>1. /\ handler' = [c \in Connection |-> IF Serving(c) THEN "done" ELSE handler[c]]
      /\ permits' = permits + Cardinality(Served)
  BY DEF GraceOver, Served
<1>2. Served' = {}  BY <1>1 DEF Served, Serving
<1>3. Cardinality(Served') = 0  BY <1>2, FS_EmptySet
<1>4. permits' \in Nat  BY <1>1, ServedIsFinite DEF PermitInv
<1>5. permits' + Cardinality(Served') = max_connections
  BY <1>1, <1>3, <1>4 DEF PermitInv, PermitsBalance, Served
<1>6. handler' \in [Connection -> Phase]  BY <1>1 DEF PermitInv, Phase
<1> QED  BY <1>4, <1>5, <1>6 DEF PermitInv, PermitsBalance, Served

\* Connecting, and the end of the listener, move connections nobody serves.
LEMMA UnservedKeep ==
    ASSUME PermitInv, NewHasNoHandler,
           StopAccepting \/ (\E c \in Connection : Connect(c))
    PROVE  PermitInv'
<1>1. CASE StopAccepting
  <2>1. /\ handler' = [c \in Connection |-> IF handler[c] = "backlog" THEN "done" ELSE handler[c]]
        /\ permits' = permits
    BY <1>1 DEF StopAccepting
  <2> QED  BY <2>1, OthersKeep DEF PermitInv, Phase, Serving
<1>2. ASSUME NEW c \in Connection, Connect(c) PROVE PermitInv'
  <2>1. /\ handler' = [handler EXCEPT ![c] = "backlog"]
        /\ permits' = permits
        /\ handler[c] = "none"
    BY <1>2 DEF Connect, NewHasNoHandler
  <2> QED  BY <2>1, OthersKeep DEF PermitInv, Phase, Serving
<1> QED  BY <1>1, <1>2

LEMMA NewStaysUnhandled ==
    ASSUME PermitInv, NewHasNoHandler, [Next]_vars
    PROVE  NewHasNoHandler'
<1> USE DEF NewHasNoHandler, PermitInv
<1>1. ASSUME NEW c \in Connection,
             \/ Connect(c) \/ WriteFrame(c) \/ Hangup(c)
             \/ Accept(c) \/ ReadFrame(c) \/ ReadEof(c) \/ ReadTimeout(c) \/ SendEvent(c)
      PROVE  NewHasNoHandler'
  <2>1. CASE Connect(c) \/ WriteFrame(c) \/ Hangup(c)
    BY <2>1 DEF Connect, WriteFrame, Hangup, tasks
  <2>2. CASE Accept(c) \/ ReadFrame(c) \/ ReadEof(c) \/ ReadTimeout(c) \/ SendEvent(c)
    <3>1. client' = client /\ handler[c] # "none"
      BY <2>2 DEF Accept, ReadFrame, ReadEof, ReadTimeout, SendEvent
    <3>2. \E h \in Phase : handler' = [handler EXCEPT ![c] = h]
      BY <2>2 DEF Accept, ReadFrame, ReadEof, ReadTimeout, SendEvent, Finish, Phase
    <3> QED  BY <3>1, <3>2
  <2> QED  BY <1>1, <2>1, <2>2
<1>2. CASE StopAccepting \/ GraceOver
  BY <1>2 DEF StopAccepting, GraceOver, Serving
<1>3. CASE Recv \/ Signal \/ BrokerStops \/ Drained \/ UNCHANGED vars
  BY <1>3 DEF Recv, Signal, BrokerStops, Drained, vars, network, tasks
<1> QED  BY <1>1, <1>2, <1>3 DEF Next

LEMMA StepKeeps ==
    ASSUME PermitInv, NewHasNoHandler, [Next]_vars
    PROVE  PermitInv'
<1>1. ASSUME NEW c \in Connection, WriteFrame(c) \/ Hangup(c) PROVE PermitInv'
  <2>1. handler' = handler /\ permits' = permits  BY <1>1 DEF WriteFrame, Hangup, tasks
  <2> QED  BY <2>1, OthersKeep DEF PermitInv, Serving
<1>2. CASE Recv \/ Signal \/ BrokerStops \/ Drained \/ UNCHANGED vars
  <2>1. handler' = handler /\ permits' = permits
    BY <1>2 DEF Recv, Signal, BrokerStops, Drained, vars, tasks
  <2> QED  BY <2>1, OthersKeep DEF PermitInv, Serving
<1> QED
  BY <1>1, <1>2, AcceptKeeps, HandlerKeeps, GraceOverKeeps, UnservedKeep DEF Next

LEMMA ServerInvariant == Spec => [](PermitInv /\ NewHasNoHandler)
<1>1. Init => PermitInv /\ NewHasNoHandler
  <2>1. Init => NewHasNoHandler  BY DEF Init, NewHasNoHandler
  <2> QED  BY <2>1, InitEstablishes
<1>2. PermitInv /\ NewHasNoHandler /\ [Next]_vars => (PermitInv /\ NewHasNoHandler)'
  BY StepKeeps, NewStaysUnhandled
<1> QED  BY <1>1, <1>2, PTL DEF Spec

-----------------------------------------------------------------------------
(* The way of a frame.  A client's frames are numbered as it writes them: what    *)
(* its socket holds are the last ones, the one before those is the handler's if   *)
(* it holds one, and everything up to there has been sent.                        *)

Item == Nat \cup {Part, Oversized}
Frames == Connection \X Nat

\* How many frames of a connection its handler has sent to the broker.
Sent(c) == written[c] - Len(stream[c]) - (IF payload[c] = NoPayload THEN 0 ELSE 1)

FrameTypes ==
    /\ client \in [Connection -> {"new", "open", "gone"}]
    /\ handler \in [Connection -> Phase]
    /\ written \in [Connection -> Nat] /\ received \in [Connection -> Nat]
    /\ payload \in [Connection -> Nat]
    /\ stream \in [Connection -> Seq(Item)]
    /\ channel \in Seq(Frames) /\ Len(channel) <= EVENT_CHANNEL_CAPACITY
    /\ shutdown \in BOOLEAN
    /\ server \in {"accepting", "draining", "stopped"} /\ broker \in {"running", "stopped"}

\* The socket holds the last frames written, the newest perhaps not complete.
SocketInv ==
    \A c \in Connection :
        /\ written[c] <= MaxWrites[c] /\ Len(stream[c]) <= written[c]
        /\ \A i \in 1..Len(stream[c]) :
              \/ stream[c][i] = written[c] - Len(stream[c]) + i
              \/ i = Len(stream[c]) /\ stream[c][i] \in {Part, Oversized}

\* The handler holds the frame before those, exactly while it sends.
HeldInv ==
    \A c \in Connection :
        /\ (payload[c] # NoPayload) <=> (handler[c] = "sending")
        /\ payload[c] # NoPayload => payload[c] = written[c] - Len(stream[c])
        /\ handler[c] \in {"none", "backlog"} => written[c] = Len(stream[c])
        /\ handler[c] = "done" => stream[c] = <<>>

\* Each frame in the channel comes right after those received or sent before it.
ChannelInv ==
    /\ \A i \in 1..Len(channel) :
          /\ received[channel[i][1]] < channel[i][2]
          /\ channel[i][2] <= written[channel[i][1]]
          /\ \A j \in 1..(i - 1) : channel[j][1] = channel[i][1] => channel[j][2] < channel[i][2]
          /\ \A n \in Nat : received[channel[i][1]] < n /\ n < channel[i][2] =>
                \E j \in 1..(i - 1) : channel[j] = <<channel[i][1], n>>
    /\ \A c \in Connection : received[c] <= written[c]

\* What a handler that lives has sent is received or in the channel, and nothing else.
SentInv ==
    broker = "running" => \A c \in Connection : handler[c] # "done" =>
        /\ received[c] <= Sent(c)
        /\ \A i \in 1..Len(channel) : channel[i][1] = c => channel[i][2] <= Sent(c)
        /\ \A n \in Nat : received[c] < n /\ n <= Sent(c) =>
              \E j \in 1..Len(channel) : channel[j] = <<c, n>>

FrameInv == FrameTypes /\ SocketInv /\ HeldInv /\ ChannelInv /\ SentInv

LEMMA FrameInit == Init => FrameInv
<1> SUFFICES ASSUME Init PROVE FrameInv  OBVIOUS
<1>1. /\ written = [c \in Connection |-> 0] /\ received = written
      /\ stream = [c \in Connection |-> <<>>] /\ payload = written
      /\ handler = [c \in Connection |-> "none"] /\ channel = <<>>
  BY DEF Init, NoPayload
<1>2. FrameTypes
  <2>1. channel \in Seq(Frames) /\ Len(channel) <= EVENT_CHANNEL_CAPACITY
    BY <1>1, ServerAssumption
  <2>2. stream \in [Connection -> Seq(Item)]  BY <1>1
  <2>3. /\ written \in [Connection -> Nat] /\ received \in [Connection -> Nat]
        /\ payload \in [Connection -> Nat]
    BY <1>1
  <2> QED  BY <2>1, <2>2, <2>3 DEF Init, FrameTypes, Phase
<1>3. SocketInv /\ HeldInv
  BY <1>1, ServerAssumption DEF SocketInv, HeldInv, NoPayload
<1>4. ChannelInv /\ SentInv
  BY <1>1, ServerAssumption DEF ChannelInv, SentInv, Sent, NoPayload
<1> QED  BY <1>2, <1>3, <1>4 DEF FrameInv

LEMMA InChannel ==
    ASSUME FrameTypes, NEW i \in 1..Len(channel)
    PROVE  channel[i] \in Frames /\ channel[i][1] \in Connection /\ channel[i][2] \in Nat
<1>1. channel[i] \in Frames  BY ElementOfSeq DEF FrameTypes
<1> QED  BY <1>1 DEF Frames

\* Sending the rest of a frame puts it where its beginning was.
LEMMA LastReplaced ==
    ASSUME NEW S, NEW s \in Seq(S), s # <<>>, NEW e \in S
    PROVE  /\ Append(Front(s), e) \in Seq(S) /\ Len(Append(Front(s), e)) = Len(s)
           /\ \A i \in 1..(Len(s) - 1) : Append(Front(s), e)[i] = s[i]
           /\ Append(Front(s), e)[Len(s)] = e
<1>1. Len(s) \in Nat \ {0}  BY EmptySeq
<1>2. /\ SubSeq(s, 1, Len(s) - 1) \in Seq(S) /\ Len(SubSeq(s, 1, Len(s) - 1)) = Len(s) - 1
      /\ \A i \in 1..(Len(s) - 1) : SubSeq(s, 1, Len(s) - 1)[i] = s[i]
  <2> DEFINE m == 1
             n == Len(s) - 1
             t == SubSeq(s, m, n)
  <2>1. m \in Int /\ n \in Int /\ \A i \in m..n : s[i] \in S  BY <1>1, ElementOfSeq
  <2> HIDE DEF m, n
  <2>2. /\ t \in Seq(S)
        /\ Len(t) = IF m <= n THEN n - m + 1 ELSE 0
        /\ \A i \in 1..(n - m + 1) : t[i] = s[m + i - 1]
    BY <2>1, SubSeqProperties
  <2> HIDE DEF t
  <2>3. n \in Nat /\ m = 1 /\ n = Len(s) - 1  BY <1>1 DEF m, n
  <2>4. \A i \in 1..n : i \in 1..(n - m + 1) /\ m + i - 1 = i  BY <2>3
  <2>5. (IF m <= n THEN n - m + 1 ELSE 0) = n  BY <2>3
  <2>6. Len(t) = n /\ \A i \in 1..n : t[i] = s[i]  BY <2>2, <2>4, <2>5
  <2> QED  BY <2>2, <2>3, <2>6 DEF t
<1> DEFINE f == Front(s)
<1>3. f \in Seq(S) /\ Len(f) = Len(s) - 1 /\ \A i \in 1..(Len(s) - 1) : f[i] = s[i]
  BY <1>2 DEF Front
<1> HIDE DEF f
<1>4. /\ Append(f, e) \in Seq(S) /\ Len(Append(f, e)) = Len(f) + 1
      /\ \A i \in 1..Len(f) : Append(f, e)[i] = f[i]
      /\ Append(f, e)[Len(f) + 1] = e
  BY <1>3, AppendProperties
<1> QED  BY <1>1, <1>3, <1>4 DEF f

\* Whatever ends handlers: their socket and what they held are gone.
LEMMA EndKeeps ==
    ASSUME FrameInv, FrameTypes', NEW D \in SUBSET Connection,
           handler' = [c \in Connection |-> IF c \in D THEN "done" ELSE handler[c]],
           stream' = [c \in Connection |-> IF c \in D THEN <<>> ELSE stream[c]],
           payload' = [c \in Connection |-> IF c \in D THEN NoPayload ELSE payload[c]],
           written' = written, received' = received, channel' = channel, broker' = broker
    PROVE  FrameInv'
<1> USE DEF FrameInv
<1>1. SocketInv'
  BY DEF SocketInv, FrameTypes
<1>2. HeldInv'
  BY DEF HeldInv, FrameTypes
<1>3. ChannelInv'  BY DEF ChannelInv
<1>4. SentInv'
  <2>1. \A c \in Connection : handler'[c] # "done" => handler[c] # "done" /\ Sent(c)' = Sent(c)
    BY DEF Sent
  <2> QED  BY <2>1 DEF SentInv
<1> QED  BY <1>1, <1>2, <1>3, <1>4

\* Steps that leave the frames where they are.
LEMMA StillKeeps ==
    ASSUME FrameInv, FrameTypes',
           \A c \in Connection :
              \/ handler'[c] = handler[c]
              \/ handler[c] \in {"none", "backlog"} /\ handler'[c] \in {"backlog", "reading"},
           stream' = stream, payload' = payload,
           written' = written, received' = received, channel' = channel, broker' = broker
    PROVE  FrameInv'
<1> USE DEF FrameInv
<1>1. SocketInv' /\ HeldInv' /\ ChannelInv'
  BY DEF SocketInv, HeldInv, ChannelInv
<1>2. SentInv'  BY DEF SentInv, Sent
<1> QED  BY <1>1, <1>2

LEMMA ClientKeepsFrames ==
    ASSUME FrameInv, NewHasNoHandler, NEW c \in Connection, Connect(c) \/ Hangup(c)
    PROVE  FrameInv'
<1>1. /\ stream' = stream /\ payload' = payload /\ written' = written /\ received' = received
      /\ channel' = channel /\ shutdown' = shutdown /\ server' = server /\ broker' = broker
  BY DEF Connect, Hangup, ends, tasks
<1>2. CASE Connect(c)
  <2>1. /\ client' = [client EXCEPT ![c] = "open"]
        /\ handler' = [handler EXCEPT ![c] = "backlog"] /\ handler[c] = "none"
    BY <1>2 DEF Connect, NewHasNoHandler
  <2>2. FrameTypes'  BY <1>1, <2>1 DEF FrameInv, FrameTypes, Phase
  <2>3. \A x \in Connection : \/ handler'[x] = handler[x]
                              \/ handler[x] = "none" /\ handler'[x] = "backlog"
    BY <2>1 DEF FrameInv, FrameTypes
  <2> QED  BY <1>1, <2>2, <2>3, StillKeeps
<1>3. CASE Hangup(c)
  <2>1. client' = [client EXCEPT ![c] = "gone"] /\ handler' = handler
    BY <1>3 DEF Hangup, tasks
  <2>2. FrameTypes'  BY <1>1, <2>1 DEF FrameInv, FrameTypes
  <2> QED  BY <1>1, <2>1, <2>2, StillKeeps
<1> QED  BY <1>2, <1>3

\* A frame begun is the client's next one, and only its last may be incomplete.
LEMMA WriteKeepsFrames ==
    ASSUME FrameInv, NEW c \in Connection, WriteFrame(c)
    PROVE  FrameInv'
<1> DEFINE s == stream[c]
           w == written[c]
<1>1. /\ client' = client /\ handler' = handler /\ payload' = payload /\ received' = received
      /\ channel' = channel /\ shutdown' = shutdown /\ server' = server /\ broker' = broker
  BY DEF WriteFrame, ends, tasks
<1>2. /\ s \in Seq(Item) /\ Len(s) \in Nat /\ w \in Nat /\ w <= MaxWrites[c] /\ Len(s) <= w
      /\ \A i \in 1..Len(s) : \/ s[i] = w - Len(s) + i
                              \/ i = Len(s) /\ s[i] \in {Part, Oversized}
      /\ stream \in [Connection -> Seq(Item)] /\ written \in [Connection -> Nat]
      /\ MaxWrites[c] \in Nat
  BY ServerAssumption DEF FrameInv, FrameTypes, SocketInv
<1>3. \E t \in Seq(Item), v \in Nat :
          /\ stream' = [stream EXCEPT ![c] = t] /\ written' = [written EXCEPT ![c] = v]
          /\ v <= MaxWrites[c] /\ Len(t) <= v /\ v - Len(t) = w - Len(s) /\ w <= v
          /\ \A i \in 1..Len(t) : \/ t[i] = v - Len(t) + i
                                  \/ i = Len(t) /\ t[i] \in {Part, Oversized}
  <2>1. CASE ~EndsIn(c, {Part, Oversized}) /\ w < MaxWrites[c]
             /\ written' = [written EXCEPT ![c] = @ + 1]
             /\ \E item \in {written'[c], Part, Oversized} :
                   stream' = [stream EXCEPT ![c] = Append(@, item)]
    <3>1. written' = [written EXCEPT ![c] = w + 1] /\ written'[c] = w + 1
      BY <1>2, <2>1
    <3>2. PICK item \in {w + 1, Part, Oversized} : stream' = [stream EXCEPT ![c] = Append(s, item)]
      BY <2>1, <3>1
    <3>3. item \in Item  BY <1>2, <3>2 DEF Item
    <3>4. \A i \in 1..Len(s) : s[i] = w - Len(s) + i
      <4>1. s # <<>> => s[Len(s)] \notin {Part, Oversized}  BY <2>1 DEF EndsIn, Last
      <4>2. \A i \in 1..Len(s) : s # <<>>  BY <1>2
      <4> QED  BY <1>2, <4>1, <4>2
    <3> DEFINE t == Append(s, item)
    <3>5. /\ t \in Seq(Item) /\ Len(t) = Len(s) + 1 /\ \A i \in 1..Len(s) : t[i] = s[i]
          /\ t[Len(s) + 1] = item
      BY <1>2, <3>3, AppendProperties
    <3> HIDE DEF t, s, w
    <3>6. \A i \in 1..Len(t) : \/ t[i] = (w + 1) - Len(t) + i
                               \/ i = Len(t) /\ t[i] \in {Part, Oversized}
      <4> TAKE i \in 1..Len(t)
      <4>1. CASE i \in 1..Len(s)
        BY <1>2, <3>4, <3>5, <4>1
      <4>2. CASE i = Len(s) + 1
        BY <1>2, <3>2, <3>5, <4>2
      <4> QED  BY <1>2, <3>5, <4>1, <4>2
    <3>7. /\ w + 1 \in Nat /\ w + 1 <= MaxWrites[c] /\ Len(t) <= w + 1
          /\ (w + 1) - Len(t) = w - Len(s) /\ w <= w + 1
      BY <1>2, <2>1, <3>5 DEF w
    <3>8. stream' = [stream EXCEPT ![c] = t]  BY <3>2 DEF t
    <3> QED  BY <3>1, <3>5, <3>6, <3>7, <3>8
  <2>2. CASE EndsIn(c, {Part}) /\ written' = written
             /\ stream' = [stream EXCEPT ![c] = Append(Front(@), written[c])]
    <3> DEFINE t == Append(Front(s), w)
    <3>1. s # <<>> /\ w \in Item  BY <1>2, <2>2 DEF EndsIn, Item
    <3>2. /\ t \in Seq(Item) /\ Len(t) = Len(s)
          /\ \A i \in 1..(Len(s) - 1) : t[i] = s[i]
          /\ t[Len(s)] = w
      BY <1>2, <3>1, LastReplaced
    <3>3. stream' = [stream EXCEPT ![c] = t]  BY <2>2
    <3>4. written' = [written EXCEPT ![c] = w]  BY <1>2, <2>2
    <3> HIDE DEF t, s, w
    <3>5. \A i \in 1..Len(t) : \/ t[i] = w - Len(t) + i
                               \/ i = Len(t) /\ t[i] \in {Part, Oversized}
      <4> TAKE i \in 1..Len(t)
      <4>1. CASE i \in 1..(Len(s) - 1)
        BY <1>2, <3>2, <4>1
      <4>2. CASE i = Len(s)
        BY <1>2, <3>2, <4>2
      <4> QED  BY <1>2, <3>2, <4>1, <4>2
    <3>6. Len(t) <= w /\ w - Len(t) = w - Len(s) /\ w <= w  BY <1>2, <3>2
    <3> QED  BY <1>2, <3>2, <3>3, <3>4, <3>5, <3>6
  <2> QED  BY <2>1, <2>2 DEF WriteFrame
<1>4. PICK t \in Seq(Item), v \in Nat :
          /\ stream' = [stream EXCEPT ![c] = t] /\ written' = [written EXCEPT ![c] = v]
          /\ v <= MaxWrites[c] /\ Len(t) <= v /\ v - Len(t) = w - Len(s) /\ w <= v
          /\ \A i \in 1..Len(t) : \/ t[i] = v - Len(t) + i
                                  \/ i = Len(t) /\ t[i] \in {Part, Oversized}
  BY <1>3
<1>5. FrameTypes'  BY <1>1, <1>4 DEF FrameInv, FrameTypes
<1>6. /\ \A x \in Connection : x # c => stream'[x] = stream[x] /\ written'[x] = written[x]
      /\ stream'[c] = t /\ written'[c] = v
  BY <1>2, <1>4
<1>7. \A x \in Connection : /\ written'[x] - Len(stream'[x]) = written[x] - Len(stream[x])
                            /\ written[x] <= written'[x]
  BY <1>2, <1>4, <1>6 DEF FrameInv, FrameTypes
<1>8. SocketInv'
  BY <1>4, <1>6 DEF FrameInv, SocketInv
<1>9. HeldInv'
  <2>1. handler[c] # "done"  BY DEF WriteFrame
  <2> QED  BY <1>1, <1>7, <1>6, <1>4, <1>2, <2>1 DEF FrameInv, HeldInv, FrameTypes
<1>10. ChannelInv'
  <2>1. \A i \in 1..Len(channel) : channel[i][1] \in Connection /\ channel[i][2] \in Nat
    BY InChannel DEF FrameInv
  <2> DEFINE new == written'
  <2>2. \A x \in Connection : written[x] \in Nat /\ new[x] \in Nat /\ written[x] <= new[x]
    BY <1>7, <1>5 DEF FrameInv, FrameTypes
  <2> HIDE DEF new
  <2>4. \A x \in Connection : \A n \in Nat : n <= written[x] => n <= new[x]
    BY <2>2
  <2>3. \A x \in Connection : received[x] <= written'[x]
    BY <2>4 DEF FrameInv, FrameTypes, ChannelInv, new
  <2> QED  BY <1>1, <2>1, <2>4, <2>3 DEF FrameInv, ChannelInv, new
<1>11. SentInv'
  <2>1. \A x \in Connection : Sent(x)' = Sent(x)  BY <1>1, <1>7 DEF Sent
  <2> QED  BY <1>1, <2>1 DEF FrameInv, SentInv
<1> QED  BY <1>5, <1>8, <1>9, <1>10, <1>11 DEF FrameInv

LEMMA FinishKeepsFrames ==
    ASSUME FrameInv, NEW c \in Connection, Finish(c),
           client' = client, written' = written, received' = received, channel' = channel,
           UNCHANGED ends
    PROVE  FrameInv'
<1>1. /\ handler' = [x \in Connection |-> IF x \in {c} THEN "done" ELSE handler[x]]
      /\ stream' = [x \in Connection |-> IF x \in {c} THEN <<>> ELSE stream[x]]
      /\ payload' = [x \in Connection |-> IF x \in {c} THEN NoPayload ELSE payload[x]]
  BY DEF Finish, FrameInv, FrameTypes
<1>2. FrameTypes'
  <2>1. \A x \in Connection : stream[x] \in Seq(Item)  BY DEF FrameInv, FrameTypes
  <2>2. stream' \in [Connection -> Seq(Item)]  BY <1>1, <2>1
  <2> QED  BY <1>1, <2>2 DEF FrameInv, FrameTypes, Phase, NoPayload, ends
<1> QED  BY <1>1, <1>2, EndKeeps DEF ends

LEMMA AcceptKeepsFrames ==
    ASSUME FrameInv, NEW c \in Connection, Accept(c)
    PROVE  FrameInv'
<1>1. /\ client' = client /\ written' = written /\ payload' = payload /\ channel' = channel
      /\ received' = received /\ UNCHANGED ends /\ handler[c] = "backlog"
  BY DEF Accept
<1>2. CASE permits > 0
  <2>1. handler' = [handler EXCEPT ![c] = "reading"] /\ stream' = stream
    BY <1>2 DEF Accept
  <2>2. FrameTypes'  BY <1>1, <2>1 DEF FrameInv, FrameTypes, Phase, ends
  <2>3. \A x \in Connection : \/ handler'[x] = handler[x]
                              \/ handler[x] = "backlog" /\ handler'[x] = "reading"
    BY <1>1, <2>1 DEF FrameInv, FrameTypes
  <2> QED  BY <1>1, <2>1, <2>2, <2>3, StillKeeps DEF ends
<1>3. CASE ~(permits > 0)
  <2>1. /\ handler' = [handler EXCEPT ![c] = "done"]
        /\ stream' = [stream EXCEPT ![c] = <<>>]
    BY <1>3 DEF Accept
  <2>2. payload[c] = NoPayload  BY <1>1 DEF FrameInv, HeldInv
  <2>3. /\ handler' = [x \in Connection |-> IF x \in {c} THEN "done" ELSE handler[x]]
        /\ stream' = [x \in Connection |-> IF x \in {c} THEN <<>> ELSE stream[x]]
    BY <2>1 DEF FrameInv, FrameTypes
  <2>4. payload' = [x \in Connection |-> IF x \in {c} THEN NoPayload ELSE payload[x]]
    BY <1>1, <2>2 DEF FrameInv, FrameTypes
  <2>5. FrameTypes'
    <3>1. stream' \in [Connection -> Seq(Item)]  BY <2>3 DEF FrameInv, FrameTypes
    <3> QED  BY <1>1, <2>3, <3>1 DEF FrameInv, FrameTypes, Phase, ends
  <2> QED  BY <1>1, <2>3, <2>4, <2>5, EndKeeps DEF ends
<1> QED  BY <1>2, <1>3

\* The frame read is the one before what stays in the socket.
LEMMA ReadKeepsFrames ==
    ASSUME FrameInv, NEW c \in Connection, ReadFrame(c) \/ ReadEof(c) \/ ReadTimeout(c)
    PROVE  FrameInv'
<1>1. /\ client' = client /\ written' = written /\ channel' = channel
      /\ received' = received /\ UNCHANGED ends /\ handler[c] = "reading"
  BY DEF ReadFrame, ReadEof, ReadTimeout
<1>2. CASE Finish(c)  BY <1>1, <1>2, FinishKeepsFrames
<1>3. CASE ~Finish(c)
  <2> DEFINE s == stream[c]
             w == written[c]
  <2>1. /\ s # <<>> /\ Head(s) \notin {Part, Oversized}
        /\ payload' = [payload EXCEPT ![c] = Head(s)]
        /\ stream' = [stream EXCEPT ![c] = Tail(s)]
        /\ handler' = [handler EXCEPT ![c] = "sending"]
    BY <1>3 DEF ReadFrame, ReadEof, ReadTimeout, IsFrame
  <2>2. /\ s \in Seq(Item) /\ w \in Nat /\ Len(s) <= w
        /\ \A i \in 1..Len(s) : \/ s[i] = w - Len(s) + i
                                \/ i = Len(s) /\ s[i] \in {Part, Oversized}
        /\ payload[c] = NoPayload
    BY <1>1 DEF FrameInv, FrameTypes, SocketInv, HeldInv
  <2>3. Len(s) \in Nat \ {0} /\ Head(s) = s[1]  BY <2>1, <2>2, EmptySeq
  <2> DEFINE t == Tail(s)
             v == Head(s)
  <2>4. t \in Seq(Item) /\ Len(t) = Len(s) - 1 /\ \A i \in 1..Len(t) : t[i] = s[i + 1]
    BY <2>1, <2>2, HeadTailProperties
  <2> HIDE DEF t
  <2>5. v = w - Len(s) + 1
    BY <2>1, <2>2, <2>3
  <2> HIDE DEF s, v
  <2>6. /\ Len(t) \in Nat /\ v = w - Len(t) /\ v \in Nat \ {0} /\ Len(t) <= w
        /\ \A i \in 1..Len(t) : \/ t[i] = w - Len(t) + i
                                \/ i = Len(t) /\ t[i] \in {Part, Oversized}
    <3> HIDE DEF w
    <3>1. \A i \in 1..Len(t) : i + 1 \in 1..Len(s) /\ t[i] = s[i + 1]
      BY <2>3, <2>4
    <3>2. \A i \in 1..Len(t) : \/ s[i + 1] = w - Len(s) + (i + 1)
                               \/ i + 1 = Len(s) /\ s[i + 1] \in {Part, Oversized}
      BY <2>2, <3>1
    <3>3. \A i \in 1..Len(t) : /\ w - Len(s) + (i + 1) = w - Len(t) + i
                               /\ i + 1 = Len(s) => i = Len(t)
      BY <2>2, <2>3, <2>4
    <3>4. /\ Len(t) \in Nat /\ v = w - Len(t) /\ v \in Nat \ {0} /\ Len(t) <= w
      BY <2>2, <2>3, <2>4, <2>5
    <3> QED  BY <3>1, <3>2, <3>3, <3>4
  <2>7. /\ \A x \in Connection \ {c} : /\ payload'[x] = payload[x] /\ stream'[x] = stream[x]
                                      /\ handler'[x] = handler[x]
        /\ payload'[c] = v /\ stream'[c] = t /\ handler'[c] = "sending"
    BY <2>1 DEF FrameInv, FrameTypes, t, v, s
  <2>8. FrameTypes'
    <3>1. payload' \in [Connection -> Nat] /\ stream' \in [Connection -> Seq(Item)]
      BY <2>1, <2>4, <2>6 DEF FrameInv, FrameTypes, t, v
    <3> QED  BY <1>1, <2>1, <3>1 DEF FrameInv, FrameTypes, Phase, ends
  <2>9. SocketInv'  BY <1>1, <2>6, <2>7 DEF FrameInv, SocketInv
  <2>10. HeldInv'  BY <1>1, <2>6, <2>7 DEF FrameInv, HeldInv, NoPayload
  <2>11. ChannelInv'  BY <1>1 DEF FrameInv, ChannelInv
  <2>12. SentInv'
    <3>1. Sent(c)' = Sent(c)
      BY <1>1, <2>2, <2>3, <2>4, <2>6, <2>7 DEF Sent, NoPayload, s
    <3>2. \A x \in Connection \ {c} : Sent(x)' = Sent(x)  BY <1>1, <2>7 DEF Sent
    <3>3. \A x \in Connection : handler'[x] # "done" => handler[x] # "done"
      BY <1>1, <2>7
    <3>4. broker' = broker  BY <1>1 DEF ends
    <3>5. SentInv  BY DEF FrameInv
    <3>6. \A x \in Connection : Sent(x)' = Sent(x)  BY <3>1, <3>2
    <3> QED  BY <1>1, <3>3, <3>4, <3>5, <3>6 DEF SentInv
  <2> QED  BY <2>8, <2>9, <2>10, <2>11, <2>12 DEF FrameInv
<1> QED  BY <1>2, <1>3

\* The frame a handler sends is the one after all it has sent, and comes last in the
\* channel.
LEMMA SendKeepsFrames ==
    ASSUME FrameInv, NEW c \in Connection, SendEvent(c)
    PROVE  FrameInv'
<1>1. /\ client' = client /\ written' = written
      /\ received' = received /\ UNCHANGED ends /\ handler[c] = "sending"
  BY DEF SendEvent
<1>2. CASE Finish(c) /\ channel' = channel  BY <1>1, <1>2, FinishKeepsFrames
<1>3. CASE ~(Finish(c) /\ channel' = channel)
  <2> DEFINE k == payload[c]
             f == <<c, k>>
             len == Len(channel)
             longer == channel'
  <2>1. /\ broker = "running" /\ Len(channel) < EVENT_CHANNEL_CAPACITY
        /\ channel' = Append(channel, f)
        /\ payload' = [payload EXCEPT ![c] = NoPayload]
        /\ handler' = [handler EXCEPT ![c] = "reading"]
        /\ stream' = stream
    BY <1>3 DEF SendEvent
  <2>2. /\ k \in Nat \ {0} /\ k = written[c] - Len(stream[c]) /\ Sent(c) = k - 1 /\ k <= written[c]
        /\ written[c] \in Nat /\ Len(stream[c]) \in Nat /\ received[c] \in Nat
    <3>1. /\ k \in Nat /\ k # 0 /\ k = written[c] - Len(stream[c]) /\ Len(stream[c]) \in Nat
          /\ written[c] \in Nat /\ received[c] \in Nat
      BY <1>1 DEF FrameInv, FrameTypes, HeldInv, NoPayload
    <3> QED  BY <3>1 DEF Sent, NoPayload
  <2>3. channel \in Seq(Frames) /\ f \in Frames /\ len \in Nat
    BY <2>2 DEF FrameInv, FrameTypes, Frames
  <2>4. /\ longer \in Seq(Frames) /\ Len(longer) = len + 1 /\ longer[len + 1] = f
        /\ \A i \in 1..len : longer[i] = channel[i]
    BY <2>1, <2>3, AppendProperties
  <2> HIDE DEF f, longer, len
  <2>5. /\ \A x \in Connection \ {c} : /\ payload'[x] = payload[x] /\ handler'[x] = handler[x]
        /\ payload'[c] = NoPayload /\ handler'[c] = "reading"
    BY <2>1 DEF FrameInv, FrameTypes
  <2>6. /\ received[c] <= k - 1
        /\ \A i \in 1..len : channel[i][1] = c => channel[i][2] <= k - 1
        /\ \A n \in Nat : received[c] < n /\ n <= k - 1 =>
              \E j \in 1..len : channel[j] = <<c, n>>
    BY <1>1, <2>1, <2>2 DEF FrameInv, SentInv, len
  <2>7. FrameTypes'
    <3>1. payload' \in [Connection -> Nat] /\ handler' \in [Connection -> Phase]
      BY <2>1 DEF FrameInv, FrameTypes, Phase, NoPayload
    <3>2. channel' \in Seq(Frames) /\ Len(channel') <= EVENT_CHANNEL_CAPACITY
      BY <2>1, <2>3, <2>4, ServerAssumption DEF longer, len
    <3> QED  BY <1>1, <2>1, <3>1, <3>2 DEF FrameInv, FrameTypes, ends
  <2>8. SocketInv'  BY <1>1, <2>1 DEF FrameInv, SocketInv
  <2>9. HeldInv'  BY <1>1, <2>1, <2>5 DEF FrameInv, HeldInv
  <2>10. ChannelInv'
    <3>1. \A i \in 1..len : i \in 1..Len(channel) /\ channel[i][1] \in Connection
                            /\ channel[i][2] \in Nat
      BY InChannel DEF FrameInv, len
    <3>2. ASSUME NEW i \in 1..len
          PROVE  /\ received[longer[i][1]] < longer[i][2]
                 /\ longer[i][2] <= written[longer[i][1]]
                 /\ \A j \in 1..(i - 1) :
                       longer[j][1] = longer[i][1] => longer[j][2] < longer[i][2]
                 /\ \A n \in Nat : received[longer[i][1]] < n /\ n < longer[i][2] =>
                       \E j \in 1..(i - 1) : longer[j] = <<longer[i][1], n>>
      <4>1. \A j \in 1..(i - 1) : j \in 1..len  BY <2>3
      <4> QED  BY <2>4, <3>1, <4>1 DEF FrameInv, ChannelInv, len
    <3>3. /\ received[f[1]] < f[2] /\ f[2] <= written[f[1]]
          /\ \A j \in 1..len : longer[j][1] = f[1] => longer[j][2] < f[2]
          /\ \A n \in Nat : received[f[1]] < n /\ n < f[2] =>
                \E j \in 1..len : longer[j] = <<f[1], n>>
      <4>1. f[1] = c /\ f[2] = k  BY DEF f
      <4>2. \A n \in Nat : n < k => n <= k - 1  BY <2>2
      <4>3. \A n \in Nat : n <= k - 1 => n < k  BY <2>2
      <4>4. \A j \in 1..len : longer[j][1] = c => longer[j][2] < k
        BY <2>4, <2>6, <3>1, <4>3
      <4>5. \A n \in Nat : received[c] < n /\ n < k => \E j \in 1..len : longer[j] = <<c, n>>
        BY <2>4, <2>6, <4>2
      <4>6. received[c] < k /\ k <= written[c]  BY <2>2, <2>6, <4>3
      <4> QED  BY <4>1, <4>4, <4>5, <4>6
    <3>4. \A i \in 1..Len(longer) : i \in 1..len \/ (i = len + 1 /\ i - 1 = len)
      BY <2>3, <2>4
    <3>5. \A i \in 1..Len(longer) :
             /\ received[longer[i][1]] < longer[i][2]
             /\ longer[i][2] <= written[longer[i][1]]
             /\ \A j \in 1..(i - 1) :
                   longer[j][1] = longer[i][1] => longer[j][2] < longer[i][2]
             /\ \A n \in Nat : received[longer[i][1]] < n /\ n < longer[i][2] =>
                   \E j \in 1..(i - 1) : longer[j] = <<longer[i][1], n>>
      BY <2>4, <3>2, <3>3, <3>4
    <3> QED  BY <1>1, <3>5 DEF FrameInv, ChannelInv, longer
  <2>11. SentInv'
    <3>1. Sent(c)' = k  BY <1>1, <2>1, <2>2, <2>5 DEF Sent
    <3>2. \A x \in Connection \ {c} : Sent(x)' = Sent(x)  BY <1>1, <2>1, <2>5 DEF Sent
    <3>3. \A i \in 1..Len(longer) : i \in 1..len \/ (i = len + 1 /\ longer[i] = f)
      BY <2>3, <2>4
    <3>4. \A i \in 1..len : i \in 1..Len(longer) /\ longer[i] = channel[i]  BY <2>3, <2>4
    <3>5. f[1] = c /\ f[2] = k /\ len + 1 \in 1..Len(longer) /\ longer[len + 1] = <<c, k>>
      BY <2>3, <2>4 DEF f
    <3>6. /\ received[c] <= k
          /\ \A i \in 1..Len(longer) : longer[i][1] = c => longer[i][2] <= k
          /\ \A n \in Nat : received[c] < n /\ n <= k =>
                \E j \in 1..Len(longer) : longer[j] = <<c, n>>
      <4>1. \A i \in 1..len : channel[i][2] \in Nat  BY InChannel DEF FrameInv, len
      <4>2. \A n \in Nat : n <= k - 1 => n <= k  BY <2>2
      <4>3. received[c] <= k /\ k <= k  BY <2>2, <2>6, <4>2
      <4>4. \A i \in 1..Len(longer) : longer[i][1] = c => longer[i][2] <= k
        BY <2>6, <3>3, <3>4, <3>5, <4>1, <4>2, <4>3
      <4>5. \A n \in Nat : n <= k => n <= k - 1 \/ n = k  BY <2>2
      <4> QED  BY <2>6, <3>4, <3>5, <4>3, <4>4, <4>5
    <3>7. ASSUME NEW x \in Connection \ {c}, handler'[x] # "done"
          PROVE  /\ received[x] <= Sent(x)
                 /\ \A i \in 1..Len(longer) : longer[i][1] = x => longer[i][2] <= Sent(x)
                 /\ \A n \in Nat : received[x] < n /\ n <= Sent(x) =>
                       \E j \in 1..Len(longer) : longer[j] = <<x, n>>
      <4>1. handler[x] # "done" /\ broker = "running"  BY <2>1, <2>5, <3>7
      <4>2. /\ received[x] <= Sent(x)
            /\ \A i \in 1..len : channel[i][1] = x => channel[i][2] <= Sent(x)
            /\ \A n \in Nat : received[x] < n /\ n <= Sent(x) =>
                  \E j \in 1..len : channel[j] = <<x, n>>
        BY <4>1 DEF FrameInv, SentInv, len
      <4> QED  BY <3>3, <3>4, <3>5, <4>2
    <3> QED  BY <1>1, <3>1, <3>2, <3>6, <3>7 DEF SentInv, longer
  <2> QED  BY <2>7, <2>8, <2>9, <2>10, <2>11 DEF FrameInv
<1> QED  BY <1>2, <1>3

\* The first frame of the channel is the next of its connection.
LEMMA RecvKeepsFrames ==
    ASSUME FrameInv, Recv
    PROVE  FrameInv'
<1> DEFINE d == Head(channel)[1]
           k == received[d] + 1
           len == Len(channel)
           rest == channel'
           got == received'
<1>1. /\ broker = "running" /\ channel # <<>> /\ channel' = Tail(channel)
      /\ received' = [received EXCEPT ![d] = k]
      /\ client' = client /\ written' = written /\ stream' = stream /\ payload' = payload
      /\ handler' = handler /\ UNCHANGED ends
  BY DEF Recv, network, tasks
<1>2. channel \in Seq(Frames) /\ len \in Nat \ {0} /\ Head(channel) = channel[1]
  BY <1>1, EmptySeq DEF FrameInv, FrameTypes
<1>3. rest \in Seq(Frames) /\ Len(rest) = len - 1 /\ \A i \in 1..Len(rest) : rest[i] = channel[i + 1]
  BY <1>1, <1>2, HeadTailProperties
<1>4. \A i \in 1..len : channel[i] \in Frames /\ channel[i][1] \in Connection
                        /\ channel[i][2] \in Nat
  BY InChannel DEF FrameInv
<1>5. 1 \in 1..len /\ d = channel[1][1] /\ d \in Connection
  BY <1>2, <1>4
<1> HIDE DEF d
<1>6. received[d] \in Nat  BY <1>5 DEF FrameInv, FrameTypes
<1>7. channel[1] = <<d, k>> /\ channel[1][2] = k
  <2>1. /\ received[d] < channel[1][2] /\ channel[1][2] \in Nat
        /\ \A n \in Nat : received[d] < n /\ n < channel[1][2] =>
              \E j \in 1..(1 - 1) : channel[j] = <<d, n>>
    BY <1>4, <1>5 DEF FrameInv, ChannelInv
  <2>2. ~ (k < channel[1][2])  BY <1>6, <2>1
  <2>3. channel[1][2] = k  BY <1>6, <2>1, <2>2
  <2> QED  BY <1>4, <1>5, <2>3 DEF Frames
<1>8. /\ \A x \in Connection \ {d} : got[x] = received[x]
      /\ got[d] = k /\ got \in [Connection -> Nat]
  BY <1>1, <1>5, <1>6 DEF FrameInv, FrameTypes
<1>9. k \in Nat /\ k <= written[d] /\ \A n \in Nat : n < k <=> n <= received[d]
  <2>1. channel[1][2] <= written[channel[1][1]]  BY <1>5 DEF FrameInv, ChannelInv
  <2> QED  BY <1>5, <1>6, <1>7, <2>1
<1> HIDE DEF k, rest, got, len
<1>10. \A i \in 1..Len(rest) : i + 1 \in 1..len  BY <1>2, <1>3
<1>11. FrameTypes'
  <2>1. Len(rest) <= EVENT_CHANNEL_CAPACITY
    BY <1>2, <1>3, ServerAssumption DEF FrameInv, FrameTypes, len
  <2> QED  BY <1>1, <1>3, <1>8, <2>1 DEF FrameInv, FrameTypes, ends, rest, got
<1>12. SocketInv' /\ HeldInv'  BY <1>1 DEF FrameInv, SocketInv, HeldInv
<1>13. ChannelInv'
  <2>1. \A x \in Connection : got[x] <= written[x]
    BY <1>8, <1>9 DEF FrameInv, ChannelInv
  <2>2. ASSUME NEW i \in 1..Len(rest)
        PROVE  /\ got[rest[i][1]] < rest[i][2]
               /\ rest[i][2] <= written[rest[i][1]]
               /\ \A j \in 1..(i - 1) : rest[j][1] = rest[i][1] => rest[j][2] < rest[i][2]
               /\ \A n \in Nat : got[rest[i][1]] < n /\ n < rest[i][2] =>
                     \E j \in 1..(i - 1) : rest[j] = <<rest[i][1], n>>
    <3> DEFINE e == channel[i + 1]
               c == e[1]
    <3>1. rest[i] = e /\ c \in Connection /\ e[2] \in Nat /\ i + 1 \in 1..len
      BY <1>3, <1>4, <1>10
    <3>2. /\ received[c] < e[2] /\ e[2] <= written[c]
          /\ \A j \in 1..((i + 1) - 1) : channel[j][1] = c => channel[j][2] < e[2]
          /\ \A n \in Nat : received[c] < n /\ n < e[2] =>
                \E j \in 1..((i + 1) - 1) : channel[j] = <<c, n>>
      BY <3>1 DEF FrameInv, ChannelInv, len
    <3>3. 1..((i + 1) - 1) = 1..i /\ 1 \in 1..i /\ i \in Nat  BY <1>2, <1>3
    <3> HIDE DEF e
    <3>4. got[c] < e[2]
      BY <1>5, <1>7, <1>8, <3>1, <3>2, <3>3
    <3>5. \A j \in 1..(i - 1) : /\ rest[j] = channel[j + 1] /\ j + 1 \in 1..i
      BY <1>2, <1>3
    <3>6. \A j \in 1..i : j = 1 \/ (j - 1 \in 1..(i - 1) /\ channel[j] = rest[j - 1])
      <4> TAKE j \in 1..i
      <4> SUFFICES ASSUME j # 1 PROVE j - 1 \in 1..(i - 1) /\ channel[j] = rest[j - 1]
        OBVIOUS
      <4>1. j - 1 \in 1..(i - 1) /\ j - 1 \in 1..Len(rest) /\ (j - 1) + 1 = j
        BY <1>2, <1>3, <3>3
      <4> QED  BY <1>3, <4>1
    <3>7. \A j \in 1..(i - 1) : rest[j][1] = c => rest[j][2] < e[2]
      BY <3>2, <3>3, <3>5
    <3>8. ASSUME NEW n \in Nat, got[c] < n, n < e[2]
          PROVE  \E j \in 1..(i - 1) : rest[j] = <<c, n>>
      <4>1. received[c] < n
        <5>1. CASE c = d  BY <1>6, <1>8, <1>9, <3>8, <5>1
        <5>2. CASE c # d  BY <1>8, <3>1, <3>8, <5>2
        <5> QED  BY <5>1, <5>2
      <4>2. PICK j \in 1..i : channel[j] = <<c, n>>  BY <3>2, <3>3, <3>8, <4>1
      <4>3. j # 1
        <5> SUFFICES ASSUME j = 1 PROVE FALSE  OBVIOUS
        <5>1. <<d, k>> = <<c, n>>  BY <1>7, <4>2
        <5>2. d = c /\ k = n  BY <5>1
        <5> QED  BY <1>8, <1>9, <3>8, <5>2
      <4> QED  BY <3>6, <4>2, <4>3
    <3> QED  BY <3>1, <3>2, <3>4, <3>7, <3>8
  <2> QED  BY <1>1, <2>1, <2>2 DEF ChannelInv, rest, got
<1>14. SentInv'
  <2>1. ASSUME NEW c \in Connection, handler[c] # "done"
        PROVE  /\ got[c] <= Sent(c)
               /\ \A i \in 1..Len(rest) : rest[i][1] = c => rest[i][2] <= Sent(c)
               /\ \A n \in Nat : got[c] < n /\ n <= Sent(c) =>
                     \E j \in 1..Len(rest) : rest[j] = <<c, n>>
    <3>1. /\ received[c] <= Sent(c)
          /\ \A i \in 1..len : channel[i][1] = c => channel[i][2] <= Sent(c)
          /\ \A n \in Nat : received[c] < n /\ n <= Sent(c) =>
                \E j \in 1..len : channel[j] = <<c, n>>
      BY <1>1, <2>1 DEF FrameInv, SentInv, len
    <3>2. got[c] <= Sent(c)  BY <1>5, <1>7, <1>8, <3>1
    <3>3. \A i \in 1..Len(rest) : rest[i][1] = c => rest[i][2] <= Sent(c)
      BY <1>3, <1>10, <3>1
    <3>4. ASSUME NEW n \in Nat, got[c] < n, n <= Sent(c)
          PROVE  \E j \in 1..Len(rest) : rest[j] = <<c, n>>
      <4>1. received[c] < n
        <5>1. CASE c = d  BY <1>6, <1>8, <1>9, <3>4, <5>1
        <5>2. CASE c # d  BY <1>8, <3>4, <5>2
        <5> QED  BY <5>1, <5>2
      <4>2. PICK j \in 1..len : channel[j] = <<c, n>>  BY <3>1, <3>4, <4>1
      <4>3. j # 1
        <5> SUFFICES ASSUME j = 1 PROVE FALSE  OBVIOUS
        <5>1. <<d, k>> = <<c, n>>  BY <1>7, <4>2
        <5>2. d = c /\ k = n  BY <5>1
        <5> QED  BY <1>8, <1>9, <3>4, <5>2
      <4>4. j - 1 \in 1..Len(rest) /\ (j - 1) + 1 = j  BY <1>2, <1>3, <4>3
      <4>5. rest[j - 1] = channel[j]  BY <1>3, <4>4
      <4> QED  BY <4>2, <4>4, <4>5
    <3> QED  BY <3>2, <3>3, <3>4
  <2>2. \A c \in Connection : Sent(c)' = Sent(c)  BY <1>1 DEF Sent
  <2> QED  BY <1>1, <2>1, <2>2 DEF SentInv, rest, got
<1> QED  BY <1>11, <1>12, <1>13, <1>14 DEF FrameInv

\* Stopping to accept ends what waits in the backlog, the end of the grace period
\* every handler; a broker that stops drops the frames on their way.
LEMMA StopKeepsFrames ==
    ASSUME FrameInv, StopAccepting \/ GraceOver \/ BrokerStops
    PROVE  FrameInv'
<1>1. \A x \in Connection : stream[x] \in Seq(Item)  BY DEF FrameInv, FrameTypes
<1>2. CASE StopAccepting
  <2> DEFINE D == {c \in Connection : handler[c] = "backlog"}
  <2>1. /\ handler' = [x \in Connection |-> IF x \in D THEN "done" ELSE handler[x]]
        /\ stream' = [x \in Connection |-> IF x \in D THEN <<>> ELSE stream[x]]
        /\ client' = client /\ written' = written /\ payload' = payload /\ channel' = channel
        /\ received' = received /\ shutdown' = shutdown /\ broker' = broker
        /\ server' = "draining"
    BY <1>2 DEF StopAccepting
  <2>2. \A x \in D : payload[x] = NoPayload  BY DEF FrameInv, HeldInv
  <2>3. payload' = [x \in Connection |-> IF x \in D THEN NoPayload ELSE payload[x]]
    BY <2>1, <2>2 DEF FrameInv, FrameTypes
  <2>4. FrameTypes'
    <3>1. stream' \in [Connection -> Seq(Item)]  BY <1>1, <2>1
    <3> QED  BY <2>1, <3>1 DEF FrameInv, FrameTypes, Phase
  <2> QED  BY <2>1, <2>3, <2>4, EndKeeps
<1>3. CASE GraceOver
  <2> DEFINE D == {c \in Connection : Serving(c)}
  <2>1. /\ handler' = [x \in Connection |-> IF x \in D THEN "done" ELSE handler[x]]
        /\ stream' = [x \in Connection |-> IF x \in D THEN <<>> ELSE stream[x]]
        /\ payload' = [x \in Connection |-> NoPayload]
        /\ client' = client /\ written' = written /\ channel' = channel
        /\ received' = received /\ shutdown' = shutdown /\ broker' = broker
        /\ server' = "stopped"
    BY <1>3 DEF GraceOver
  <2>2. \A x \in Connection \ D : payload[x] = NoPayload  BY DEF FrameInv, HeldInv, Serving
  <2>3. payload' = [x \in Connection |-> IF x \in D THEN NoPayload ELSE payload[x]]
    BY <2>1, <2>2 DEF FrameInv, FrameTypes
  <2>4. FrameTypes'
    <3>1. stream' \in [Connection -> Seq(Item)]  BY <1>1, <2>1
    <3> QED  BY <2>1, <3>1 DEF FrameInv, FrameTypes, Phase, NoPayload
  <2> QED  BY <2>1, <2>3, <2>4, EndKeeps
<1>4. CASE BrokerStops
  <2>1. /\ broker' = "stopped" /\ channel' = <<>> /\ client' = client /\ written' = written
        /\ stream' = stream /\ payload' = payload /\ handler' = handler
        /\ received' = received /\ shutdown' = shutdown /\ server' = server
    BY <1>4 DEF BrokerStops, network, tasks
  <2>2. channel' \in Seq(Frames) /\ Len(channel') = 0  BY <2>1
  <2>3. FrameTypes'
    BY <2>1, <2>2, ServerAssumption DEF FrameInv, FrameTypes
  <2>4. SocketInv' /\ HeldInv' /\ SentInv'  BY <2>1 DEF FrameInv, SocketInv, HeldInv, SentInv
  <2>5. ChannelInv'  BY <2>1, <2>2 DEF FrameInv, ChannelInv
  <2> QED  BY <2>3, <2>4, <2>5 DEF FrameInv
<1> QED  BY <1>2, <1>3, <1>4

LEMMA FramesKeep ==
    ASSUME FrameInv, NewHasNoHandler, [Next]_vars
    PROVE  FrameInv'
<1>1. CASE Signal \/ Drained \/ UNCHANGED vars
  <2>1. /\ client' = client /\ written' = written /\ stream' = stream /\ payload' = payload
        /\ handler' = handler /\ channel' = channel /\ received' = received
        /\ broker' = broker /\ shutdown' \in {shutdown, TRUE} /\ server' \in {server, "stopped"}
    BY <1>1 DEF Signal, Drained, vars, network, tasks
  <2>2. FrameTypes'  BY <2>1 DEF FrameInv, FrameTypes
  <2> QED  BY <2>1, <2>2, StillKeeps
<1>2. ASSUME NEW c \in Connection,
             \/ Connect(c) \/ WriteFrame(c) \/ Hangup(c)
             \/ Accept(c) \/ ReadFrame(c) \/ ReadEof(c) \/ ReadTimeout(c) \/ SendEvent(c)
      PROVE  FrameInv'
  BY <1>2, ClientKeepsFrames, WriteKeepsFrames, AcceptKeepsFrames, ReadKeepsFrames,
     SendKeepsFrames
<1> QED  BY <1>1, <1>2, RecvKeepsFrames, StopKeepsFrames DEF Next

LEMMA FrameInvariant == Spec => [](FrameInv /\ PermitInv)
<1>1. FrameInv /\ PermitInv /\ NewHasNoHandler /\ [Next]_vars => FrameInv'
  BY FramesKeep
<1> QED  BY <1>1, FrameInit, ServerInvariant, PTL DEF Spec


\* What lies on the way, place by place: the channel, then this connection's own frames
\* numbered on from the last one sent, the last one of all perhaps incomplete.
LEMMA LineUp ==
    ASSUME FrameInv, NEW c \in Connection
    PROVE  LET a == Len(channel)
               m == Len(Line(c)) - a
           IN  /\ a \in Nat /\ m \in Nat /\ DOMAIN Line(c) = 1..(a + m)
               /\ \A i \in 1..a : Line(c)[i] = channel[i]
               /\ Sent(c) \in Nat /\ Sent(c) + m = written[c]
               /\ \A i \in (a + 1)..(a + m) :
                     /\ Line(c)[i][1] = c
                     /\ \/ Line(c)[i][2] = Sent(c) + (i - a)
                        \/ i = a + m /\ Line(c)[i][2] \in {Part, Oversized}
               /\ EndsIn(c, {Part, Oversized}) <=>
                     m > 0 /\ Line(c)[a + m][2] \in {Part, Oversized}
               /\ handler[c] = "done" => m = 0
<1> DEFINE a == Len(channel)
           held == IF payload[c] = NoPayload THEN <<>> ELSE <<<<c, payload[c]>>>>
           b == Len(held)
           s == stream[c]
           ls == Len(s)
           w == written[c]
           socket == [i \in DOMAIN s |-> <<c, s[i]>>]
           line == (channel \o held) \o socket
           X == Connection \X Item
<1>1. /\ s \in Seq(Item) /\ ls \in Nat /\ DOMAIN s = 1..ls /\ w \in Nat /\ ls <= w
      /\ \A i \in 1..ls : s[i] = w - ls + i \/ (i = ls /\ s[i] \in {Part, Oversized})
      /\ payload[c] \in Nat /\ (payload[c] # 0 => payload[c] = w - ls)
      /\ handler[c] = "done" => payload[c] = 0 /\ s = <<>>
  BY DEF FrameInv, FrameTypes, SocketInv, HeldInv, NoPayload
<1>2. channel \in Seq(X) /\ a \in Nat
  <2>1. channel \in Seq(Frames)  BY DEF FrameInv, FrameTypes
  <2>2. Frames \subseteq X  BY DEF Frames, Item
  <2> QED  BY <2>1, <2>2
<1>3. held \in Seq(X) /\ b = (IF payload[c] = 0 THEN 0 ELSE 1)
      /\ (payload[c] # 0 => held[1] = <<c, payload[c]>>)
  <2>1. CASE payload[c] = 0
    <3>1. held = <<>>  BY <2>1 DEF NoPayload
    <3> QED  BY <2>1, <3>1
  <2>2. CASE payload[c] # 0
    <3>1. held = <<<<c, payload[c]>>>>  BY <2>2 DEF NoPayload
    <3>2. <<c, payload[c]>> \in X  BY <1>1 DEF Item
    <3> HIDE DEF X
    <3> QED  BY <2>2, <3>1, <3>2
  <2> QED  BY <2>1, <2>2
<1>4. socket \in Seq(X) /\ Len(socket) = ls /\ \A i \in 1..ls : socket[i] = <<c, s[i]>>
  <2>1. socket = [i \in 1..ls |-> <<c, s[i]>>]  BY <1>1
  <2>2. \A i \in 1..ls : <<c, s[i]>> \in X  BY <1>1
  <2> QED  BY <1>1, <2>1, <2>2
<1> HIDE DEF held, socket, X
<1>5. /\ channel \o held \in Seq(X) /\ Len(channel \o held) = a + b
      /\ \A i \in 1..(a + b) : (channel \o held)[i] = IF i <= a THEN channel[i] ELSE held[i - a]
  BY <1>2, <1>3, ConcatProperties
<1> DEFINE front == channel \o held
<1> HIDE DEF s, w, a, b, ls
<1>6. front \in Seq(X) /\ Len(front) = a + b  BY <1>5
<1> HIDE DEF front
<1>7. /\ front \o socket \in Seq(X) /\ Len(front \o socket) = a + b + ls
      /\ \A i \in 1..(a + b + ls) :
            (front \o socket)[i] = IF i <= a + b THEN front[i] ELSE socket[i - (a + b)]
  <2>1. front \in Seq(X) /\ socket \in Seq(X)  BY <1>4, <1>6
  <2>2. /\ front \o socket \in Seq(X)
        /\ Len(front \o socket) = Len(front) + Len(socket)
        /\ \A i \in 1..(Len(front) + Len(socket)) :
              (front \o socket)[i] = IF i <= Len(front) THEN front[i] ELSE socket[i - Len(front)]
    BY <2>1, ConcatProperties
  <2>3. Len(front) = a + b /\ Len(socket) = ls  BY <1>4, <1>6
  <2>4. Len(front) + Len(socket) = a + b + ls  BY <2>3
  <2> QED  BY <2>2, <2>3, <2>4
<1>8. line = front \o socket /\ line = Line(c)
  BY DEF front, held, socket, s, line, Line
<1> HIDE DEF line
<1> DEFINE m == b + ls
<1>9. b \in {0, 1} /\ m \in Nat /\ Len(line) = a + m /\ DOMAIN line = 1..(a + m)
  BY <1>1, <1>2, <1>3, <1>7, <1>8
<1>10. Sent(c) = w - ls - b /\ Sent(c) \in Nat /\ Sent(c) + m = w
  <2>1. Sent(c) = w - ls - b  BY <1>3 DEF Sent, w, ls, s, NoPayload
  <2>2. w - ls - b \in Nat  BY <1>1, <1>3, <1>9
  <2> QED  BY <1>1, <1>9, <2>1, <2>2
<1>11. \A i \in 1..a : line[i] = channel[i]
  <2>1. \A i \in 1..a : i \in 1..(a + b) /\ i \in 1..(a + b + ls) /\ i <= a /\ i <= a + b
    BY <1>1, <1>2, <1>9
  <2> QED  BY <1>5, <1>7, <1>8, <2>1 DEF front
<1>12. ASSUME NEW i \in (a + 1)..(a + m)
       PROVE  /\ line[i][1] = c
              /\ \/ line[i][2] = Sent(c) + (i - a)
                 \/ i = a + m /\ line[i][2] \in {Part, Oversized}
  <2>1. CASE i <= a + b
    <3>1. b = 1 /\ i = a + 1  BY <1>2, <1>9, <2>1
    <3>2. payload[c] # 0 /\ held[1] = <<c, payload[c]>>  BY <1>3, <3>1
    <3>3. i \in 1..(a + b) /\ i \in 1..(a + b + ls) /\ ~(i <= a) /\ i - a = 1
      BY <1>1, <1>2, <3>1
    <3>4. line[i] = <<c, payload[c]>>
      BY <1>5, <1>7, <1>8, <2>1, <3>2, <3>3 DEF front
    <3>5. payload[c] = Sent(c) + (i - a)  BY <1>1, <1>10, <3>1, <3>2, <3>3
    <3> QED  BY <3>4, <3>5
  <2>2. CASE ~(i <= a + b)
    <3> DEFINE j == i - (a + b)
    <3>1. j \in 1..ls /\ i \in 1..(a + b + ls) /\ i = a + b + j
      <4>1. /\ a \in Nat /\ b \in Nat /\ ls \in Nat /\ i \in Nat
            /\ a + b < i /\ i <= a + b + ls
        BY <1>1, <1>2, <1>9, <2>2
      <4> QED  BY <4>1
    <3>2. line[i] = <<c, s[j]>>  BY <1>4, <1>7, <1>8, <2>2, <3>1
    <3>3. w - ls + j = Sent(c) + (i - a) /\ (j = ls => i = a + m)
      BY <1>1, <1>2, <1>9, <1>10, <3>1
    <3> HIDE DEF j
    <3> QED  BY <1>1, <3>1, <3>2, <3>3
  <2> QED  BY <2>1, <2>2
<1>13. EndsIn(c, {Part, Oversized}) <=> m > 0 /\ line[a + m][2] \in {Part, Oversized}
  <2>1. CASE ls = 0
    <3>1. ~EndsIn(c, {Part, Oversized})  BY <1>1, <2>1, EmptySeq DEF EndsIn, s, ls
    <3>2. m > 0 => line[a + m][2] \in Nat /\ line[a + m][2] \notin {Part, Oversized}
      <4> SUFFICES ASSUME m > 0
                   PROVE  line[a + m][2] \in Nat /\ line[a + m][2] \notin {Part, Oversized}
        OBVIOUS
      <4>1. b = 1 /\ m = 1  BY <1>9, <2>1
      <4>2. payload[c] # 0 /\ held[1] = <<c, payload[c]>> /\ payload[c] = w
        BY <1>1, <1>3, <2>1, <4>1
      <4>3. line[a + m] = <<c, payload[c]>>
        <5>1. a + 1 \in 1..(a + b) /\ a + 1 \in 1..(a + b + ls) /\ ~(a + 1 <= a)
              /\ (a + 1) - a = 1 /\ a + 1 <= a + b
          BY <1>1, <1>2, <4>1
        <5> QED  BY <1>5, <1>7, <1>8, <4>1, <4>2, <5>1 DEF front
      <4>4. w \in 1..MaxWrites[c]
        BY <1>1, <4>2, ServerAssumption DEF FrameInv, SocketInv, w
      <4> QED  BY <1>1, <4>2, <4>3, <4>4, ServerAssumption
    <3> QED  BY <3>1, <3>2
  <2>2. CASE ls # 0
    <3>1. /\ ls \in 1..ls /\ a + m \in 1..(a + b + ls) /\ ~(a + m <= a + b)
          /\ (a + m) - (a + b) = ls /\ m > 0
      BY <1>1, <1>2, <1>9, <2>2
    <3>2. line[a + m] = <<c, s[ls]>>  BY <1>4, <1>7, <1>8, <3>1
    <3>3. s # <<>>  BY <2>2 DEF ls
    <3> QED  BY <3>1, <3>2, <3>3 DEF EndsIn, Last, s, ls
  <2> QED  BY <2>1, <2>2
<1>14. handler[c] = "done" => m = 0
  BY <1>1, <1>3, EmptySeq DEF ls
<1>15. m = Len(Line(c)) - a  BY <1>2, <1>8, <1>9
<1> HIDE DEF m
<1> QED  BY <1>2, <1>8, <1>9, <1>10, <1>11, <1>12, <1>13, <1>14, <1>15 DEF a, w

LEMMA OnTheWay ==
    ASSUME FrameInv, NEW c \in Connection, broker = "running"
    PROVE  LET onWay == {Line(c)[i][2] : i \in Own(c)}
           IN  /\ \A i, j \in Own(c) : i < j => Line(c)[i][2] < Line(c)[j][2]
               /\ \A n \in onWay : received[c] < n /\ (received[c] + 1)..n \subseteq onWay
               /\ Serving(c) => onWay = (received[c] + 1)..Completed(c)
<1> DEFINE a == Len(channel)
           line == Line(c)
           m == Len(line) - a
           sent == Sent(c)
           r == received[c]
           w == written[c]
           onWay == {line[i][2] : i \in Own(c)}
<1>1. /\ a \in Nat /\ m \in Nat /\ DOMAIN line = 1..(a + m)
      /\ \A i \in 1..a : line[i] = channel[i]
      /\ sent \in Nat /\ sent + m = w
      /\ \A i \in (a + 1)..(a + m) :
            /\ line[i][1] = c
            /\ \/ line[i][2] = sent + (i - a)
               \/ i = a + m /\ line[i][2] \in {Part, Oversized}
      /\ EndsIn(c, {Part, Oversized}) <=> m > 0 /\ line[a + m][2] \in {Part, Oversized}
      /\ handler[c] = "done" => m = 0
  BY LineUp
<1>2. /\ r \in Nat /\ r <= w /\ w \in Nat
      /\ \A n \in Nat : 1 <= n /\ n <= w => IsFrame(n)
  <2>1. MaxWrites[c] \in Nat /\ w <= MaxWrites[c] /\ w \in Nat /\ r \in Nat /\ r <= w
    BY ServerAssumption DEF FrameInv, FrameTypes, SocketInv, ChannelInv
  <2>2. \A n \in Nat : 1 <= n /\ n <= w => n \in 1..MaxWrites[c]  BY <2>1
  <2> QED  BY <2>1, <2>2, ServerAssumption DEF IsFrame
<1>3. \A i \in 1..a : channel[i] \in Frames /\ channel[i][2] \in Nat
  BY InChannel DEF FrameInv
<1>4. \A i \in 1..a : channel[i][1] = c =>
         /\ r < channel[i][2] /\ channel[i][2] <= w
         /\ \A j \in 1..(i - 1) : channel[j][1] = c => channel[j][2] < channel[i][2]
         /\ \A n \in Nat : r < n /\ n < channel[i][2] =>
               \E j \in 1..(i - 1) : channel[j] = <<c, n>>
  BY DEF FrameInv, ChannelInv
<1>5. handler[c] # "done" =>
         /\ r <= sent
         /\ \A i \in 1..a : channel[i][1] = c => channel[i][2] <= sent
         /\ \A n \in Nat : r < n /\ n <= sent => \E j \in 1..a : channel[j] = <<c, n>>
  BY DEF FrameInv, SentInv
<1>6. \A i : i \in Own(c) <=> i \in DOMAIN line /\ line[i][1] = c /\ IsFrame(line[i][2])
  BY DEF Own
<1> HIDE DEF a, line, m, sent, r, w
\* The places up to the end of the channel, and those after it.
<1>7. \A i \in 1..a : i \in Own(c) <=> channel[i][1] = c
  <2> TAKE i \in 1..a
  <2>1. i \in DOMAIN line /\ line[i] = channel[i]  BY <1>1
  <2>2. channel[i][1] = c => IsFrame(channel[i][2])
    BY <1>2, <1>3, <1>4
  <2> QED  BY <1>6, <2>1, <2>2
<1>8. ASSUME NEW i \in (a + 1)..(a + m)
      PROVE  /\ i \in DOMAIN line /\ i \notin 1..a /\ i - a \in 1..m /\ m > 0
             /\ i \in Own(c) => line[i][2] = sent + (i - a)
             /\ line[i][2] = sent + (i - a) => i \in Own(c)
  <2>1. i \in DOMAIN line /\ i \notin 1..a /\ i - a \in 1..m /\ m > 0  BY <1>1
  <2>2. sent + (i - a) \in Nat /\ 1 <= sent + (i - a) /\ sent + (i - a) <= w  BY <1>1, <2>1
  <2> QED  BY <1>1, <1>2, <1>6, <2>1, <2>2 DEF IsFrame
<1>9. \A i \in Own(c) : i \in 1..a \/ i \in (a + 1)..(a + m)
  BY <1>1, <1>6
<1>10. m > 0 => handler[c] # "done"  BY <1>1
\* Every number between what is received and what is sent has its place in the channel,
\* and every one after that its place behind it.
<1>11. ASSUME NEW n \in Nat, handler[c] # "done", r < n, n <= sent
       PROVE  n \in onWay
  <2>1. PICK j \in 1..a : channel[j] = <<c, n>>  BY <1>5, <1>11
  <2>2. channel[j][1] = c /\ channel[j][2] = n  BY <2>1
  <2>3. j \in Own(c) /\ line[j] = channel[j]  BY <1>1, <1>7, <2>2
  <2> QED  BY <2>2, <2>3
<1>12. ASSUME NEW n \in Nat, sent < n, n <= w
       PROVE  \/ n \in onWay
              \/ n = w /\ line[a + m][2] \in {Part, Oversized} /\ m > 0
  <2> DEFINE i == a + (n - sent)
  <2>1. i \in (a + 1)..(a + m) /\ sent + (i - a) = n /\ (i = a + m => n = w)  BY <1>1, <1>12
  <2> HIDE DEF i
  <2> QED  BY <1>1, <1>8, <2>1
<1>13. ASSUME NEW i \in Own(c), NEW j \in Own(c), i < j
       PROVE  line[i][2] < line[j][2]
  <2>1. CASE j \in 1..a
    <3>1. i \in 1..a /\ i \in 1..(j - 1)  BY <1>1, <1>9, <1>13, <2>1
    <3> QED  BY <1>1, <1>4, <1>7, <2>1, <3>1
  <2>2. CASE j \in (a + 1)..(a + m) /\ i \in 1..a
    <3>1. channel[i][2] <= sent /\ channel[i][2] \in Nat
      BY <1>3, <1>5, <1>7, <1>8, <1>10, <2>2
    <3>2. line[j][2] = sent + (j - a) /\ j - a \in 1..m  BY <1>8, <2>2
    <3> QED  BY <1>1, <2>2, <3>1, <3>2
  <2>3. CASE j \in (a + 1)..(a + m) /\ i \in (a + 1)..(a + m)
    <3>1. line[j][2] = sent + (j - a) /\ line[i][2] = sent + (i - a)  BY <1>8, <2>3
    <3> QED  BY <1>1, <1>13, <2>3, <3>1
  <2> QED  BY <1>9, <2>1, <2>2, <2>3
<1>14. ASSUME NEW i \in Own(c)
       PROVE  /\ line[i][2] \in Nat /\ r < line[i][2]
              /\ (r + 1)..line[i][2] \subseteq onWay
  <2> DEFINE n == line[i][2]
  <2>1. CASE i \in 1..a
    <3>1. line[i] = channel[i] /\ channel[i][1] = c /\ n \in Nat /\ r < n
      BY <1>1, <1>3, <1>4, <1>7, <2>1
    <3>2. ASSUME NEW k \in (r + 1)..n, k # n PROVE k \in onWay
      <4>1. k \in Nat /\ r < k /\ k < n  BY <1>2, <3>1, <3>2
      <4>2. PICK j \in 1..(i - 1) : channel[j] = <<c, k>>  BY <1>4, <2>1, <3>1, <4>1
      <4>3. j \in 1..a /\ channel[j][1] = c /\ channel[j][2] = k  BY <1>1, <2>1, <4>2
      <4>4. j \in Own(c) /\ line[j] = channel[j]  BY <1>1, <1>7, <4>3
      <4> QED  BY <4>3, <4>4
    <3> QED  BY <3>1, <3>2
  <2>2. CASE i \in (a + 1)..(a + m)
    <3>1. /\ n = sent + (i - a) /\ handler[c] # "done" /\ i - a \in 1..m
          /\ r <= sent
      BY <1>5, <1>8, <1>10, <2>2
    <3>2. n \in Nat /\ r < n /\ n <= w  BY <1>1, <1>2, <3>1
    <3>3. ASSUME NEW k \in (r + 1)..n, k # n PROVE k \in onWay
      <4>1. k \in Nat /\ r < k /\ k < w /\ k <= w  BY <1>2, <3>2, <3>3
      <4> QED  BY <1>1, <1>11, <1>12, <3>1, <4>1
    <3> QED  BY <3>2, <3>3
  <2> QED  BY <1>9, <2>1, <2>2
<1>15. ASSUME Serving(c) PROVE onWay = (r + 1)..Completed(c)
  <2>1. handler[c] # "done"  BY <1>15 DEF Serving
  <2>2. Completed(c) = w - (IF EndsIn(c, {Part, Oversized}) THEN 1 ELSE 0)
    BY DEF Completed, w
  <2>3. sent <= Completed(c) /\ Completed(c) \in Nat  BY <1>1, <1>2, <2>2
  <2>4. ASSUME NEW i \in Own(c) PROVE line[i][2] <= Completed(c)
    <3>1. CASE i \in 1..a
      <4>1. channel[i][2] <= sent /\ channel[i][2] \in Nat /\ line[i] = channel[i]
        BY <1>1, <1>3, <1>5, <1>7, <2>1, <3>1
      <4> QED  BY <1>1, <2>3, <4>1
    <3>2. CASE i \in (a + 1)..(a + m)
      <4>1. line[i][2] = sent + (i - a) /\ i - a \in 1..m  BY <1>8, <3>2
      <4>2. line[a + m][2] \in {Part, Oversized} => i # a + m  BY <1>6 DEF IsFrame
      <4> QED  BY <1>1, <1>2, <2>2, <3>2, <4>1, <4>2
    <3> QED  BY <1>9, <3>1, <3>2
  <2>5. \A n \in onWay : n \in (r + 1)..Completed(c)
    <3> TAKE n \in onWay
    <3>1. PICK i \in Own(c) : n = line[i][2]  OBVIOUS
    <3>2. n \in Nat /\ r < n /\ n <= Completed(c)  BY <1>14, <2>4, <3>1
    <3> QED  BY <1>2, <2>3, <3>2
  <2>6. ASSUME NEW n \in (r + 1)..Completed(c) PROVE n \in onWay
    <3>1. n \in Nat /\ r < n /\ n <= w /\ (EndsIn(c, {Part, Oversized}) => n # w)
      BY <1>2, <2>2, <2>3, <2>6
    <3> QED  BY <1>1, <1>11, <1>12, <2>1, <3>1
  <2> QED  BY <2>5, <2>6
<1> QED  BY <1>13, <1>14, <1>15 DEF line, r


-----------------------------------------------------------------------------
(* The results                                                             *)

\* Whichever way handlers end (end of stream, timeout, bad frame, closed channel,
\* abort), free permits and served connections add up to max_connections.
THEOREM PermitsAreBalanced == Spec => []PermitsBalance
<1>1. PermitInv => PermitsBalance  BY DEF PermitInv
<1> QED  BY <1>1, ServerInvariant, PTL

\* The server never serves more than max_connections at a time.
THEOREM ServedIsBounded == Spec => [](Cardinality(Served) <= max_connections)
<1>1. PermitInv => Cardinality(Served) <= max_connections
  BY ServedIsFinite, ServerAssumption DEF PermitInv, PermitsBalance, Served
<1> QED  BY <1>1, ServerInvariant, PTL

\* The ranges of every variable: no more frames in the channel than its capacity,
\* no more permits than connections allowed, no handler that sends without a frame
\* or holds one without sending, nothing received or read that was not written.
THEOREM ServerIsTypeCorrect == Spec => []TypeOK
<1>1. ASSUME FrameInv, PermitInv PROVE TypeOK
  <2>1. permits \in 0..max_connections
    BY <1>1, ServedIsFinite, ServerAssumption DEF PermitInv, PermitsBalance, Served
  <2>2. \A i \in DOMAIN channel : channel[i][1] \in Connection
    <3>1. DOMAIN channel = 1..Len(channel)  BY <1>1 DEF FrameInv, FrameTypes
    <3> QED  BY <1>1, <3>1, InChannel DEF FrameInv
  <2>3. ASSUME NEW c \in Connection
        PROVE  /\ written[c] \in 0..MaxWrites[c]
               /\ payload[c] \in 0..written[c] /\ received[c] \in 0..written[c]
               /\ \A i \in DOMAIN stream[c] :
                     IsFrame(stream[c][i]) => stream[c][i] \in 1..written[c]
    <3> DEFINE s == stream[c]
               w == written[c]
    <3>1. s \in Seq(Item) /\ w \in Nat /\ Len(s) \in Nat /\ DOMAIN s = 1..Len(s)
      BY <1>1 DEF FrameInv, FrameTypes
    <3>2. MaxWrites[c] \in Nat /\ w <= MaxWrites[c] /\ Len(s) <= w
      BY <1>1, ServerAssumption DEF FrameInv, SocketInv
    <3>3. payload[c] \in Nat /\ (payload[c] = 0 \/ payload[c] = w - Len(s))
      BY <1>1 DEF FrameInv, FrameTypes, HeldInv, NoPayload
    <3>4. received[c] \in Nat /\ received[c] <= w
      BY <1>1 DEF FrameInv, FrameTypes, ChannelInv
    <3>5. \A i \in 1..Len(s) : IsFrame(s[i]) => s[i] = w - Len(s) + i
      BY <1>1 DEF FrameInv, SocketInv, IsFrame
    <3> HIDE DEF s, w
    <3>6. \A i \in 1..Len(s) : w - Len(s) + i \in 1..w  BY <3>1, <3>2
    <3>7. payload[c] \in 0..w /\ received[c] \in 0..w /\ w \in 0..MaxWrites[c]
      BY <3>1, <3>2, <3>3, <3>4
    <3> QED  BY <3>1, <3>5, <3>6, <3>7 DEF s, w
  <2> QED  BY <1>1, <2>1, <2>2, <2>3 DEF TypeOK, FrameInv, FrameTypes, HeldInv, Phase
<1> QED  BY <1>1, FrameInvariant, PTL

\* While a connection is served, every frame its client has completed is with the
\* broker or on the way to it, in the order written: none is lost, repeated or
\* overtaken in socket, handler and channel.
THEOREM FramesComeInSequence == Spec => []FramesInSequence
<1>1. FrameInv => FramesInSequence  BY OnTheWay DEF FramesInSequence
<1> QED  BY <1>1, FrameInvariant, PTL
=============================================================================

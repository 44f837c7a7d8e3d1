---------------------------- MODULE SocketServer ----------------------------
(***************************************************************************)
(* crates/ats-daemon/src/server.rs with the framing under it: clients      *)
(* connect and write frames, the accept loop gives each connection a       *)
(* handler while there are permits, handlers pass complete frames into the *)
(* bounded channel the broker reads, and a shutdown ends them all.  The    *)
(* broker (broker.rs) is reduced to its receiving end.                     *)
(*                                                                         *)
(* A frame is known by its connection and its number there.  Timeouts are  *)
(* untimed: a read that cannot complete may time out at any moment.        *)
(***************************************************************************)
EXTENDS Naturals, FiniteSets, SequencesExt

CONSTANTS
    Connection,
    max_connections,          \* permits of the semaphore
    EVENT_CHANNEL_CAPACITY,
    MaxWrites,                \* bound: frames each client writes
    Part, Oversized           \* the beginning of a frame; a header beyond the cap

ASSUME ServerAssumption ==
    /\ IsFiniteSet(Connection)
    /\ max_connections \in Nat \ {0} /\ EVENT_CHANNEL_CAPACITY \in Nat \ {0}
    /\ MaxWrites \in [Connection -> Nat]
    /\ Part # Oversized
    /\ \A c \in Connection : \A n \in 1..MaxWrites[c] : n \notin {Part, Oversized}

VARIABLES
    client,       \* "new", "open" or "gone"
    written,      \* how many frames a client has begun
    stream,       \* what a client has written and the server not yet read
    handler,      \* "none", "backlog", "reading", "sending" or "done"
    payload,      \* the frame a sending handler holds
    permits,      \* free permits of the semaphore
    channel,      \* frames on the way to the broker
    received,     \* how many frames of each connection the broker has taken
    shutdown,     \* the watch flag
    server,       \* "accepting", "draining" or "stopped"
    broker        \* "running" or "stopped"

vars == <<client, written, stream, handler, payload, permits, channel, received, shutdown, server, broker>>
network == <<client, written, stream>>
tasks == <<handler, payload, permits>>
ends == <<shutdown, server, broker>>

NoPayload == 0

IsFrame(item) == item \notin {Part, Oversized}

Serving(c) == handler[c] \in {"reading", "sending"}

Init ==
    /\ client = [c \in Connection |-> "new"]
    /\ written = [c \in Connection |-> 0]
    /\ stream = [c \in Connection |-> <<>>]
    /\ handler = [c \in Connection |-> "none"]
    /\ payload = [c \in Connection |-> NoPayload]
    /\ permits = max_connections
    /\ channel = <<>>
    /\ received = [c \in Connection |-> 0]
    /\ shutdown = FALSE /\ server = "accepting" /\ broker = "running"

-----------------------------------------------------------------------------
(* Clients: socket_client.rs and framing.rs write_frame                    *)

\* Succeeds as long as the listener exists, before anyone accepts.
Connect(c) ==
    /\ client[c] = "new" /\ server = "accepting"
    /\ client' = [client EXCEPT ![c] = "open"]
    /\ handler' = [handler EXCEPT ![c] = "backlog"]
    /\ UNCHANGED <<written, stream, payload, permits, channel, received, ends>>

EndsIn(c, items) == stream[c] # <<>> /\ Last(stream[c]) \in items

\* A frame goes out at once, or its beginning first and the rest later; a client
\* with another framing may announce too much, and what
\* it writes after that is never read.
WriteFrame(c) ==
    /\ client[c] = "open" /\ handler[c] # "done"
    /\ \/ /\ ~EndsIn(c, {Part, Oversized}) /\ written[c] < MaxWrites[c]
          /\ written' = [written EXCEPT ![c] = @ + 1]
          /\ \E item \in {written'[c], Part, Oversized} :
                stream' = [stream EXCEPT ![c] = Append(@, item)]
       \/ /\ EndsIn(c, {Part})
          /\ stream' = [stream EXCEPT ![c] = Append(Front(@), written[c])]
          /\ UNCHANGED written
    /\ UNCHANGED <<client, tasks, channel, received, ends>>

\* The client closes its end, or dies, at any point; once the server has closed
\* its own nobody notices.
Hangup(c) ==
    /\ client[c] = "open" /\ handler[c] # "done"
    /\ client' = [client EXCEPT ![c] = "gone"]
    /\ UNCHANGED <<written, stream, tasks, channel, received, ends>>

-----------------------------------------------------------------------------
(* The accept loop                                                         *)

\* No look at what try_acquire_owned answers.
NaiveAccept(c) ==
    /\ server = "accepting" /\ handler[c] = "backlog"
    /\ handler' = [handler EXCEPT ![c] = "reading"]
    /\ permits' = permits - 1
    /\ UNCHANGED <<network, payload, channel, received, ends>>

\* At capacity the connection is closed at once, with whatever was written.
Accept(c) ==
    /\ server = "accepting" /\ handler[c] = "backlog"
    /\ IF permits > 0
       THEN /\ handler' = [handler EXCEPT ![c] = "reading"]
            /\ permits' = permits - 1
            /\ UNCHANGED stream
       ELSE /\ handler' = [handler EXCEPT ![c] = "done"]
            /\ stream' = [stream EXCEPT ![c] = <<>>]
            /\ UNCHANGED permits
    /\ UNCHANGED <<client, written, payload, channel, received, ends>>

-----------------------------------------------------------------------------
(* handle_connection and read_frame                                        *)

\* The permit is not given back when the channel is closed.
NaiveFinish(c) ==
    /\ handler' = [handler EXCEPT ![c] = "done"]
    /\ payload' = [payload EXCEPT ![c] = NoPayload]
    /\ stream' = [stream EXCEPT ![c] = <<>>]
    /\ permits' = IF handler[c] = "sending" THEN permits ELSE permits + 1

\* The task ends: its permit comes back, its socket and what it held are gone.
Finish(c) ==
    /\ handler' = [handler EXCEPT ![c] = "done"]
    /\ payload' = [payload EXCEPT ![c] = NoPayload]
    /\ stream' = [stream EXCEPT ![c] = <<>>]
    /\ permits' = permits + 1

\* The end of the stream inside a frame loses what was read of it.
ReadFrame(c) ==
    /\ handler[c] = "reading" /\ stream[c] # <<>>
    /\ LET item == Head(stream[c]) IN
       \/ /\ IsFrame(item)
          /\ payload' = [payload EXCEPT ![c] = item]
          /\ stream' = [stream EXCEPT ![c] = Tail(@)]
          /\ handler' = [handler EXCEPT ![c] = "sending"]
          /\ UNCHANGED permits
       \/ /\ item \in (IF client[c] = "gone" THEN {Part, Oversized} ELSE {Oversized})
          /\ Finish(c)
    /\ UNCHANGED <<client, written, channel, received, ends>>

ReadEof(c) ==
    /\ handler[c] = "reading" /\ stream[c] = <<>> /\ client[c] = "gone"
    /\ Finish(c)
    /\ UNCHANGED <<client, written, channel, received, ends>>

\* No timeout on a connection that has begun a frame.
NaiveTimeout(c) ==
    /\ handler[c] = "reading" /\ client[c] = "open"
    /\ stream[c] = <<>>
    /\ Finish(c)
    /\ UNCHANGED <<client, written, channel, received, ends>>

\* Ten seconds without a complete frame.
ReadTimeout(c) ==
    /\ handler[c] = "reading" /\ client[c] = "open"
    /\ stream[c] # <<>> => Head(stream[c]) = Part
    /\ Finish(c)
    /\ UNCHANGED <<client, written, channel, received, ends>>

\* try_send: what does not fit is dropped.
NaiveSendEvent(c) ==
    /\ handler[c] = "sending" /\ broker = "running"
    /\ channel' = IF Len(channel) < EVENT_CHANNEL_CAPACITY
                   THEN Append(channel, <<c, payload[c]>>) ELSE channel
    /\ payload' = [payload EXCEPT ![c] = NoPayload]
    /\ handler' = [handler EXCEPT ![c] = "reading"]
    /\ UNCHANGED <<network, permits, received, ends>>

\* Waits while the channel is full; ends when nobody receives any more.
SendEvent(c) ==
    /\ handler[c] = "sending"
    /\ \/ /\ broker = "running" /\ Len(channel) < EVENT_CHANNEL_CAPACITY
          /\ channel' = Append(channel, <<c, payload[c]>>)
          /\ payload' = [payload EXCEPT ![c] = NoPayload]
          /\ handler' = [handler EXCEPT ![c] = "reading"]
          /\ UNCHANGED <<stream, permits>>
       \/ /\ broker = "stopped"
          /\ Finish(c)
          /\ UNCHANGED channel
    /\ UNCHANGED <<client, written, received, ends>>

-----------------------------------------------------------------------------
(* The broker's end, and shutdown                                          *)

Recv ==
    /\ broker = "running" /\ channel # <<>>
    /\ received' = [received EXCEPT ![Head(channel)[1]] = @ + 1]
    /\ channel' = Tail(channel)
    /\ UNCHANGED <<network, tasks, ends>>

Signal ==
    /\ ~shutdown
    /\ shutdown' = TRUE
    /\ UNCHANGED <<network, tasks, channel, received, server, broker>>

\* The receiver is dropped with the frames still in the channel.
BrokerStops ==
    /\ shutdown /\ broker = "running"
    /\ broker' = "stopped" /\ channel' = <<>>
    /\ UNCHANGED <<network, tasks, received, shutdown, server>>

\* The accept loop breaks; closing the listener resets what was not accepted.
StopAccepting ==
    /\ shutdown /\ server = "accepting"
    /\ server' = "draining"
    /\ handler' = [c \in Connection |-> IF handler[c] = "backlog" THEN "done" ELSE handler[c]]
    /\ stream' = [c \in Connection |-> IF handler[c] = "backlog" THEN <<>> ELSE stream[c]]
    /\ UNCHANGED <<client, written, payload, permits, channel, received, shutdown, broker>>

Drained ==
    /\ server = "draining" /\ \A c \in Connection : ~Serving(c)
    /\ server' = "stopped"
    /\ UNCHANGED <<network, tasks, channel, received, shutdown, broker>>

\* The grace period is over: abort_all drops every task where it stands.
GraceOver ==
    /\ server = "draining" /\ \E c \in Connection : Serving(c)
    /\ server' = "stopped"
    /\ handler' = [c \in Connection |-> IF Serving(c) THEN "done" ELSE handler[c]]
    /\ payload' = [c \in Connection |-> NoPayload]
    /\ stream' = [c \in Connection |-> IF Serving(c) THEN <<>> ELSE stream[c]]
    /\ permits' = permits + Cardinality({c \in Connection : Serving(c)})
    /\ UNCHANGED <<client, written, channel, received, shutdown, broker>>

-----------------------------------------------------------------------------
Next ==
    \/ \E c \in Connection :
          \/ Connect(c) \/ WriteFrame(c) \/ Hangup(c)
          \/ Accept(c) \/ ReadFrame(c) \/ ReadEof(c) \/ ReadTimeout(c) \/ SendEvent(c)
    \/ Recv \/ Signal \/ BrokerStops \/ StopAccepting \/ Drained \/ GraceOver

Spec == Init /\ [][Next]_vars

\* The runtime schedules every ready task, timers fire, and the broker keeps
\* receiving; clients may do nothing, and nobody has to signal.  A full channel
\* serves waiting senders in the order they came, so none waits for ever.
FairSpec ==
    /\ Spec
    /\ \A c \in Connection :
          WF_vars(ReadFrame(c) \/ ReadEof(c) \/ ReadTimeout(c)) /\ SF_vars(SendEvent(c))
    /\ WF_vars(Recv) /\ WF_vars(BrokerStops)
    /\ WF_vars(StopAccepting) /\ WF_vars(Drained \/ GraceOver)

-----------------------------------------------------------------------------
(* Properties                                                              *)

TypeOK ==
    /\ shutdown \in BOOLEAN
    /\ server \in {"accepting", "draining", "stopped"} /\ broker \in {"running", "stopped"}
    /\ permits \in 0..max_connections
    /\ Len(channel) <= EVENT_CHANNEL_CAPACITY
    /\ \A i \in DOMAIN channel : channel[i][1] \in Connection
    /\ \A c \in Connection :
          /\ client[c] \in {"new", "open", "gone"}
          /\ handler[c] \in {"none", "backlog", "reading", "sending", "done"}
          /\ (payload[c] # NoPayload) <=> (handler[c] = "sending")
          /\ written[c] \in 0..MaxWrites[c]
          /\ payload[c] \in 0..written[c] /\ received[c] \in 0..written[c]
          /\ \A i \in DOMAIN stream[c] :
                IsFrame(stream[c][i]) => stream[c][i] \in 1..written[c]

\* No permit is lost or made up, whichever way a handler ends: what is not free
\* is held by a connection being served, and never more than the limit are.
PermitsBalance == permits + Cardinality({c \in Connection : Serving(c)}) = max_connections

\* What is on its way to the broker of a connection: the channel (with the frames of
\* others), what its handler holds, what its socket holds.
Line(c) ==
    channel
    \o (IF payload[c] = NoPayload THEN <<>> ELSE <<<<c, payload[c]>>>>)
    \o [i \in DOMAIN stream[c] |-> <<c, stream[c][i]>>]

\* The places of its complete frames there.
Own(c) == {i \in DOMAIN Line(c) : Line(c)[i][1] = c /\ IsFrame(Line(c)[i][2])}

Completed(c) == written[c] - (IF EndsIn(c, {Part, Oversized}) THEN 1 ELSE 0)

\* While a connection is served, every frame its client has completed is in the
\* broker's hands or on the way there, in the order written: through socket,
\* handler and channel none is lost, repeated or overtaken by a later one.
FramesInSequence ==
    broker = "running" => \A c \in Connection :
        LET onWay == {Line(c)[i][2] : i \in Own(c)}
        IN  /\ \A i, j \in Own(c) : i < j => Line(c)[i][2] < Line(c)[j][2]
            /\ \A n \in onWay : received[c] < n /\ (received[c] + 1)..n \subseteq onWay
            /\ Serving(c) => onWay = (received[c] + 1)..Completed(c)

\* A shutdown ends: the server stops within its grace period whatever clients do,
\* and nothing of it stays behind.
ShutdownEnds ==
    shutdown ~> (server = "stopped" /\ broker = "stopped" /\ permits = max_connections)

\* A server at capacity recovers: silent clients, clients that stop in the middle
\* of a frame and handlers waiting on a full channel give their permits back.
CapacityRecovers == permits = 0 ~> permits > 0

\* A frame the server has read reaches the broker, unless a shutdown comes first.
ReadIsDelivered ==
    \A c \in Connection : \A n \in 1..MaxWrites[c] :
        handler[c] = "sending" /\ payload[c] = n ~> received[c] >= n \/ shutdown

\* The drain of a shutdown lets handlers deliver: one that holds a frame loses it
\* only when the grace period is over.
DrainDelivers ==
    [][\A c \in Connection :
          handler[c] = "sending" /\ handler'[c] = "done" =>
              server = "draining" /\ server' = "stopped"]_vars
=============================================================================

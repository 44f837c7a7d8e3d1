------------------------------- MODULE Broker -------------------------------
(***************************************************************************)
(* crates/ats-daemon/src/broker.rs with the rate limiter of                *)
(* crates/ats-rendering: one task selects between frames from the socket   *)
(* server, the drain tick (50 ms), the TTL tick (1 s) and the shutdown     *)
(* signal.  Frames wait in pending so that late ones can be put back in    *)
(* order; a drain folds them into the state engine; the transitions it     *)
(* returns are rendered one by one while the select loop stands still.     *)
(*                                                                         *)
(* Time is the engine's: whole seconds at chosen Instants.  Within one     *)
(* instant the arms of the select run in any order, and the 250 ms render  *)
(* cooldown of a key ends whenever it likes, at the latest with the        *)
(* instant: two Instants are at least a second apart.                      *)
(***************************************************************************)
EXTENDS AgentStates, Sequences, FiniteSets, Functions

CONSTANTS
    SessionId, EventId, NoSession, NoParent, EventTypes, Risks, Instants, MaxDelay, LastInput,
    Pane, NoPane,            \* what a terminal context names; a context that names nothing
    Frames,                  \* the frames senders send: events with their pane
    Garbage,                 \* a frame that is not an event
    EVENT_CHANNEL_CAPACITY,
    MaxFrames,               \* bound: frames sent in one behaviour
    Faults                   \* which of "shutdown", "crash", "render" may happen

VARIABLES
    sessions, parent_map, now,   \* the state engine and the clock
    channel,                     \* frames from the socket server
    pending,                     \* HashMap<String, Vec<(timestamp, event)>>
    session_info,                \* the pane of the last frame received, "Unseen" before the first
    cooling,                     \* keys of last_render younger than the cooldown
    transitions,                 \* what the current dispatch has still to render for each session
    turn,                        \* the session it renders now
    pc,                          \* "select", "dispatch", "last dispatch" or "stopped"
    display,                     \* what each pane shows
    server,                      \* "open", "closing" (shutdown signalled) or "closed"
    sent                         \* frames sent so far

engine_vars == <<sessions, parent_map>>
vars == <<sessions, parent_map, now, channel, pending, session_info, cooling, transitions, turn,
          pc, display, server, sent>>

Engine == INSTANCE StateEngine

Event == {[event_id |-> f.event_id, event_type |-> f.event_type, risk |-> f.risk,
           session |-> f.session, parent |-> f.parent, timestamp |-> f.timestamp] : f \in Frames}

ASSUME BrokerAssumption ==
    /\ Event \subseteq Engine!Event /\ NoSession \notin Engine!SessionState
    /\ Instants \subseteq Nat
    /\ \A f \in Frames : f.pane \in Pane \cup {NoPane}
    /\ Garbage \notin Frames /\ NoPane \notin Pane /\ "Unseen" \notin Pane \cup {NoPane}
    /\ EVENT_CHANNEL_CAPACITY \in Nat \ {0} /\ MaxFrames \in Nat
    /\ Faults \subseteq {"shutdown", "crash", "render"}

Nothing == [s \in SessionId |-> <<>>]

Init ==
    /\ Engine!Init
    /\ channel = <<>> /\ pending = Nothing
    /\ session_info = [s \in SessionId |-> "Unseen"]
    /\ cooling = {} /\ transitions = Nothing /\ turn = NoSession
    /\ pc = "select"
    /\ display = [p \in Pane |-> "Idle"]
    /\ server = "open" /\ sent = 0

-----------------------------------------------------------------------------
(* The socket server and its clients                                       *)

\* An unbounded channel.
NaiveSend(f) ==
    /\ server # "closed" /\ pc # "stopped"
    /\ sent < MaxFrames /\ now <= LastInput
    /\ f # Garbage => Engine!Deliverable(f)
    /\ channel' = Append(channel, f)
    /\ sent' = sent + 1
    /\ UNCHANGED <<engine_vars, now, pending, session_info, cooling, transitions, turn, pc,
                   display, server>>

\* A connection handler forwards a frame; it waits while the channel is full.
Send(f) ==
    /\ server # "closed" /\ pc # "stopped"
    /\ sent < MaxFrames /\ now <= LastInput
    /\ f # Garbage => Engine!Deliverable(f)
    /\ Len(channel) < EVENT_CHANNEL_CAPACITY
    /\ channel' = Append(channel, f)
    /\ sent' = sent + 1
    /\ UNCHANGED <<engine_vars, now, pending, session_info, cooling, transitions, turn, pc,
                   display, server>>

Shutdown ==
    /\ "shutdown" \in Faults /\ server = "open"
    /\ server' = "closing"
    /\ UNCHANGED <<engine_vars, now, channel, pending, session_info, cooling, transitions, turn,
                   pc, display, sent>>

\* The accept loop and the connection handlers have dropped their senders.
ServerGone ==
    /\ server = "closing"
    /\ server' = "closed"
    /\ UNCHANGED <<engine_vars, now, channel, pending, session_info, cooling, transitions, turn,
                   pc, display, sent>>

-----------------------------------------------------------------------------
(* buffer_event and drain_and_process                                      *)

\* A frame that names no pane leaves the pane alone.
NaiveBufferNamedPane ==
    /\ pc = "select" /\ channel # <<>>
    /\ channel' = Tail(channel)
    /\ LET f == Head(channel) IN
       IF f = Garbage THEN UNCHANGED <<pending, session_info>>
       ELSE /\ pending' = [pending EXCEPT ![f.session] = Append(@, f)]
            /\ session_info' = IF f.pane = NoPane THEN session_info
                               ELSE [session_info EXCEPT ![f.session] = f.pane]
    /\ UNCHANGED <<engine_vars, now, cooling, transitions, turn, pc, display, server, sent>>

\* A frame that is not an event stays at the head of the channel.
NaiveBufferSticks ==
    /\ pc = "select" /\ channel # <<>>
    /\ LET f == Head(channel) IN
       /\ f # Garbage
       /\ channel' = Tail(channel)
       /\ pending' = [pending EXCEPT ![f.session] = Append(@, f)]
       /\ session_info' = [session_info EXCEPT ![f.session] = f.pane]
    /\ UNCHANGED <<engine_vars, now, cooling, transitions, turn, pc, display, server, sent>>

buffer_event ==
    /\ pc = "select" /\ channel # <<>>
    /\ channel' = Tail(channel)
    /\ LET f == Head(channel) IN
       IF f = Garbage THEN UNCHANGED <<pending, session_info>>
       ELSE /\ pending' = [pending EXCEPT ![f.session] = Append(@, f)]
            /\ session_info' = [session_info EXCEPT ![f.session] = f.pane]
    /\ UNCHANGED <<engine_vars, now, cooling, transitions, turn, pc, display, server, sent>>

\* No ordering correction.
NaiveArrivalOrder(events) == events

\* A stable sort by timestamp.
in_order(events) ==
    LET place(i) == Cardinality({j \in DOMAIN events :
                        \/ events[j].timestamp < events[i].timestamp
                        \/ events[j].timestamp = events[i].timestamp /\ j <= i})
    IN  [k \in DOMAIN events |-> events[CHOOSE i \in DOMAIN events : place(i) = k]]

Shown(entry) == IF entry = NoSession THEN "Idle" ELSE entry.state

\* Reports the state the event proposes, not the one that won.
NaiveIngestProposed(acc, e) ==
    LET entry == Engine!ingested(acc.entry, e, now)
        proposed == state_from_event(e.event_type, Engine!is_risk(e))
    IN
    [entry |-> entry,
     parents |-> Engine!linked(acc.parents, e),
     transitions |->
         IF proposed = Shown(acc.entry) THEN acc.transitions
         ELSE Append(acc.transitions,
                     [session |-> e.session, previous |-> Shown(acc.entry), new |-> proposed])]

\* One event folded in: entry, links, and the transition when the state moved.
ingest(acc, e) ==
    LET entry == Engine!ingested(acc.entry, e, now) IN
    [entry |-> entry,
     parents |-> Engine!linked(acc.parents, e),
     transitions |->
         IF entry.state = Shown(acc.entry) THEN acc.transitions
         ELSE Append(acc.transitions,
                     [session |-> e.session, previous |-> Shown(acc.entry), new |-> entry.state])]

\* The events of a session, one after the other.
Ingested(s, events) ==
    LET acc[i \in 0..Len(events)] ==
            IF i = 0 THEN [entry |-> sessions[s], parents |-> parent_map, transitions |-> <<>>]
            ELSE ingest(acc[i - 1], events[i])
    IN  acc[Len(events)]

Waiting(batches) == {s \in SessionId : batches[s] # <<>>}

\* The engine's and the buffer's maps are iterated in an arbitrary order, session
\* by session.
InSomeOrder(batches) ==
    /\ transitions' = batches
    /\ IF turn \in Waiting(batches) THEN turn' = turn
       ELSE IF Waiting(batches) = {} THEN turn' = NoSession
       ELSE turn' \in Waiting(batches)

\* The select loop goes on at once when there is nothing to render.
thenSelect(batches) == pc' = IF Waiting(batches) = {} THEN "select" ELSE "dispatch"
thenStop(batches)   == pc' = IF Waiting(batches) = {} THEN "stopped" ELSE "last dispatch"

drained == [s \in SessionId |-> Ingested(s, in_order(pending[s]))]

drain_and_process ==
    /\ sessions' = [s \in SessionId |-> drained[s].entry]
    /\ parent_map' = [s \in SessionId |-> drained[s].parents[s]]
    /\ pending' = Nothing
    /\ InSomeOrder([s \in SessionId |-> drained[s].transitions])
    /\ UNCHANGED <<now, channel, session_info, cooling, display, sent>>

drain_tick ==
    /\ pc = "select"
    /\ \E s \in SessionId : pending[s] # <<>>
    /\ drain_and_process
    /\ thenSelect([s \in SessionId |-> drained[s].transitions])
    /\ UNCHANGED server

\* The shutdown arm leaves the channel unread.
NaiveFinalDrain ==
    /\ pc = "select"
    /\ server # "open"
    /\ pc' = "stopped"
    /\ UNCHANGED <<engine_vars, now, channel, pending, session_info, cooling, transitions, turn,
                   display, server, sent>>

\* The shutdown arm, whatever the channel holds, or the closed channel: one
\* more drain, then the loop ends.
final_drain ==
    /\ pc = "select"
    /\ server # "open"
    /\ drain_and_process
    /\ thenStop([s \in SessionId |-> drained[s].transitions])
    /\ UNCHANGED server

-----------------------------------------------------------------------------
(* check_ttls                                                              *)

expired(s) == LET session == sessions[s] IN
    IF session = NoSession \/ ~Engine!Overdue(session, now) THEN <<>>
    ELSE << [session |-> s, previous |-> session.state,
             new |-> Engine!check_ttl(session, now).state] >>

ttl_tick ==
    /\ pc = "select"
    /\ ~Engine!Swept
    /\ Engine!expire_ttls
    /\ InSomeOrder([s \in SessionId |-> expired(s)])
    /\ thenSelect([s \in SessionId |-> expired(s)])
    /\ UNCHANGED <<channel, pending, session_info, cooling, display, server, sent>>

-----------------------------------------------------------------------------
(* dispatch_render and RenderingEngine::render                             *)

Key(t) == <<t.session, t.new>>

\* One renderer, which shows the state on the pane it is given; a failure is
\* collected and dropped.
Rendered(t) ==
    LET pane == session_info[t.session] IN
    \/ /\ pane \in Pane
       /\ display' = [display EXCEPT ![pane] = t.new]
    \/ /\ pane \notin Pane \/ "render" \in Faults
       /\ UNCHANGED display

\* Renders the first transition and drops the ones behind it.
NaiveDispatchFirst ==
    /\ pc \in {"dispatch", "last dispatch"}
    /\ LET t == Head(transitions[turn]) IN
       /\ IF Key(t) \in cooling THEN UNCHANGED <<cooling, display>>
          ELSE cooling' = cooling \cup {Key(t)} /\ Rendered(t)
       /\ InSomeOrder(Nothing)
       /\ pc' = IF pc = "dispatch" THEN "select" ELSE "stopped"
    /\ UNCHANGED <<engine_vars, now, channel, pending, session_info, server, sent>>

dispatch_render ==
    /\ pc \in {"dispatch", "last dispatch"}
    /\ LET t == Head(transitions[turn])
           left == [transitions EXCEPT ![turn] = Tail(@)]
       IN
       /\ IF Key(t) \in cooling THEN UNCHANGED <<cooling, display>>
          ELSE cooling' = cooling \cup {Key(t)} /\ Rendered(t)
       /\ InSomeOrder(left)
       /\ pc' = IF Waiting(left) # {} THEN pc ELSE IF pc = "dispatch" THEN "select" ELSE "stopped"
    /\ UNCHANGED <<engine_vars, now, channel, pending, session_info, server, sent>>

\* 250 ms have passed since the key was rendered.
Cool ==
    /\ \E key \in cooling : cooling' = cooling \ {key}
    /\ UNCHANGED <<engine_vars, now, channel, pending, session_info, transitions, turn, pc,
                   display, server, sent>>

Tick ==
    /\ Engine!Tick
    /\ cooling' = {}
    /\ UNCHANGED <<channel, pending, session_info, transitions, turn, pc, display, server, sent>>

\* The process dies and a new one is started: everything it held is lost, the
\* panes keep what they show.
Crash ==
    /\ "crash" \in Faults /\ server = "open"
    /\ sessions' = [s \in SessionId |-> NoSession]
    /\ parent_map' = [s \in SessionId |-> NoParent]
    /\ channel' = <<>> /\ pending' = Nothing
    /\ session_info' = [s \in SessionId |-> "Unseen"]
    /\ cooling' = {} /\ transitions' = Nothing /\ turn' = NoSession /\ pc' = "select"
    /\ UNCHANGED <<now, display, server, sent>>

-----------------------------------------------------------------------------
Next ==
    \/ \E f \in Frames \cup {Garbage} : Send(f)
    \/ Shutdown \/ ServerGone
    \/ buffer_event \/ drain_tick \/ final_drain \/ ttl_tick \/ dispatch_render
    \/ Cool \/ Tick \/ Crash

Spec == Init /\ [][Next]_vars

\* What a step of each arm does to the variable that shows it: fairness is stated
\* on these, which are enabled exactly when the arm is.
DrainsPending == pc = "select" /\ pending' = Nothing
SweepsSessions == pc = "select" /\ ~Engine!Swept /\ Engine!expire_ttls
LeavesLoop == pc = "select" /\ server # "open" /\ pc' \in {"last dispatch", "stopped"}
RendersNext == Waiting(transitions) # {} /\ transitions' = [transitions EXCEPT ![turn] = Tail(@)]

\* No arm of the select starves (tokio polls them in random order and the
\* ticks come every 50 ms and every second), an awaited render returns, a
\* signalled server ends within its grace period.
Fairness ==
    /\ WF_vars(buffer_event) /\ WF_pending(DrainsPending) /\ WF_sessions(SweepsSessions)
    /\ WF_pc(LeavesLoop) /\ WF_transitions(RendersNext) /\ WF_vars(ServerGone)

FairSpec == Spec /\ Fairness

\* Besides, the clock goes on, and a broker that keeps up has nothing left to do
\* when it moves: the next instant is at least a second off.
Settled ==
    pc # "stopped" => /\ pc = "select" /\ Engine!Swept /\ channel = <<>> /\ server # "closing"
                      /\ pending = Nothing

TimelySpec ==
    /\ Init /\ [][Next /\ (now' # now => Settled)]_vars
    /\ Fairness /\ WF_vars(Tick /\ Settled)

-----------------------------------------------------------------------------
(* Properties                                                              *)

Transition == [session : SessionId, previous : AgentState, new : AgentState]

TypeOK ==
    /\ Engine!TypeOK
    /\ channel \in Seq(Frames \cup {Garbage}) /\ Len(channel) <= EVENT_CHANNEL_CAPACITY
    /\ pending \in [SessionId -> Seq(Frames)]
    /\ \A s \in SessionId : \A i \in DOMAIN pending[s] : pending[s][i].session = s
    /\ session_info \in [SessionId -> Pane \cup {NoPane, "Unseen"}]
    /\ cooling \subseteq SessionId \X AgentState
    /\ transitions \in [SessionId -> Seq(Transition)]
    /\ pc \in {"select", "dispatch", "last dispatch", "stopped"}
    /\ IF pc \in {"dispatch", "last dispatch"} THEN turn \in Waiting(transitions)
       ELSE turn = NoSession /\ transitions = Nothing
    /\ display \in [Pane -> AgentState]
    /\ server \in {"open", "closing", "closed"}

\* Every transition finds the pane of its session: what is buffered or live has
\* been seen, so the renderer is never handed an empty target by default.
PaneIsKnown ==
    \A s \in SessionId :
        \/ sessions[s] # NoSession
        \/ pending[s] # <<>>
        \/ transitions[s] # <<>>
        => session_info[s] # "Unseen"

\* What a dispatch has still to render is the session's own story up to now:
\* every transition starts where the one before it ended, and the last one ends
\* in the state the engine holds (a forgotten session ended in Idle).  Rendering
\* them all leaves the pane current.
DispatchEndsCurrent ==
    \A s \in SessionId :
        LET mine == transitions[s] IN
        /\ mine # <<>> => mine[Len(mine)].new = Shown(sessions[s])
        /\ \A i \in 1..(Len(mine) - 1) : mine[i].new = mine[i + 1].previous
        /\ \A i \in DOMAIN mine : mine[i].session = s /\ mine[i].new # mine[i].previous

\* The order in which the frames of one window arrived does not matter, as long
\* as their timestamps tell them apart.
ArrivalOrderIsForgotten ==
    \A s \in SessionId :
        (\A i, j \in DOMAIN pending[s] :
            pending[s][i].timestamp = pending[s][j].timestamp => i = j) =>
        \A order \in Bijection(DOMAIN pending[s], DOMAIN pending[s]) :
            Ingested(s, in_order([i \in DOMAIN order |-> pending[s][order[i]]]))
                = Ingested(s, in_order(pending[s]))

\* A broker that has stopped has applied and rendered everything it had read.
NothingReadIsLost ==
    pc = "stopped" => transitions = Nothing /\ pending = Nothing

\* Every frame is read, folded in and rendered, or the broker stops.
FramesSettle ==
    channel # <<>> ~> (pc = "stopped" \/ (channel = <<>> /\ pc = "select" /\ pending = Nothing))

\* Once the senders are silent every pane returns to its default look.
PanesComeToRest == <>[](\A p \in Pane : display[p] = "Idle")

\* A render is left out only when it would repeat what the pane shows.
OnlyRepeatsAreSuppressed ==
    Waiting(transitions) # {} =>
        LET t == Head(transitions[turn]) pane == session_info[t.session] IN
        Key(t) \in cooling /\ pane \in Pane => display[pane] = t.new

=============================================================================

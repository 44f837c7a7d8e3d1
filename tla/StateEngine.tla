---------------------------- MODULE StateEngine ----------------------------
(***************************************************************************)
(* crates/ats-state-engine: the registry of agent sessions.  ingest folds  *)
(* one normalized event into its session, expire_ttls ages every session,  *)
(* heartbeat renews one.  The engine is single-threaded; what makes it     *)
(* hard is time: events carry the sender's timestamp, the sweep reads the  *)
(* daemon's clock, and a session's lifetime is counted from whichever of   *)
(* the two touched it last.                                                *)
(*                                                                         *)
(* Time is in real seconds, but only at the chosen Instants.               *)
(***************************************************************************)
EXTENDS AgentStates, FiniteSets

CONSTANTS
    SessionId, EventId,
    NoSession, NoParent,   \* no registry entry; no parent link
    EventTypes, Risks,     \* the event types and risk labels senders use
    Instants,              \* the seconds at which something may happen
    MaxDelay,              \* how late, in seconds, an event may arrive
    LastInput              \* the second after which senders stay silent

RiskLevel == {"Low", "Medium", "High", "Critical", "Unknown"}

ASSUME EngineAssumption ==
    /\ NoParent \notin SessionId
    /\ EventTypes \subseteq EventType
    /\ Risks \subseteq RiskLevel \cup {"None"}
    /\ Instants \subseteq Nat /\ 0 \in Instants
    /\ MaxDelay \in Nat /\ LastInput \in Nat

VARIABLES
    sessions,              \* HashMap<String, SessionState>, NoSession where it has no entry
    parent_map,            \* HashMap<String, String>, NoParent where it has no entry
    now                    \* the daemon's clock

vars == <<sessions, parent_map, now>>

NoError == "NoError"

SessionState ==
    [state : AgentState, error_type : FailureEvent \cup {NoError},
     updated_at : Nat, ttl : Nat, seen_event_ids : SUBSET EventId]

Event ==
    [event_id : EventId, event_type : EventTypes, risk : Risks,
     session : SessionId, parent : SessionId \cup {NoParent}, timestamp : Nat]

ASSUME NoSessionAssumption == NoSession \notin SessionState

Live == {s \in SessionId : sessions[s] # NoSession}

-----------------------------------------------------------------------------
(* One session: crates/ats-state-engine/src/machine.rs                     *)

new(t) ==
    [state |-> "Idle", error_type |-> NoError, updated_at |-> t, ttl |-> 0,
     seen_event_ids |-> {}]

is_risk(e) == e.risk \in {"High", "Critical"}

EffectiveState(session, e) ==
    resolve_effective_state(session.state, state_from_event(e.event_type, is_risk(e)),
                            e.event_type)

\* An idempotent replay that still renews the lifetime.
NaiveApplyReplayRenews(session, e) ==
    IF e.event_id \in session.seen_event_ids
    THEN [session EXCEPT !.updated_at = e.timestamp]
    ELSE [state |-> EffectiveState(session, e),
          error_type |-> IF EffectiveState(session, e) = session.state THEN session.error_type
                         ELSE IF EffectiveState(session, e) = "Error" THEN e.event_type
                         ELSE NoError,
          updated_at |-> e.timestamp,
          ttl |-> ttl_duration(EffectiveState(session, e)),
          seen_event_ids |-> session.seen_event_ids \cup {e.event_id}]

\* The error type is only ever set, never cleared.
NaiveApplyKeepsError(session, e) ==
    IF e.event_id \in session.seen_event_ids THEN session
    ELSE [state |-> EffectiveState(session, e),
          error_type |-> IF EffectiveState(session, e) = "Error" THEN e.event_type
                         ELSE session.error_type,
          updated_at |-> e.timestamp,
          ttl |-> ttl_duration(EffectiveState(session, e)),
          seen_event_ids |-> session.seen_event_ids \cup {e.event_id}]

\* The event of any change is recorded, not only a failure.
NaiveApplyRecordsAll(session, e) ==
    IF e.event_id \in session.seen_event_ids THEN session
    ELSE [state |-> EffectiveState(session, e),
          error_type |-> IF EffectiveState(session, e) = session.state THEN session.error_type
                         ELSE e.event_type,
          updated_at |-> e.timestamp,
          ttl |-> ttl_duration(EffectiveState(session, e)),
          seen_event_ids |-> session.seen_event_ids \cup {e.event_id}]

apply(session, e) ==
    LET effective == EffectiveState(session, e) IN
    IF e.event_id \in session.seen_event_ids THEN session
    ELSE [state |-> effective,
          error_type |-> IF effective = session.state THEN session.error_type
                         ELSE IF effective = "Error" THEN e.event_type
                         ELSE NoError,
          updated_at |-> e.timestamp,
          ttl |-> ttl_duration(effective),
          seen_event_ids |-> session.seen_event_ids \cup {e.event_id}]

Overdue(session, t) ==
    /\ session.state # "Idle"
    /\ session.ttl # 0
    /\ session.updated_at + session.ttl <= t

\* Straight to Idle, skipping the Unknown stage.
NaiveTtlSkipsUnknown(session, t) ==
    IF ~Overdue(session, t) THEN session
    ELSE [session EXCEPT !.state = "Idle", !.error_type = NoError, !.updated_at = t, !.ttl = 0]

check_ttl(session, t) ==
    IF ~Overdue(session, t) THEN session
    ELSE LET next == IF session.state = "Unknown" THEN "Idle" ELSE "Unknown" IN
         [session EXCEPT !.state = next, !.error_type = NoError, !.updated_at = t,
                         !.ttl = ttl_duration(next)]

extend_heartbeat(session, t) ==
    IF session.state \in {"Idle", "Unknown"} THEN session
    ELSE [session EXCEPT !.updated_at = t, !.ttl = ttl_duration(session.state)]

-----------------------------------------------------------------------------
(* The registry: crates/ats-state-engine/src/engine.rs                     *)

Init ==
    /\ sessions = [s \in SessionId |-> NoSession]
    /\ parent_map = [s \in SessionId |-> NoParent]
    /\ now = 0

ingested(entry, e, t) == apply(IF entry = NoSession THEN new(t) ELSE entry, e)

linked(parents, e) ==
    IF e.parent \in {NoParent, e.session} THEN parents
    ELSE [parents EXCEPT ![e.session] = e.parent]

ingest(e) ==
    /\ sessions' = [sessions EXCEPT ![e.session] = ingested(@, e, now)]
    /\ parent_map' = linked(parent_map, e)
    /\ UNCHANGED now

children(p) == {c \in Live : parent_map[c] = p}

\* Sessions the sweep removes, whoever still points at them.
NaiveExpiredAll(t) ==
    {s \in Live : Overdue(sessions[s], t) /\ check_ttl(sessions[s], t).state = "Idle"}

\* Only reached on the sweep that turns them Idle, and only without children.
expired_ids(t) ==
    {s \in Live : /\ Overdue(sessions[s], t) /\ check_ttl(sessions[s], t).state = "Idle"
                  /\ \A c \in SessionId : parent_map[c] # s}

\* The session goes, its link stays.
NaiveUnlinkedNone(gone) == parent_map

unlinked(gone) == [s \in SessionId |-> IF s \in gone THEN NoParent ELSE parent_map[s]]

expire_ttls ==
    LET gone == expired_ids(now) IN
    /\ sessions' = [s \in SessionId |->
                       IF s \notin Live \/ s \in gone THEN NoSession
                       ELSE check_ttl(sessions[s], now)]
    /\ parent_map' = unlinked(gone)
    /\ UNCHANGED now

heartbeat(s) ==
    /\ s \in Live
    /\ sessions' = [sessions EXCEPT ![s] = extend_heartbeat(@, now)]
    /\ UNCHANGED <<parent_map, now>>

get_state(s) == IF sessions[s] = NoSession THEN "Absent" ELSE sessions[s].state

\* The clock moves to the next instant.
Tick ==
    /\ \E t \in Instants : /\ t > now
                           /\ \A u \in Instants : u > now => t <= u
                           /\ now' = t
    /\ UNCHANGED <<sessions, parent_map>>

\* What a sender may deliver now: its timestamp is not in the future, and at
\* most MaxDelay old.
Deliverable(e) == e.timestamp <= now /\ now <= e.timestamp + MaxDelay

Inputs == [event_id : EventId, event_type : EventTypes, risk : Risks, session : SessionId,
           parent : SessionId \cup {NoParent}, timestamp : Instants]

Receive == now <= LastInput /\ \E e \in Inputs : Deliverable(e) /\ ingest(e)
Renew   == now <= LastInput /\ \E s \in SessionId : heartbeat(s)

Next == Receive \/ expire_ttls \/ Renew \/ Tick

Spec == Init /\ [][Next]_vars

\* The broker sweeps every second and two instants are at least a second
\* apart: no session is still overdue when the clock moves on.  The sweep and
\* the clock never stop; senders may.
Swept == \A s \in Live : ~Overdue(sessions[s], now)

LiveSpec ==
    /\ Init /\ [][Next /\ (now' # now => Swept)]_vars
    /\ WF_vars(expire_ttls) /\ WF_vars(Tick /\ Swept)

-----------------------------------------------------------------------------
(* Properties                                                              *)

TypeOK ==
    /\ sessions \in [SessionId -> SessionState \cup {NoSession}]
    /\ parent_map \in [SessionId -> SessionId \cup {NoParent}]
    /\ now \in Nat

Coherent(session) ==
    /\ session.ttl = ttl_duration(session.state)
    /\ session.error_type # NoError <=> session.state = "Error"

\* The four fields apply, check_ttl and extend_heartbeat write one by one stay
\* in step: the lifetime is the state's own (so that every state but Idle does
\* run out), an error type is recorded exactly in Error and is a failure, and
\* a session exists only because some event was counted as seen.
SessionConsistent ==
    \A s \in Live : Coherent(sessions[s]) /\ sessions[s].seen_event_ids # {}

\* Links never outlive the session they start from and never loop on one
\* session: ingest, which writes them, and remove_session, which drops them,
\* agree.
ParentMapClosed ==
    \A c \in SessionId : parent_map[c] # NoParent => c \in Live /\ parent_map[c] # c

\* A session is forgotten only when it had run out of its Unknown stage with no
\* link pointing at it: the sweep never removes a parent under its children.
ParentOutlivesChildren ==
    [][\A p \in SessionId :
          p \in Live /\ p \notin Live' => /\ sessions[p].state = "Unknown"
                                         /\ children(p) = {}]_vars

\* A session that shows something urgent keeps showing it: a live session comes
\* down in rank only in a sweep that finds its lifetime over, or when an event
\* arrives and every event that could have made that step is of a type that
\* forces the state and was not counted before.  In particular progress events
\* (tool.started, agent.completed, session.stopped, provider.disconnected)
\* never hide a question the user has not answered.
Forced(s) ==
    /\ Receive
    /\ \A e \in Inputs : Deliverable(e) /\ ingest(e) =>
          /\ e.session = s /\ e.event_type \in ForcedEvent
          /\ e.event_id \notin sessions[s].seen_event_ids

NoUnforcedDowngrade ==
    [][\A s \in Live \cap Live' :
          priority(sessions'[s].state) < priority(sessions[s].state) =>
              \/ expire_ttls /\ Overdue(sessions[s], now)
              \/ Forced(s)]_vars

\* A replay changes nothing: unless a live session counts an event id it had
\* not counted before, only the daemon's own clock touches it - the sweep when
\* it is overdue, or a heartbeat, which keeps the state.
ReplayIsNoop ==
    [][\A s \in Live \cap Live' :
          LET old == sessions[s] next == sessions'[s] IN
          next.seen_event_ids = old.seen_event_ids /\ next # old =>
              /\ next.updated_at = now
              /\ next.state = old.state \/ Overdue(old, now)]_vars

\* The engine implements the promise of SessionLifecycle.
shown == [s \in SessionId |-> get_state(s)]
Lifecycle == INSTANCE SessionLifecycle WITH display <- shown
LifecycleSpec == Lifecycle!LSpec

\* Once the senders are silent every session comes to rest: Idle, or forgotten,
\* after passing its lifetimes one by one.
EventuallyAtRest == <>[](\A s \in SessionId : get_state(s) \in {"Idle", "Absent"})

=============================================================================

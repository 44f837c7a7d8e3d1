------------------------- MODULE StateEngine_proofs -------------------------
(***************************************************************************)
(* The safety properties of StateEngine for every set of sessions, event   *)
(* ids, instants and delays.                                               *)
(***************************************************************************)
EXTENDS StateEngine, TLAPS

-----------------------------------------------------------------------------
(* The tables                                                              *)

\* Every event proposes a state; a proposal of Error comes from a failure event;
\* a forced event proposes the same state whatever the risk label says.
LEMMA StateFromEvent ==
    ASSUME NEW ty \in EventType, NEW r \in BOOLEAN
    PROVE  /\ state_from_event(ty, r) \in AgentState
           /\ state_from_event(ty, r) = "Error" => ty \in FailureEvent
           /\ ty \in ForcedEvent => state_from_event(ty, r) = state_from_event(ty, FALSE)
           /\ ty \in ForcedEvent => state_from_event(ty, r) \in {"Error", "Unknown", "Working"}
  BY DEF state_from_event, AgentState, FailureEvent, EventType, ForcedEvent

LEMMA TableTypes ==
    ASSUME NEW st \in AgentState
    PROVE  priority(st) \in 1..7 /\ ttl_duration(st) \in Nat
  BY DEF priority, ttl_duration, AgentState

\* The new state is the old one, a forced one, or a more urgent one.
LEMMA ResolveCases ==
    ASSUME NEW current \in AgentState, NEW ty \in EventType, NEW r \in BOOLEAN
    PROVE  LET proposed == state_from_event(ty, r)
               effective == resolve_effective_state(current, proposed, ty)
           IN  \/ effective = current
               \/ /\ effective = proposed
                  /\ ty \in ForcedEvent \/ priority(proposed) > priority(current)
  BY DEF resolve_effective_state, forced_transition

-----------------------------------------------------------------------------
(* One session                                                             *)

LEMMA NewSession ==
    ASSUME NEW t \in Nat
    PROVE  new(t) \in SessionState /\ Coherent(new(t)) /\ new(t).seen_event_ids = {}
  BY DEF new, SessionState, Coherent, AgentState, ttl_duration

LEMMA EffectiveStateCases ==
    ASSUME NEW x \in SessionState, NEW e \in Event
    PROVE  /\ EffectiveState(x, e) \in AgentState
           /\ \/ EffectiveState(x, e) = x.state
              \/ /\ EffectiveState(x, e) = state_from_event(e.event_type, is_risk(e))
                 /\ \/ e.event_type \in ForcedEvent
                    \/ priority(EffectiveState(x, e)) > priority(x.state)
<1>1. /\ x.state \in AgentState
      /\ e.event_type \in EventType
      /\ is_risk(e) \in BOOLEAN
  BY EngineAssumption DEF SessionState, Event, is_risk
<1>2. state_from_event(e.event_type, is_risk(e)) \in AgentState
  BY <1>1, StateFromEvent
<1>3. QED
  BY <1>1, <1>2, ResolveCases DEF EffectiveState

\* apply on a session that has not counted the event.
LEMMA ApplyFresh ==
    ASSUME NEW x \in SessionState, Coherent(x), NEW e \in Event,
           e.event_id \notin x.seen_event_ids
    PROVE  /\ apply(x, e) \in SessionState
           /\ Coherent(apply(x, e))
           /\ apply(x, e).state = EffectiveState(x, e)
           /\ apply(x, e).seen_event_ids = x.seen_event_ids \cup {e.event_id}
<1> DEFINE f == EffectiveState(x, e)
<1>1. /\ f \in AgentState
      /\ f = x.state \/ f = state_from_event(e.event_type, is_risk(e))
  BY EffectiveStateCases
<1>2. f # x.state /\ f = "Error" => e.event_type \in FailureEvent
  <2>1. e.event_type \in EventType /\ is_risk(e) \in BOOLEAN
    BY EngineAssumption DEF Event, is_risk
  <2>2. QED
    BY <1>1, <2>1, StateFromEvent
<1>3. /\ apply(x, e) = [state |-> f,
                        error_type |-> IF f = x.state THEN x.error_type
                                       ELSE IF f = "Error" THEN e.event_type ELSE NoError,
                        updated_at |-> e.timestamp,
                        ttl |-> ttl_duration(f),
                        seen_event_ids |-> x.seen_event_ids \cup {e.event_id}]
  BY DEF apply
<1>4. /\ e.timestamp \in Nat /\ e.event_id \in EventId
      /\ x.error_type \in FailureEvent \cup {NoError}
      /\ x.seen_event_ids \in SUBSET EventId
  BY DEF Event, SessionState
<1>5. ttl_duration(f) \in Nat
  BY <1>1, TableTypes
<1>6. NoError \notin FailureEvent
  BY DEF NoError, FailureEvent
<1>. HIDE DEF f
<1>7. apply(x, e) \in SessionState
  BY <1>1, <1>2, <1>3, <1>4, <1>5 DEF SessionState
<1>8. Coherent(apply(x, e))
  BY <1>2, <1>3, <1>6 DEF Coherent
<1>9. QED
  BY <1>3, <1>7, <1>8 DEF f

LEMMA ApplySeen ==
    ASSUME NEW x, NEW e, e.event_id \in x.seen_event_ids
    PROVE  apply(x, e) = x
  BY DEF apply

\* What ingest writes for the event's session.
LEMMA IngestedSession ==
    ASSUME NEW entry \in SessionState \cup {NoSession}, NEW e \in Event, NEW t \in Nat,
           entry # NoSession => Coherent(entry) /\ entry.seen_event_ids # {}
    PROVE  /\ ingested(entry, e, t) \in SessionState
           /\ Coherent(ingested(entry, e, t))
           /\ ingested(entry, e, t).seen_event_ids # {}
<1>1. CASE entry = NoSession
  <2>1. ingested(entry, e, t) = apply(new(t), e)
    BY <1>1 DEF ingested
  <2>2. QED
    BY <2>1, NewSession, ApplyFresh
<1>2. CASE entry # NoSession
  <2>1. ingested(entry, e, t) = apply(entry, e) /\ entry \in SessionState
    BY <1>2 DEF ingested
  <2>2. CASE e.event_id \in entry.seen_event_ids
    BY <1>2, <2>1, <2>2, ApplySeen
  <2>3. CASE e.event_id \notin entry.seen_event_ids
    BY <1>2, <2>1, <2>3, ApplyFresh
  <2>4. QED
    BY <2>2, <2>3
<1>3. QED
  BY <1>1, <1>2

\* What the sweep writes: the session as it was, or one stage older.
LEMMA CheckTtl ==
    ASSUME NEW x \in SessionState, Coherent(x), NEW t \in Nat
    PROVE  /\ check_ttl(x, t) \in SessionState
           /\ Coherent(check_ttl(x, t))
           /\ check_ttl(x, t).seen_event_ids = x.seen_event_ids
           /\ ~Overdue(x, t) => check_ttl(x, t) = x
           /\ Overdue(x, t) =>
                /\ x.state # "Idle"
                /\ check_ttl(x, t).updated_at = t
                /\ check_ttl(x, t).state = IF x.state = "Unknown" THEN "Idle" ELSE "Unknown"
<1> DEFINE nx == IF x.state = "Unknown" THEN "Idle" ELSE "Unknown"
<1>1. CASE ~Overdue(x, t)
  BY <1>1 DEF check_ttl
<1>2. CASE Overdue(x, t)
  <2>1. check_ttl(x, t) = [state |-> nx, error_type |-> NoError, updated_at |-> t,
                           ttl |-> ttl_duration(nx), seen_event_ids |-> x.seen_event_ids]
    BY <1>2 DEF check_ttl, SessionState
  <2>2. nx \in AgentState /\ ttl_duration(nx) \in Nat /\ nx # "Error"
    BY TableTypes DEF AgentState
  <2>3. x.seen_event_ids \in SUBSET EventId /\ x.state # "Idle"
    BY <1>2 DEF SessionState, Overdue
  <2>4. check_ttl(x, t) \in SessionState
    BY <2>1, <2>2, <2>3 DEF SessionState
  <2>5. Coherent(check_ttl(x, t))
    BY <2>1, <2>2 DEF Coherent
  <2>6. QED
    BY <1>2, <2>1, <2>3, <2>4, <2>5
<1>3. QED
  BY <1>1, <1>2

LEMMA ExtendHeartbeat ==
    ASSUME NEW x \in SessionState, Coherent(x), NEW t \in Nat
    PROVE  /\ extend_heartbeat(x, t) \in SessionState
           /\ Coherent(extend_heartbeat(x, t))
           /\ extend_heartbeat(x, t).state = x.state
           /\ extend_heartbeat(x, t).seen_event_ids = x.seen_event_ids
           /\ extend_heartbeat(x, t) # x => extend_heartbeat(x, t).updated_at = t
<1>1. x.state \in AgentState /\ ttl_duration(x.state) \in Nat
  BY TableTypes DEF SessionState
<1>2. QED
  BY <1>1 DEF extend_heartbeat, Coherent, SessionState

-----------------------------------------------------------------------------
(* The inductive invariant.  SessionConsistent alone is not inductive: a    *)
(* step is only known to write well-formed sessions when the old ones are;  *)
(* ParentMapClosed needs to know which sessions are live.                   *)

EngineInv == TypeOK /\ SessionConsistent /\ ParentMapClosed

LEMMA InitInv == Init => EngineInv
<1> SUFFICES ASSUME Init PROVE EngineInv
  OBVIOUS
<1>1. TypeOK
  BY DEF Init, TypeOK
<1>2. Live = {}
  BY DEF Init, Live
<1>3. SessionConsistent /\ ParentMapClosed
  BY <1>2 DEF Init, SessionConsistent, ParentMapClosed
<1>4. QED
  BY <1>1, <1>3 DEF EngineInv

\* An entry that is in the registry is a coherent session.
LEMMA LiveSession ==
    ASSUME EngineInv, NEW s \in Live
    PROVE  /\ s \in SessionId /\ sessions[s] \in SessionState /\ sessions[s] # NoSession
           /\ Coherent(sessions[s]) /\ sessions[s].seen_event_ids # {}
  BY DEF EngineInv, TypeOK, SessionConsistent, Live

\* ingest touches the entry of its own session and nothing else.
LEMMA IngestEffect ==
    ASSUME EngineInv, NEW e \in Event, ingest(e)
    PROVE  /\ e.session \in SessionId
           /\ sessions[e.session] \in SessionState \cup {NoSession}
           /\ sessions[e.session] # NoSession =>
                 Coherent(sessions[e.session]) /\ sessions[e.session].seen_event_ids # {}
           /\ sessions'[e.session] = ingested(sessions[e.session], e, now)
           /\ sessions'[e.session] \in SessionState
           /\ Coherent(sessions'[e.session])
           /\ sessions'[e.session].seen_event_ids # {}
           /\ \A s \in SessionId \ {e.session} : sessions'[s] = sessions[s]
           /\ now' = now
<1>1. e.session \in SessionId /\ now \in Nat
  BY DEF Event, EngineInv, TypeOK
<1>2. /\ sessions[e.session] \in SessionState \cup {NoSession}
      /\ sessions[e.session] # NoSession =>
            Coherent(sessions[e.session]) /\ sessions[e.session].seen_event_ids # {}
  BY <1>1 DEF EngineInv, TypeOK, SessionConsistent, Live
<1>3. /\ sessions' = [sessions EXCEPT ![e.session] = ingested(sessions[e.session], e, now)]
      /\ DOMAIN sessions = SessionId
      /\ now' = now
  BY DEF ingest, EngineInv, TypeOK
<1>4. sessions'[e.session] = ingested(sessions[e.session], e, now)
  BY <1>1, <1>3
<1>5. QED
  BY <1>1, <1>2, <1>3, <1>4, IngestedSession

LEMMA IngestInv ==
    ASSUME EngineInv, NEW e \in Event, ingest(e)
    PROVE  EngineInv'
<1>1. /\ e.session \in SessionId
      /\ sessions'[e.session] \in SessionState
      /\ Coherent(sessions'[e.session])
      /\ sessions'[e.session].seen_event_ids # {}
      /\ \A s \in SessionId \ {e.session} : sessions'[s] = sessions[s]
      /\ now' = now
  BY IngestEffect
<1>2. /\ sessions \in [SessionId -> SessionState \cup {NoSession}]
      /\ parent_map \in [SessionId -> SessionId \cup {NoParent}]
      /\ now \in Nat
      /\ e.parent \in SessionId \cup {NoParent}
  BY DEF EngineInv, TypeOK, Event
<1>3. sessions' \in [SessionId -> SessionState \cup {NoSession}]
  <2>1. sessions' = [sessions EXCEPT ![e.session] = sessions'[e.session]]
    BY <1>1, <1>2 DEF ingest
  <2>2. QED
    BY <1>1, <1>2, <2>1
<1>4. parent_map' = linked(parent_map, e)
  BY DEF ingest
<1>5. parent_map' \in [SessionId -> SessionId \cup {NoParent}]
  BY <1>1, <1>2, <1>4 DEF linked
<1>6. TypeOK'
  BY <1>1, <1>2, <1>3, <1>5 DEF TypeOK
<1>7. Live' = Live \cup {e.session}
  BY <1>1, NoSessionAssumption DEF Live
<1>8. SessionConsistent'
  BY <1>1, <1>7 DEF SessionConsistent, EngineInv, Coherent, Live
<1>9. ParentMapClosed'
  <2> SUFFICES ASSUME NEW c \in SessionId, parent_map'[c] # NoParent
               PROVE  c \in Live' /\ parent_map'[c] # c
    BY DEF ParentMapClosed
  <2>1. CASE parent_map'[c] = parent_map[c]
    BY <2>1, <1>7 DEF EngineInv, ParentMapClosed
  <2>2. CASE parent_map'[c] # parent_map[c]
    BY <2>2, <1>1, <1>2, <1>4, <1>7 DEF linked
  <2>3. QED
    BY <2>1, <2>2
<1>10. QED
  BY <1>6, <1>8, <1>9 DEF EngineInv

\* The sweep: what becomes of each entry.
LEMMA SweepEffect ==
    ASSUME EngineInv, expire_ttls, NEW s \in SessionId
    PROVE  /\ s \notin Live => sessions'[s] = NoSession
           /\ s \in expired_ids(now) => s \in Live /\ sessions'[s] = NoSession
                                        /\ Overdue(sessions[s], now)
                                        /\ sessions[s].state = "Unknown"
                                        /\ \A c \in SessionId : parent_map[c] # s
           /\ s \in Live \ expired_ids(now) => sessions'[s] = check_ttl(sessions[s], now)
           /\ parent_map'[s] = IF s \in expired_ids(now) THEN NoParent ELSE parent_map[s]
           /\ now' = now
<1>1. /\ sessions'[s] = IF s \notin Live \/ s \in expired_ids(now) THEN NoSession
                        ELSE check_ttl(sessions[s], now)
      /\ parent_map'[s] = IF s \in expired_ids(now) THEN NoParent ELSE parent_map[s]
      /\ now' = now
  BY DEF expire_ttls, unlinked
<1>2. ASSUME s \in expired_ids(now)
      PROVE  /\ s \in Live /\ Overdue(sessions[s], now) /\ sessions[s].state = "Unknown"
             /\ \A c \in SessionId : parent_map[c] # s
  <2>1. /\ s \in Live /\ Overdue(sessions[s], now)
        /\ check_ttl(sessions[s], now).state = "Idle"
        /\ \A c \in SessionId : parent_map[c] # s
    BY <1>2 DEF expired_ids
  <2>2. sessions[s] \in SessionState /\ Coherent(sessions[s]) /\ now \in Nat
    BY <2>1, LiveSession DEF EngineInv, TypeOK
  <2>3. check_ttl(sessions[s], now).state = IF sessions[s].state = "Unknown" THEN "Idle"
                                            ELSE "Unknown"
    BY <2>1, <2>2, CheckTtl
  <2>4. QED
    BY <2>1, <2>3
<1>3. QED
  BY <1>1, <1>2

LEMMA SweepInv ==
    ASSUME EngineInv, expire_ttls
    PROVE  EngineInv'
<1>1. ASSUME NEW s \in SessionId
      PROVE  /\ sessions'[s] \in SessionState \cup {NoSession}
             /\ sessions'[s] # NoSession => /\ s \in Live \ expired_ids(now)
                                            /\ Coherent(sessions'[s])
                                            /\ sessions'[s].seen_event_ids # {}
             /\ s \in Live \ expired_ids(now) => sessions'[s] # NoSession
  <2>1. CASE s \in Live \ expired_ids(now)
    <3>1. /\ sessions[s] \in SessionState /\ Coherent(sessions[s])
          /\ sessions[s].seen_event_ids # {} /\ now \in Nat
      BY <2>1, LiveSession DEF EngineInv, TypeOK
    <3>2. sessions'[s] = check_ttl(sessions[s], now)
      BY <2>1, SweepEffect
    <3>3. QED
      BY <2>1, <3>1, <3>2, CheckTtl, NoSessionAssumption
  <2>2. CASE s \notin Live \ expired_ids(now)
    BY <2>2, SweepEffect
  <2>3. QED
    BY <2>1, <2>2
<1>2. TypeOK'
  <2>1. /\ sessions' = [s \in SessionId |-> sessions'[s]]
        /\ parent_map' = [s \in SessionId |-> IF s \in expired_ids(now) THEN NoParent
                                              ELSE parent_map[s]]
        /\ now' = now
    BY DEF expire_ttls, unlinked
  <2>2. sessions' \in [SessionId -> SessionState \cup {NoSession}]
    BY <1>1, <2>1
  <2>3. parent_map' \in [SessionId -> SessionId \cup {NoParent}]
    BY <2>1 DEF EngineInv, TypeOK
  <2>4. QED
    BY <2>1, <2>2, <2>3 DEF TypeOK, EngineInv
<1>3. Live' = Live \ expired_ids(now)
  BY <1>1 DEF Live
<1>4. SessionConsistent'
  BY <1>1, <1>3 DEF SessionConsistent, Coherent, Live
<1>5. ParentMapClosed'
  <2> SUFFICES ASSUME NEW c \in SessionId, parent_map'[c] # NoParent
               PROVE  c \in Live' /\ parent_map'[c] # c
    BY DEF ParentMapClosed
  <2>1. c \notin expired_ids(now) /\ parent_map'[c] = parent_map[c]
    BY SweepEffect
  <2>2. QED
    BY <1>3, <2>1 DEF EngineInv, ParentMapClosed
<1>6. QED
  BY <1>2, <1>4, <1>5 DEF EngineInv

LEMMA HeartbeatInv ==
    ASSUME EngineInv, NEW h \in SessionId, heartbeat(h)
    PROVE  EngineInv'
<1>1. /\ h \in Live
      /\ sessions' = [sessions EXCEPT ![h] = extend_heartbeat(sessions[h], now)]
      /\ parent_map' = parent_map /\ now' = now
  BY DEF heartbeat
<1>2. /\ sessions \in [SessionId -> SessionState \cup {NoSession}]
      /\ now \in Nat
  BY DEF EngineInv, TypeOK
<1>3. /\ sessions'[h] \in SessionState /\ Coherent(sessions'[h])
      /\ sessions'[h].seen_event_ids # {}
  <2>1. sessions'[h] = extend_heartbeat(sessions[h], now)
    BY <1>1, <1>2
  <2>2. QED
    BY <1>1, <1>2, <2>1, LiveSession, ExtendHeartbeat
<1>4. TypeOK'
  <2>1. sessions' = [sessions EXCEPT ![h] = sessions'[h]]
    BY <1>1, <1>2
  <2>2. QED
    BY <1>1, <1>2, <1>3, <2>1 DEF EngineInv, TypeOK
<1>5. Live' = Live
  BY <1>1, <1>2, <1>3, NoSessionAssumption DEF Live
<1>6. SessionConsistent'
  BY <1>1, <1>2, <1>3, <1>5 DEF SessionConsistent, EngineInv, Coherent, Live
<1>7. ParentMapClosed'
  BY <1>1, <1>5 DEF ParentMapClosed, EngineInv
<1>8. QED
  BY <1>4, <1>6, <1>7 DEF EngineInv

\* A step leaves every entry alone when the registry does not change.
LEMMA IdleInv ==
    ASSUME EngineInv, UNCHANGED <<sessions, parent_map>>, now' \in Nat
    PROVE  EngineInv'
  BY DEF EngineInv, TypeOK, SessionConsistent, ParentMapClosed, Coherent, Live

LEMMA InputsAreEvents == Inputs \subseteq Event
  BY EngineAssumption DEF Inputs, Event

LEMMA NextInv == EngineInv /\ [Next]_vars => EngineInv'
<1> SUFFICES ASSUME EngineInv, [Next]_vars PROVE EngineInv'
  OBVIOUS
<1>1. CASE Receive
  BY <1>1, IngestInv, InputsAreEvents DEF Receive
<1>2. CASE expire_ttls
  BY <1>2, SweepInv
<1>3. CASE Renew
  BY <1>3, HeartbeatInv DEF Renew
<1>4. CASE Tick
  BY <1>4, IdleInv, EngineAssumption DEF Tick
<1>5. CASE UNCHANGED vars
  BY <1>5, IdleInv DEF vars, EngineInv, TypeOK
<1>6. QED
  BY <1>1, <1>2, <1>3, <1>4, <1>5 DEF Next

THEOREM EngineInvariant == Spec => []EngineInv
  BY InitInv, NextInv, PTL DEF Spec

\* Every field of the registry keeps its type.
THEOREM TypeCorrect == Spec => []TypeOK
<1>1. EngineInv => TypeOK
  BY DEF EngineInv
<1>2. QED
  BY <1>1, EngineInvariant, PTL

\* The four fields of every session stay in step.
THEOREM SessionsConsistent == Spec => []SessionConsistent
<1>1. EngineInv => SessionConsistent
  BY DEF EngineInv
<1>2. QED
  BY <1>1, EngineInvariant, PTL

\* Parent links start at live sessions and never loop on one.
THEOREM ParentLinksClosed == Spec => []ParentMapClosed
<1>1. EngineInv => ParentMapClosed
  BY DEF EngineInv
<1>2. QED
  BY <1>1, EngineInvariant, PTL

-----------------------------------------------------------------------------
(* Action properties                                                       *)

\* How one step changes one session: not at all; by an event it had not
\* counted; by the sweep when overdue; or by a heartbeat.
Untouched(s)  == sessions'[s] = sessions[s]
Counted(s)    == \E e \in Event :
                    /\ e.event_id \notin sessions[s].seen_event_ids
                    /\ sessions'[s] = apply(sessions[s], e)
Aged(s)       == Overdue(sessions[s], now) /\ sessions'[s] = check_ttl(sessions[s], now)
Renewed(s)    == sessions'[s] = extend_heartbeat(sessions[s], now)

LEMMA StepCases ==
    ASSUME EngineInv, [Next]_vars, NEW s \in Live, s \in Live'
    PROVE  Untouched(s) \/ Counted(s) \/ Aged(s) \/ Renewed(s)
<1>0. s \in SessionId /\ sessions[s] \in SessionState /\ sessions[s] # NoSession
      /\ Coherent(sessions[s]) /\ now \in Nat
  BY LiveSession DEF EngineInv, TypeOK
<1>1. CASE Receive
  <2>1. PICK e \in Event : ingest(e)
    BY <1>1, InputsAreEvents DEF Receive
  <2>2. CASE s # e.session
    BY <1>0, <2>1, <2>2, IngestEffect DEF Untouched
  <2>3. CASE s = e.session
    <3>1. sessions'[s] = apply(sessions[s], e)
      BY <1>0, <2>1, <2>3, IngestEffect DEF ingested
    <3>2. QED
      BY <3>1, ApplySeen DEF Untouched, Counted
  <2>4. QED
    BY <2>2, <2>3
<1>2. CASE expire_ttls
  <2>1. s \notin expired_ids(now)
    BY <1>0, <1>2, SweepEffect DEF Live
  <2>2. sessions'[s] = check_ttl(sessions[s], now)
    BY <1>0, <1>2, <2>1, SweepEffect
  <2>3. QED
    BY <1>0, <2>2, CheckTtl DEF Untouched, Aged
<1>3. CASE Renew
  <2>1. PICK h \in SessionId : heartbeat(h)
    BY <1>3 DEF Renew
  <2>2. sessions' = [sessions EXCEPT ![h] = extend_heartbeat(sessions[h], now)]
        /\ sessions \in [SessionId -> SessionState \cup {NoSession}]
    BY <2>1 DEF heartbeat, EngineInv, TypeOK
  <2>3. QED
    BY <1>0, <2>2 DEF Untouched, Renewed
<1>4. CASE Tick \/ UNCHANGED vars
  BY <1>4 DEF Tick, vars, Untouched
<1>5. QED
  BY <1>1, <1>2, <1>3, <1>4 DEF Next

\* An event whose arrival makes a session lose rank is the session's, of a type
\* that forces the state, and was not counted before.
LEMMA IngestDowngrade ==
    ASSUME EngineInv, NEW e \in Event, ingest(e), NEW s \in Live,
           priority(sessions'[s].state) < priority(sessions[s].state)
    PROVE  /\ e.session = s /\ e.event_type \in ForcedEvent
           /\ e.event_id \notin sessions[s].seen_event_ids
<1> DEFINE x == sessions[s]
<1>1. x \in SessionState /\ x # NoSession /\ Coherent(x) /\ s \in SessionId
  BY LiveSession
<1>2. x.state \in AgentState /\ priority(x.state) \in Nat
  BY <1>1, TableTypes DEF SessionState
<1>3. e.session = s
  <2>1. SUFFICES ASSUME e.session # s PROVE FALSE
    OBVIOUS
  <2>2. sessions'[s] = x
    BY <1>1, <2>1, IngestEffect
  <2>3. QED
    BY <1>2, <2>2
<1>4. sessions'[s] = apply(x, e)
  BY <1>1, <1>3, IngestEffect DEF ingested
<1>5. e.event_id \notin x.seen_event_ids
  BY <1>2, <1>4, ApplySeen
<1>6. apply(x, e).state = EffectiveState(x, e)
  BY <1>1, <1>5, ApplyFresh
<1>7. EffectiveState(x, e) \in AgentState /\ priority(EffectiveState(x, e)) \in Nat
  BY <1>1, EffectiveStateCases, TableTypes
<1>8. e.event_type \in ForcedEvent
  BY <1>1, <1>2, <1>4, <1>6, <1>7, EffectiveStateCases
<1>9. QED
  BY <1>3, <1>5, <1>8

\* No live session comes down in rank except in a sweep that finds it overdue or
\* by an event of a forcing type that it had not counted: no other event makes
\* such a step.
THEOREM DowngradesForcedOrExpired == Spec => NoUnforcedDowngrade
<1>1. EngineInv /\ [Next]_vars =>
        \A s \in Live \cap Live' :
          priority(sessions'[s].state) < priority(sessions[s].state) =>
              \/ expire_ttls /\ Overdue(sessions[s], now)
              \/ Forced(s)
  <2> SUFFICES ASSUME EngineInv, [Next]_vars, NEW s \in Live, s \in Live',
                      priority(sessions'[s].state) < priority(sessions[s].state)
               PROVE  (expire_ttls /\ Overdue(sessions[s], now)) \/ Forced(s)
    OBVIOUS
  <2>1. /\ sessions[s] \in SessionState /\ sessions[s] # NoSession /\ now \in Nat
        /\ s \in SessionId
    BY LiveSession DEF EngineInv, TypeOK
  <2>2. priority(sessions[s].state) \in Nat
    BY <2>1, TableTypes DEF SessionState
  <2>3. sessions'[s] # sessions[s]
    BY <2>2
  <2>4. CASE Receive
    <3>1. ASSUME NEW e \in Inputs, ingest(e)
          PROVE  /\ e.session = s /\ e.event_type \in ForcedEvent
                 /\ e.event_id \notin sessions[s].seen_event_ids
      BY <3>1, InputsAreEvents, IngestDowngrade
    <3>2. QED
      BY <2>4, <3>1 DEF Forced
  <2>5. CASE expire_ttls
    <3>1. s \notin expired_ids(now)
      BY <2>1, <2>5, SweepEffect DEF Live
    <3>2. sessions'[s] = check_ttl(sessions[s], now)
      BY <2>1, <2>5, <3>1, SweepEffect
    <3>3. Coherent(sessions[s])
      BY LiveSession
    <3>4. QED
      BY <2>1, <2>3, <2>5, <3>2, <3>3, CheckTtl
  <2>6. CASE Renew
    <3>1. PICK h \in SessionId : heartbeat(h)
      BY <2>6 DEF Renew
    <3>2. /\ sessions' = [sessions EXCEPT ![h] = extend_heartbeat(sessions[h], now)]
          /\ sessions \in [SessionId -> SessionState \cup {NoSession}]
      BY <3>1 DEF heartbeat, EngineInv, TypeOK
    <3>3. sessions'[s] = extend_heartbeat(sessions[s], now)
      BY <2>1, <2>3, <3>2
    <3>4. sessions'[s].state = sessions[s].state
      BY <2>1, <3>3, LiveSession, ExtendHeartbeat
    <3>5. QED
      BY <2>2, <3>4
  <2>7. CASE Tick \/ UNCHANGED vars
    BY <2>3, <2>7 DEF Tick, vars
  <2>8. QED
    BY <2>4, <2>5, <2>6, <2>7 DEF Next
<1>2. QED
  BY <1>1, EngineInvariant, PTL DEF Spec, NoUnforcedDowngrade

\* Only the sweep removes a session: past its Unknown stage and without children.
THEOREM ParentsOutliveChildren == Spec => ParentOutlivesChildren
<1>1. EngineInv /\ [Next]_vars =>
        \A p \in SessionId :
          p \in Live /\ p \notin Live' => /\ sessions[p].state = "Unknown"
                                         /\ children(p) = {}
  <2> SUFFICES ASSUME EngineInv, [Next]_vars, NEW p \in SessionId, p \in Live, p \notin Live'
               PROVE  sessions[p].state = "Unknown" /\ children(p) = {}
    OBVIOUS
  <2>0. /\ sessions[p] # NoSession /\ sessions'[p] = NoSession
        /\ sessions[p] \in SessionState /\ Coherent(sessions[p]) /\ now \in Nat
    BY LiveSession DEF Live, EngineInv, TypeOK
  <2>1. CASE Receive
    <3>1. PICK e \in Event : ingest(e)
      BY <2>1, InputsAreEvents DEF Receive
    <3>2. sessions'[p] = sessions[p] \/ sessions'[p] \in SessionState
      BY <3>1, IngestEffect
    <3>3. QED
      BY <2>0, <3>2, NoSessionAssumption
  <2>2. CASE expire_ttls
    <3>1. p \in expired_ids(now)
      <4>1. SUFFICES ASSUME p \notin expired_ids(now) PROVE FALSE
        OBVIOUS
      <4>2. sessions'[p] = check_ttl(sessions[p], now)
        BY <2>2, <4>1, SweepEffect
      <4>3. QED
        BY <2>0, <4>2, CheckTtl, NoSessionAssumption
    <3>2. QED
      BY <2>2, <3>1, SweepEffect DEF children, Live
  <2>3. CASE Renew
    <3>1. PICK h \in SessionId : heartbeat(h)
      BY <2>3 DEF Renew
    <3>2. /\ sessions' = [sessions EXCEPT ![h] = extend_heartbeat(sessions[h], now)]
          /\ sessions \in [SessionId -> SessionState \cup {NoSession}]
      BY <3>1 DEF heartbeat, EngineInv, TypeOK
    <3>3. QED
      BY <2>0, <3>2, ExtendHeartbeat, NoSessionAssumption
  <2>4. CASE Tick \/ UNCHANGED vars
    BY <2>0, <2>4 DEF Tick, vars
  <2>5. QED
    BY <2>1, <2>2, <2>3, <2>4 DEF Next
<1>2. QED
  BY <1>1, EngineInvariant, PTL DEF Spec, ParentOutlivesChildren

\* Without a newly counted event id only the daemon's clock touches a session.
THEOREM ReplaysAreNoops == Spec => ReplayIsNoop
<1> DEFINE Noop(s) ==
      LET old == sessions[s] next == sessions'[s] IN
      next.seen_event_ids = old.seen_event_ids /\ next # old =>
          /\ next.updated_at = now
          /\ next.state = old.state \/ Overdue(old, now)
<1>1. EngineInv /\ [Next]_vars => \A s \in Live \cap Live' : Noop(s)
  <2> SUFFICES ASSUME EngineInv, [Next]_vars, NEW s \in Live, s \in Live' PROVE Noop(s)
    OBVIOUS
  <2>1. sessions[s] \in SessionState /\ Coherent(sessions[s]) /\ now \in Nat
    BY LiveSession DEF EngineInv, TypeOK
  <2>2. CASE Untouched(s)
    BY <2>2 DEF Untouched
  <2>3. CASE Counted(s)
    BY <2>1, <2>3, ApplyFresh DEF Counted
  <2>4. CASE Aged(s)
    BY <2>1, <2>4, CheckTtl DEF Aged
  <2>5. CASE Renewed(s)
    BY <2>1, <2>5, ExtendHeartbeat DEF Renewed
  <2>6. QED
    BY <2>2, <2>3, <2>4, <2>5, StepCases
<1>2. QED
  BY <1>1, EngineInvariant, PTL DEF Spec, ReplayIsNoop

-----------------------------------------------------------------------------
(* The engine implements SessionLifecycle                                   *)

\* The abstract module's tables are the engine's.
LEMMA SameTables ==
    /\ Lifecycle!AgentState = AgentState
    /\ \A st \in AgentState : Lifecycle!priority(st) = priority(st)
    /\ Lifecycle!ForcedState = {state_from_event(e, FALSE) : e \in ForcedEvent}
<1>1. Lifecycle!AgentState = AgentState /\ Lifecycle!ForcedEvent = ForcedEvent
  BY DEF Lifecycle!AgentState, AgentState, Lifecycle!ForcedEvent, ForcedEvent
<1>2. \A st \in AgentState : Lifecycle!priority(st) = priority(st)
  BY DEF Lifecycle!priority, priority, AgentState
<1>3. \A e \in ForcedEvent :
        Lifecycle!state_from_event(e, FALSE) = state_from_event(e, FALSE)
  BY DEF Lifecycle!state_from_event, state_from_event, Lifecycle!FailureEvent, FailureEvent,
         ForcedEvent
<1>4. QED
  BY <1>1, <1>2, <1>3 DEF Lifecycle!ForcedState

\* What is shown of a session in a step that may change it.
LEMMA ShownState ==
    ASSUME EngineInv, NEW s \in SessionId
    PROVE  /\ s \in Live => shown[s] = sessions[s].state /\ shown[s] \in AgentState
           /\ s \notin Live => shown[s] = "Absent"
           /\ "Absent" \notin AgentState
  BY LiveSession DEF shown, get_state, SessionState, AgentState, Live

LEMMA ShownStateNext ==
    ASSUME EngineInv', NEW s \in SessionId
    PROVE  /\ s \in Live' => shown'[s] = sessions'[s].state /\ shown'[s] \in AgentState
           /\ s \notin Live' => shown'[s] = "Absent"
  BY DEF shown, get_state, SessionState, AgentState, EngineInv, TypeOK, Live

\* An event makes its session appear, climb, be forced, or stay.
LEMMA IngestRefines ==
    ASSUME EngineInv, EngineInv', NEW e \in Event, ingest(e)
    PROVE  \/ shown' = shown
           \/ \E st \in AgentState : \/ Lifecycle!Appear(e.session, st)
                                     \/ Lifecycle!Raise(e.session, st)
                                     \/ Lifecycle!Force(e.session, st)
<1> DEFINE x == e.session
<1> DEFINE st == sessions'[x].state
<1>0. /\ x \in SessionId
      /\ sessions'[x] = ingested(sessions[x], e, now)
      /\ sessions'[x] \in SessionState
      /\ \A s \in SessionId \ {x} : sessions'[s] = sessions[s]
      /\ now \in Nat
  BY IngestEffect DEF EngineInv, TypeOK
<1>1. x \in Live' /\ \A s \in SessionId \ {x} : shown'[s] = shown[s]
  BY <1>0, NoSessionAssumption DEF shown, get_state, Live
<1>2. st \in AgentState /\ shown'[x] = st
  BY <1>0, <1>1, ShownStateNext
<1>3. shown' = [shown EXCEPT ![x] = st]
  BY <1>0, <1>1, <1>2 DEF shown
<1>4. /\ e.event_type \in EventType /\ is_risk(e) \in BOOLEAN
  BY EngineAssumption DEF Event, is_risk
<1>5. CASE x \in Live
  <2>1. /\ sessions[x] \in SessionState /\ Coherent(sessions[x])
        /\ shown[x] = sessions[x].state /\ shown[x] \in AgentState /\ shown[x] # "Absent"
        /\ sessions'[x] = apply(sessions[x], e)
    BY <1>0, <1>5, LiveSession, ShownState DEF ingested
  <2>2. CASE e.event_id \in sessions[x].seen_event_ids
    <3>1. st = shown[x]
      BY <2>1, <2>2, ApplySeen
    <3>2. QED
      BY <1>3, <3>1 DEF shown
  <2>3. CASE e.event_id \notin sessions[x].seen_event_ids
    <3>1. st = EffectiveState(sessions[x], e)
      BY <2>1, <2>3, ApplyFresh
    <3>2. \/ st = shown[x]
          \/ priority(st) > priority(shown[x])
          \/ e.event_type \in ForcedEvent /\ st = state_from_event(e.event_type, is_risk(e))
      BY <2>1, <3>1, EffectiveStateCases
    <3>3. CASE st = shown[x]
      BY <1>3, <3>3 DEF shown
    <3>4. CASE priority(st) > priority(shown[x])
      <4>1. Lifecycle!Raise(x, st)
        BY <1>2, <1>3, <2>1, <3>4, SameTables DEF Lifecycle!Raise
      <4>2. QED
        BY <1>2, <4>1
    <3>5. CASE e.event_type \in ForcedEvent /\ st = state_from_event(e.event_type, is_risk(e))
      <4>1. st = state_from_event(e.event_type, FALSE)
        BY <1>4, <3>5, StateFromEvent
      <4>2. st \in Lifecycle!ForcedState
        BY <3>5, <4>1, SameTables
      <4>3. Lifecycle!Force(x, st)
        BY <1>3, <2>1, <4>2 DEF Lifecycle!Force
      <4>4. QED
        BY <1>2, <4>3
    <3>6. QED
      BY <3>2, <3>3, <3>4, <3>5
  <2>4. QED
    BY <2>2, <2>3
<1>6. CASE x \notin Live
  <2>1. shown[x] = "Absent" /\ sessions'[x] = apply(new(now), e)
    BY <1>0, <1>6, ShownState DEF ingested, Live
  <2>2. /\ new(now) \in SessionState /\ Coherent(new(now))
        /\ e.event_id \notin new(now).seen_event_ids /\ new(now).state = "Idle"
    BY <1>0, NewSession DEF new
  <2>3. st = EffectiveState(new(now), e)
    BY <2>1, <2>2, ApplyFresh
  <2>4. \/ st = "Idle"
        \/ priority(st) > priority("Idle")
        \/ e.event_type \in ForcedEvent /\ st = state_from_event(e.event_type, is_risk(e))
    BY <2>2, <2>3, EffectiveStateCases
  <2>5. st \in Lifecycle!ForcedState \/ priority(st) >= priority("Idle")
    <3>1. CASE e.event_type \in ForcedEvent /\ st = state_from_event(e.event_type, is_risk(e))
      <4>1. st = state_from_event(e.event_type, FALSE)
        BY <1>4, <3>1, StateFromEvent
      <4>2. QED
        BY <3>1, <4>1, SameTables
    <3>2. CASE st = "Idle" \/ priority(st) > priority("Idle")
      <4>1. priority("Idle") = 2 /\ priority(st) \in Nat
        <5>1. priority("Idle") = 2
          BY DEF priority
        <5>2. QED
          BY <1>2, <5>1, TableTypes
      <4>2. CASE st = "Idle"
        BY <4>1, <4>2
      <4>3. CASE priority(st) > priority("Idle")
        BY <4>1, <4>3
      <4>4. QED
        BY <3>2, <4>2, <4>3
    <3>3. QED
      BY <2>4, <3>1, <3>2
  <2>6. Lifecycle!Appear(x, st)
    <3>1. "Idle" \in AgentState
      BY DEF AgentState
    <3>2. QED
      BY <1>2, <1>3, <2>1, <2>5, <3>1, SameTables DEF Lifecycle!Appear
  <2>7. QED
    BY <1>2, <2>6
<1>7. QED
  BY <1>5, <1>6

\* The sweep ages each session by at most one stage.
LEMMA SweepRefines ==
    ASSUME EngineInv, EngineInv', expire_ttls
    PROVE  Lifecycle!Sweep
<1>1. ASSUME NEW s \in SessionId
      PROVE  shown'[s] \in Lifecycle!AgedFrom(shown[s])
  <2>0. now \in Nat /\ "Absent" \notin AgentState
    BY DEF EngineInv, TypeOK, AgentState
  <2>1. CASE s \notin Live
    <3>1. s \notin Live'
      BY <2>1, SweepEffect DEF Live
    <3>2. shown[s] = "Absent" /\ shown'[s] = "Absent"
      BY <2>1, <3>1, ShownState, ShownStateNext
    <3>3. QED
      BY <3>2, <2>0, SameTables DEF Lifecycle!AgedFrom, AgentState
  <2>2. CASE s \in expired_ids(now)
    <3>1. s \in Live /\ sessions[s].state = "Unknown" /\ s \notin Live'
      BY <2>2, SweepEffect DEF Live
    <3>2. shown[s] = "Unknown" /\ shown'[s] = "Absent"
      BY <3>1, ShownState, ShownStateNext
    <3>3. QED
      BY <3>2, SameTables DEF Lifecycle!AgedFrom, AgentState
  <2>3. CASE s \in Live \ expired_ids(now)
    <3>1. /\ sessions[s] \in SessionState /\ Coherent(sessions[s])
          /\ sessions'[s] = check_ttl(sessions[s], now)
      BY <2>3, LiveSession, SweepEffect
    <3>2. s \in Live'
      BY <2>0, <3>1, CheckTtl, NoSessionAssumption DEF Live
    <3>3. /\ shown[s] = sessions[s].state /\ shown[s] \in AgentState
          /\ shown'[s] = sessions'[s].state
      BY <2>3, <3>2, ShownState, ShownStateNext
    <3>4. \/ shown'[s] = shown[s]
          \/ shown[s] = "Unknown" /\ shown'[s] = "Idle"
          \/ shown[s] \notin {"Idle", "Unknown"} /\ shown'[s] = "Unknown"
      <4>1. CASE Overdue(sessions[s], now)
        BY <2>0, <3>1, <3>3, <4>1, CheckTtl
      <4>2. CASE ~Overdue(sessions[s], now)
        BY <2>0, <3>1, <3>3, <4>2, CheckTtl
      <4>3. QED
        BY <4>1, <4>2
    <3>5. QED
      BY <3>3, <3>4, SameTables DEF Lifecycle!AgedFrom, AgentState
  <2>4. QED
    BY <2>1, <2>2, <2>3
<1>2. shown' \in [SessionId -> AgentState \cup {"Absent"}]
  <2>1. \A s \in SessionId : shown'[s] \in AgentState \cup {"Absent"}
    BY ShownStateNext
  <2>2. QED
    BY <2>1 DEF shown
<1>3. QED
  BY <1>1, <1>2, SameTables DEF Lifecycle!Sweep

\* Every step of the engine is a step of SessionLifecycle or leaves what is
\* shown alone.
THEOREM EngineImplementsLifecycle == Spec => LifecycleSpec
<1>1. Init => Lifecycle!LInit
  BY DEF Init, Lifecycle!LInit, shown, get_state, Live
<1>2. EngineInv /\ EngineInv' /\ [Next]_vars => [Lifecycle!LNext]_shown
  <2> SUFFICES ASSUME EngineInv, EngineInv', [Next]_vars PROVE Lifecycle!LNext \/ shown' = shown
    OBVIOUS
  <2>1. CASE Receive
    <3>1. PICK e \in Event : ingest(e)
      BY <2>1, InputsAreEvents DEF Receive
    <3>2. e.session \in SessionId
      BY DEF Event
    <3>3. QED
      BY <3>1, <3>2, IngestRefines, SameTables DEF Lifecycle!LNext
  <2>2. CASE expire_ttls
    BY <2>2, SweepRefines DEF Lifecycle!LNext
  <2>3. CASE Renew
    <3>1. PICK h \in SessionId : heartbeat(h)
      BY <2>3 DEF Renew
    <3>2. /\ h \in Live
          /\ sessions' = [sessions EXCEPT ![h] = extend_heartbeat(sessions[h], now)]
          /\ sessions \in [SessionId -> SessionState \cup {NoSession}]
          /\ now \in Nat
      BY <3>1 DEF heartbeat, EngineInv, TypeOK
    <3>3. sessions'[h].state = sessions[h].state /\ sessions'[h] \in SessionState
      BY <3>2, LiveSession, ExtendHeartbeat
    <3>4. \A s \in SessionId : (s \in Live' <=> s \in Live)
                               /\ (s \in Live => sessions'[s].state = sessions[s].state)
      BY <3>2, <3>3, NoSessionAssumption DEF Live
    <3>5. QED
      BY <3>4 DEF shown, get_state, Live
  <2>4. CASE Tick \/ UNCHANGED vars
    BY <2>4 DEF Tick, vars, shown, get_state, Live
  <2>5. QED
    BY <2>1, <2>2, <2>3, <2>4 DEF Next
<1>3. QED
  BY <1>1, <1>2, EngineInvariant, PTL DEF Spec, LifecycleSpec, Lifecycle!LSpec
=============================================================================

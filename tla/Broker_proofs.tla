---------------------------- MODULE Broker_proofs ----------------------------
(***************************************************************************)
(* The safety properties of Broker for every set of sessions, frames and   *)
(* panes, every channel capacity and every choice of faults.               *)
(***************************************************************************)
EXTENDS Broker, FiniteSetTheorems, SequenceTheorems, TLAPS

-----------------------------------------------------------------------------
(* Induction over the naturals                                             *)

\* Every non-empty set of naturals has a least element.
LEMMA LeastElement ==
    ASSUME NEW T \in SUBSET Nat, T # {}
    PROVE  \E n \in T : \A m \in T : n <= m
<1> DEFINE Before == {ss \in Nat \X Nat : ss[1] < ss[2]}
<1>1. IsWellFoundedOn(Before, Nat)
  BY NatLessThanWellFounded DEF OpToRel
<1>2. T \subseteq Nat
  OBVIOUS
<1>3. \A m, n \in Nat : <<m, n>> \in Before <=> m < n
  OBVIOUS
<1> HIDE DEF Before
<1>4. PICK n \in T : \A m \in T : ~ (<<m, n>> \in Before)
  BY <1>1, <1>2, WFMin, Zenon
<1>5. \A m \in T : ~ (m < n)
  BY <1>2, <1>3, <1>4
<1>6. QED
  BY <1>2, <1>5

\* A set that holds 0 and the successors of its elements holds every natural.
LEMMA Induct ==
    ASSUME NEW S, 0 \in S, \A n \in Nat : n \in S => n + 1 \in S
    PROVE  Nat \subseteq S
<1> SUFFICES ASSUME Nat \ S # {} PROVE FALSE
  OBVIOUS
<1>1. PICK n \in Nat \ S : \A m \in Nat \ S : n <= m
  <2>1. Nat \ S \in SUBSET Nat
    OBVIOUS
  <2>2. QED
    BY <2>1, LeastElement
<1>2. n # 0 /\ n - 1 \in Nat
  BY <1>1
<1>3. n - 1 \in S
  BY <1>1, <1>2
<1>4. (n - 1) + 1 \in S
  BY <1>2, <1>3
<1>5. QED
  BY <1>1, <1>4

-----------------------------------------------------------------------------
(* The engine, as far as the broker uses it                                *)

\* A frame is an event of the engine.
LEMMA FrameTypes ==
    ASSUME NEW f \in Frames
    PROVE  /\ f.event_id \in EventId /\ f.session \in SessionId /\ f.timestamp \in Nat
           /\ f.parent \in SessionId \cup {NoParent}
           /\ f.pane \in Pane \cup {NoPane}
           /\ f # Garbage
<1>1. [event_id |-> f.event_id, event_type |-> f.event_type, risk |-> f.risk,
       session |-> f.session, parent |-> f.parent, timestamp |-> f.timestamp] \in Engine!Event
  BY BrokerAssumption DEF Event
<1>2. QED
  BY <1>1, BrokerAssumption DEF Engine!Event

\* The engine's states are the broker's.
LEMMA SameStates == Engine!AgentState = AgentState
  BY DEF Engine!AgentState, AgentState

LEMMA TableTypes ==
    ASSUME NEW st \in Engine!AgentState
    PROVE  Engine!ttl_duration(st) \in Nat
  BY DEF Engine!ttl_duration, Engine!AgentState

LEMMA StateFromEvent ==
    ASSUME NEW ty, NEW r \in BOOLEAN
    PROVE  /\ Engine!state_from_event(ty, r) \in Engine!AgentState
           /\ Engine!state_from_event(ty, r) = "Error" => ty \in Engine!FailureEvent
  BY DEF Engine!state_from_event, Engine!AgentState, Engine!FailureEvent

\* What a frame makes of its session's entry is a session.
LEMMA IngestedTyped ==
    ASSUME NEW entry \in Engine!SessionState \cup {NoSession}, NEW e \in Frames, NEW t \in Nat
    PROVE  Engine!ingested(entry, e, t) \in Engine!SessionState
<1> DEFINE x == IF entry = NoSession THEN Engine!new(t) ELSE entry
           proposed == Engine!state_from_event(e.event_type, Engine!is_risk(e))
           f == Engine!EffectiveState(x, e)
           y == [state |-> f,
                 error_type |-> IF f = x.state THEN x.error_type
                                ELSE IF f = "Error" THEN e.event_type ELSE Engine!NoError,
                 updated_at |-> e.timestamp,
                 ttl |-> Engine!ttl_duration(f),
                 seen_event_ids |-> x.seen_event_ids \cup {e.event_id}]
<1>1. Engine!new(t) \in Engine!SessionState
  BY DEF Engine!new, Engine!SessionState, Engine!AgentState
<1>2. x \in Engine!SessionState
  BY <1>1
<1>3. proposed \in Engine!AgentState /\ (proposed = "Error" => e.event_type \in Engine!FailureEvent)
  <2>1. Engine!is_risk(e) \in BOOLEAN
    BY DEF Engine!is_risk
  <2>2. QED
    BY <2>1, StateFromEvent
<1>4. Engine!ingested(entry, e, t) = IF e.event_id \in x.seen_event_ids THEN x ELSE y
  BY DEF Engine!ingested, Engine!apply
<1> HIDE DEF x
<1>5. f \in {x.state, proposed, "Attention"}
  BY DEF Engine!EffectiveState, Engine!resolve_effective_state
<1>6. /\ x.state \in Engine!AgentState /\ x.error_type \in Engine!FailureEvent \cup {Engine!NoError}
      /\ x.seen_event_ids \in SUBSET EventId
  BY <1>2 DEF Engine!SessionState
<1>7. f \in Engine!AgentState /\ (f # x.state /\ f = "Error" => e.event_type \in Engine!FailureEvent)
  BY <1>3, <1>5, <1>6 DEF Engine!AgentState
<1>8. Engine!ttl_duration(f) \in Nat /\ e.timestamp \in Nat /\ e.event_id \in EventId
  BY <1>7, TableTypes, FrameTypes
<1> HIDE DEF f
<1>9. y \in Engine!SessionState
  BY <1>6, <1>7, <1>8 DEF Engine!SessionState
<1> HIDE DEF y
<1>10. QED
  BY <1>2, <1>4, <1>9

LEMMA CheckTtlTyped ==
    ASSUME NEW x \in Engine!SessionState, NEW t \in Nat
    PROVE  /\ Engine!check_ttl(x, t) \in Engine!SessionState
           /\ ~Engine!Overdue(x, t) => Engine!check_ttl(x, t) = x
           /\ Engine!Overdue(x, t) => Engine!check_ttl(x, t).state # x.state
<1> DEFINE nx == IF x.state = "Unknown" THEN "Idle" ELSE "Unknown"
<1>1. CASE ~Engine!Overdue(x, t)
  BY <1>1 DEF Engine!check_ttl
<1>2. CASE Engine!Overdue(x, t)
  <2>1. Engine!check_ttl(x, t)
          = [state |-> nx, error_type |-> Engine!NoError, updated_at |-> t,
             ttl |-> Engine!ttl_duration(nx), seen_event_ids |-> x.seen_event_ids]
    BY <1>2 DEF Engine!check_ttl, Engine!SessionState
  <2>2. nx \in Engine!AgentState /\ Engine!ttl_duration(nx) \in Nat /\ nx # x.state
    BY <1>2, TableTypes DEF Engine!AgentState, Engine!Overdue
  <2>3. x.seen_event_ids \in SUBSET EventId
    BY DEF Engine!SessionState
  <2> HIDE DEF nx
  <2>4. QED
    BY <1>2, <2>1, <2>2, <2>3 DEF Engine!SessionState
<1>3. QED
  BY <1>1, <1>2

-----------------------------------------------------------------------------
(* in_order                                                                *)

\* The events a stable sort by timestamp puts up to the i-th one: in_order counts
\* them.
Earlier(events, i) ==
    {j \in DOMAIN events : \/ events[j].timestamp < events[i].timestamp
                           \/ events[j].timestamp = events[i].timestamp /\ j <= i}

Place(events, i) == Cardinality(Earlier(events, i))

LEMMA TypeOfFrames ==
    ASSUME NEW events \in Seq(Frames)
    PROVE  /\ Len(events) \in Nat /\ DOMAIN events = 1..Len(events)
           /\ \A i \in DOMAIN events : events[i] \in Frames /\ events[i].timestamp \in Nat
<1>1. /\ Len(events) \in Nat /\ DOMAIN events = 1..Len(events)
      /\ \A i \in DOMAIN events : events[i] \in Frames
  BY LenProperties, ElementOfSeq
<1>2. QED
  BY <1>1, FrameTypes

\* Every event has a place of its own.
LEMMA PlacesDiffer ==
    ASSUME NEW events \in Seq(Frames), NEW i \in DOMAIN events
    PROVE  /\ Place(events, i) \in 1..Len(events)
           /\ \A j \in DOMAIN events : Place(events, i) = Place(events, j) => i = j
<1> DEFINE n == Len(events)
<1>1. /\ n \in Nat /\ DOMAIN events = 1..n
      /\ \A k \in 1..n : events[k].timestamp \in Nat
  BY TypeOfFrames
<1>2. IsFiniteSet(1..n) /\ Cardinality(1..n) = n
  <2>1. Cardinality(1..n) = IF 1 > n THEN 0 ELSE n - 1 + 1
    BY <1>1, FS_Interval
  <2>2. IsFiniteSet(1..n)
    BY <1>1, FS_Interval
  <2>3. QED
    BY <1>1, <2>1, <2>2
<1> HIDE DEF n
<1>3. \A k \in 1..n : /\ Earlier(events, k) \in SUBSET (1..n)
                      /\ k \in Earlier(events, k)
  BY <1>1 DEF Earlier
<1>4. ASSUME NEW k \in 1..n
      PROVE  /\ IsFiniteSet(Earlier(events, k)) /\ Place(events, k) \in Nat
             /\ Place(events, k) <= n /\ Place(events, k) # 0
  <2>1. IsFiniteSet(Earlier(events, k)) /\ Place(events, k) <= n
    BY <1>2, <1>3, FS_Subset DEF Place
  <2>2. Place(events, k) \in Nat
    BY <2>1, FS_CardinalityType DEF Place
  <2>3. Place(events, k) # 0
    BY <2>1, <1>3, FS_EmptySet DEF Place
  <2>4. QED
    BY <2>1, <2>2, <2>3
<1>5. ASSUME NEW k \in 1..n, NEW m \in 1..n, Place(events, k) = Place(events, m)
      PROVE  Earlier(events, k) \subseteq Earlier(events, m) => k = m
  <2>1. SUFFICES ASSUME Earlier(events, k) \subseteq Earlier(events, m)
                 PROVE  k = m
    OBVIOUS
  <2>2. Earlier(events, k) = Earlier(events, m)
    <3>1. Earlier(events, k) \in SUBSET Earlier(events, m)
      BY <2>1
    <3>2. Cardinality(Earlier(events, m)) = Cardinality(Earlier(events, k))
      BY <1>5 DEF Place
    <3>3. QED
      BY <1>4, <3>1, <3>2, FS_Subset
  <2>3. k \in Earlier(events, m) /\ m \in Earlier(events, k)
    BY <1>3, <2>2
  <2>4. QED
    BY <1>1, <2>3 DEF Earlier
<1>6. \A k, m \in 1..n : \/ Earlier(events, k) \subseteq Earlier(events, m)
                         \/ Earlier(events, m) \subseteq Earlier(events, k)
  BY <1>1 DEF Earlier
<1>7. i \in 1..n
  BY <1>1
<1>8. Place(events, i) \in 1..n
  BY <1>1, <1>4, <1>7
<1>9. ASSUME NEW j \in 1..n, Place(events, i) = Place(events, j)
      PROVE  i = j
  BY <1>5, <1>6, <1>7, <1>9
<1>10. QED
  BY <1>1, <1>8, <1>9 DEF n

\* Every place is taken.
LEMMA PlacesTaken ==
    ASSUME NEW events \in Seq(Frames), NEW k \in DOMAIN events
    PROVE  \E i \in DOMAIN events : Place(events, i) = k
<1> DEFINE n == Len(events)
           p == [i \in 1..n |-> Place(events, i)]
<1>1. n \in Nat /\ DOMAIN events = 1..n
  BY TypeOfFrames
<1>2. IsFiniteSet(1..n)
  BY <1>1, FS_Interval
<1> HIDE DEF n
<1>3. \A i \in 1..n : Place(events, i) \in 1..n
  BY <1>1, PlacesDiffer DEF n
<1>4. \A i, j \in 1..n : Place(events, i) = Place(events, j) => i = j
  BY <1>1, PlacesDiffer
<1>5. p \in Injection(1..n, 1..n)
  BY <1>3, <1>4 DEF Injection, IsInjective
<1>6. p \in Surjection(1..n, 1..n)
  BY <1>2, <1>5, FS_Injection
<1>7. PICK i \in 1..n : p[i] = k
  BY <1>1, <1>6 DEF Surjection
<1>8. QED
  BY <1>1, <1>7

\* in_order keeps every event: the k-th of the sorted ones is the event whose
\* place is k.
LEMMA InOrder ==
    ASSUME NEW events \in Seq(Frames)
    PROVE  /\ in_order(events) \in Seq(Frames)
           /\ Len(in_order(events)) = Len(events)
           /\ \A k \in DOMAIN events : \E i \in DOMAIN events :
                 Place(events, i) = k /\ in_order(events)[k] = events[i]
<1>1. Len(events) \in Nat /\ DOMAIN events = 1..Len(events)
  BY TypeOfFrames
<1>2. in_order(events)
        = [k \in DOMAIN events |-> events[CHOOSE i \in DOMAIN events : Place(events, i) = k]]
  BY DEF in_order, Place, Earlier
<1>3. ASSUME NEW k \in DOMAIN events
      PROVE  /\ \E i \in DOMAIN events : Place(events, i) = k /\ in_order(events)[k] = events[i]
             /\ in_order(events)[k] \in Frames
  <2> DEFINE c == CHOOSE i \in DOMAIN events : Place(events, i) = k
  <2>1. c \in DOMAIN events /\ Place(events, c) = k
    BY PlacesTaken, Zenon
  <2>2. in_order(events)[k] = events[c]
    BY <1>2
  <2> HIDE DEF c
  <2>3. QED
    BY <2>1, <2>2, TypeOfFrames
<1>4. in_order(events) \in [1..Len(events) -> Frames]
  BY <1>1, <1>2, <1>3
<1>5. in_order(events) \in Seq(Frames) /\ Len(in_order(events)) = Len(events)
  BY <1>1, <1>4, IsASeq, LenProperties
<1>6. QED
  BY <1>3, <1>5

-----------------------------------------------------------------------------
(* Ingested                                                                *)

\* The entry, the links and the transitions after each number of events.
Unfolds(g, s, events) ==
    g = [i \in 0..Len(events) |->
            IF i = 0 THEN [entry |-> sessions[s], parents |-> parent_map, transitions |-> <<>>]
            ELSE ingest(g[i - 1], events[i])]

\* The recursion of Ingested is well-founded: it has a solution.
LEMMA IngestedUnfolds ==
    ASSUME NEW s, NEW events \in Seq(Frames)
    PROVE  \E g : Unfolds(g, s, events) /\ Ingested(s, events) = g[Len(events)]
<1> DEFINE N == Len(events)
           start == [entry |-> sessions[s], parents |-> parent_map, transitions |-> <<>>]
           Upto(g, n) == g = [i \in 0..n |-> IF i = 0 THEN start
                                             ELSE ingest(g[i - 1], events[i])]
           S == {n \in Nat : \E g : Upto(g, n)}
<1>1. N \in Nat
  BY TypeOfFrames
<1> HIDE DEF N, start
<1>2. 0 \in S
  <2> DEFINE g == [i \in 0..0 |-> start]
  <2>1. Upto(g, 0)
    <3>1. \A i \in 0..0 : i = 0
      OBVIOUS
    <3>2. QED
      BY <3>1, Zenon
  <2>2. QED
    BY <2>1
<1>3. ASSUME NEW n \in Nat, n \in S
      PROVE  n + 1 \in S
  <2>1. PICK g : Upto(g, n)
    BY <1>3
  <2> DEFINE h == [i \in 0..(n + 1) |-> IF i \in 0..n THEN g[i]
                                        ELSE ingest(g[n], events[n + 1])]
  <2>2. \A i \in 0..(n + 1) : h[i] = IF i \in 0..n THEN g[i]
                                     ELSE ingest(g[n], events[n + 1])
    OBVIOUS
  <2>3. \A i \in 0..n : g[i] = IF i = 0 THEN start ELSE ingest(g[i - 1], events[i])
    BY <2>1
  <2>4. DOMAIN h = 0..(n + 1) /\ h = [i \in 0..(n + 1) |-> h[i]]
    OBVIOUS
  <2> HIDE DEF h
  <2>5. ASSUME NEW i \in 0..(n + 1)
        PROVE  h[i] = IF i = 0 THEN start ELSE ingest(h[i - 1], events[i])
    <3>1. CASE i \in 0..n
      <4>1. h[i] = g[i]
        BY <2>2, <3>1
      <4>2. i # 0 => h[i - 1] = g[i - 1]
        BY <2>2, <3>1
      <4>3. QED
        BY <2>3, <3>1, <4>1, <4>2
    <3>2. CASE i \notin 0..n
      <4>1. i = n + 1 /\ i # 0 /\ i - 1 = n
        BY <3>2
      <4>2. h[i] = ingest(g[n], events[n + 1])
        BY <2>2, <3>2
      <4>3. h[n] = g[n]
        BY <2>2
      <4>4. QED
        BY <4>1, <4>2, <4>3
    <3>3. QED
      BY <3>1, <3>2
  <2>6. Upto(h, n + 1)
    BY <2>4, <2>5, Zenon
  <2> HIDE DEF Upto
  <2>7. \E g1 : Upto(g1, n + 1)
    BY <2>6, Zenon
  <2>8. QED
    BY <2>7
<1>4. N \in S
  BY <1>1, <1>2, <1>3, Induct
<1>5. PICK g : Upto(g, N)
  BY <1>4
<1>6. \A g1 : Upto(g1, N) <=> Unfolds(g1, s, events)
  BY DEF Unfolds, N, start
<1> DEFINE a == CHOOSE a : a = [i \in 0..Len(events) |->
            IF i = 0 THEN [entry |-> sessions[s], parents |-> parent_map, transitions |-> <<>>]
            ELSE ingest(a[i - 1], events[i])]
<1>7. Ingested(s, events) = a[Len(events)]
  BY DEF Ingested
<1>8. a = CHOOSE a1 : Unfolds(a1, s, events)
  BY DEF Unfolds
<1> HIDE DEF a
<1>9. Unfolds(a, s, events)
  BY <1>5, <1>6, <1>8
<1>10. QED
  BY <1>7, <1>9

\* What the dispatch of one session must look like (see DispatchEndsCurrent).
Story(s, trs, entry) ==
    /\ trs # <<>> => trs[Len(trs)].new = Shown(entry)
    /\ \A i \in 1..(Len(trs) - 1) : trs[i].new = trs[i + 1].previous
    /\ \A i \in DOMAIN trs : trs[i].session = s /\ trs[i].new # trs[i].previous

LEMMA ShownTyped ==
    ASSUME NEW entry \in Engine!SessionState \cup {NoSession}
    PROVE  Shown(entry) \in AgentState
  BY SameStates DEF Shown, Engine!SessionState, AgentState

\* A story that ends in what entry shows is continued by a transition to what the
\* next entry shows.
LEMMA StoryContinues ==
    ASSUME NEW s \in SessionId, NEW trs \in Seq(Transition), NEW entry, NEW next,
           Story(s, trs, entry),
           Shown(entry) \in AgentState, Shown(next) \in AgentState, Shown(next) # Shown(entry),
           NEW tr, tr = [session |-> s, previous |-> Shown(entry), new |-> Shown(next)]
    PROVE  /\ Append(trs, tr) \in Seq(Transition)
           /\ Story(s, Append(trs, tr), next)
<1> DEFINE n == Len(trs)
           l == Append(trs, tr)
<1>1. tr \in Transition /\ tr.session = s /\ tr.previous = Shown(entry) /\ tr.new = Shown(next)
  BY DEF Transition
<1>2. n \in Nat /\ DOMAIN trs = 1..n
  BY LenProperties
<1>3. /\ l \in Seq(Transition) /\ Len(l) = n + 1
      /\ \A i \in 1..n : l[i] = trs[i]
      /\ l[n + 1] = tr
  BY <1>1, AppendProperties
<1>4. DOMAIN l = 1..(n + 1) /\ l # <<>>
  BY <1>2, <1>3, LenProperties, EmptySeq
<1>5. n # 0 => trs[n].new = Shown(entry)
  BY <1>2, EmptySeq DEF Story
<1>6. /\ \A i \in 1..(n - 1) : trs[i].new = trs[i + 1].previous
      /\ \A i \in 1..n : trs[i].session = s /\ trs[i].new # trs[i].previous
  BY <1>2 DEF Story
<1> HIDE DEF n, l
<1>7. \A i \in 1..n : l[i].new = l[i + 1].previous
  <2> SUFFICES ASSUME NEW i \in 1..n PROVE l[i].new = l[i + 1].previous
    OBVIOUS
  <2>1. CASE i = n
    BY <1>1, <1>2, <1>3, <1>5, <2>1
  <2>2. CASE i # n
    BY <1>2, <1>3, <1>6, <2>2
  <2>3. QED
    BY <2>1, <2>2
<1>8. \A i \in 1..(n + 1) : l[i].session = s /\ l[i].new # l[i].previous
  BY <1>1, <1>2, <1>3, <1>6
<1>9. Story(s, l, next)
  BY <1>1, <1>2, <1>3, <1>4, <1>7, <1>8 DEF Story
<1>10. QED
  BY <1>3, <1>9 DEF l

\* What folding the events of s may have accumulated.
Accumulated(s, a) ==
    /\ a.entry \in Engine!SessionState \cup {NoSession}
    /\ a.parents \in [SessionId -> SessionId \cup {NoParent}]
    /\ a.transitions \in Seq(Transition)
    /\ Story(s, a.transitions, a.entry)

LEMMA IngestAccumulates ==
    ASSUME now \in Nat, NEW s \in SessionId, NEW a, Accumulated(s, a),
           NEW e \in Frames, e.session = s
    PROVE  Accumulated(s, ingest(a, e))
<1> DEFINE entry == Engine!ingested(a.entry, e, now)
           tr == [session |-> s, previous |-> Shown(a.entry), new |-> Shown(entry)]
           b == ingest(a, e)
<1>1. entry \in Engine!SessionState
  BY IngestedTyped DEF Accumulated
<1>2. Shown(entry) \in AgentState /\ Shown(a.entry) \in AgentState /\ Shown(entry) = entry.state
  BY <1>1, ShownTyped, BrokerAssumption DEF Accumulated, Shown
<1> HIDE DEF entry
<1>3. /\ b.entry = entry
      /\ b.parents = Engine!linked(a.parents, e)
      /\ b.transitions = IF Shown(entry) = Shown(a.entry) THEN a.transitions
                         ELSE Append(a.transitions, tr)
  BY <1>2 DEF ingest, entry
<1> HIDE DEF b
<1>4. b.parents \in [SessionId -> SessionId \cup {NoParent}]
  <2>1. e.session \in SessionId /\ e.parent \in SessionId \cup {NoParent}
    BY FrameTypes
  <2>2. QED
    BY <1>3, <2>1 DEF Engine!linked, Accumulated
<1>5. b.transitions \in Seq(Transition) /\ Story(s, b.transitions, b.entry)
  <2>1. CASE Shown(entry) = Shown(a.entry)
    BY <1>3, <2>1 DEF Accumulated, Story
  <2>2. CASE Shown(entry) # Shown(a.entry)
    <3>1. b.transitions = Append(a.transitions, tr) /\ b.entry = entry
      BY <1>3, <2>2
    <3>2. a.transitions \in Seq(Transition) /\ Story(s, a.transitions, a.entry)
      BY DEF Accumulated
    <3>3. QED
      BY <1>2, <2>2, <3>1, <3>2, StoryContinues
  <2>3. QED
    BY <2>1, <2>2
<1>6. QED
  BY <1>1, <1>3, <1>4, <1>5 DEF Accumulated, b

\* The fold of a window: nothing for an empty one, else a story that ends in what
\* the new entry shows.
LEMMA IngestedAccumulates ==
    ASSUME Engine!TypeOK, NEW s \in SessionId, NEW events \in Seq(Frames),
           \A i \in DOMAIN events : events[i].session = s
    PROVE  /\ Accumulated(s, Ingested(s, events))
           /\ events = <<>> => /\ Ingested(s, events).entry = sessions[s]
                               /\ Ingested(s, events).transitions = <<>>
<1> DEFINE n == Len(events)
           start == [entry |-> sessions[s], parents |-> parent_map, transitions |-> <<>>]
<1>1. n \in Nat /\ DOMAIN events = 1..n /\ \A i \in 1..n : events[i] \in Frames
  BY TypeOfFrames
<1>2. PICK g : Unfolds(g, s, events) /\ Ingested(s, events) = g[n]
  BY IngestedUnfolds
<1>3. g[0] = start /\ \A i \in 1..n : g[i] = ingest(g[i - 1], events[i])
  BY <1>1, <1>2 DEF Unfolds
<1>4. /\ now \in Nat /\ sessions[s] \in Engine!SessionState \cup {NoSession}
      /\ parent_map \in [SessionId -> SessionId \cup {NoParent}]
  BY DEF Engine!TypeOK
<1>5. /\ start.entry = sessions[s] /\ start.transitions = <<>>
      /\ start.parents = parent_map
  OBVIOUS
<1>6. <<>> \in Seq(Transition) /\ Story(s, <<>>, sessions[s])
  BY DEF Story
<1>7. Accumulated(s, start)
  BY <1>4, <1>5, <1>6 DEF Accumulated
<1>8. events = <<>> => n = 0
  BY EmptySeq
<1> HIDE DEF n, start
<1> DEFINE S == {i \in Nat : i <= n => Accumulated(s, g[i])}
<1>9. 0 \in S
  BY <1>3, <1>7
<1>10. ASSUME NEW i \in Nat, i \in S
       PROVE  i + 1 \in S
  <2> SUFFICES ASSUME i + 1 <= n PROVE Accumulated(s, g[i + 1])
    OBVIOUS
  <2>1. Accumulated(s, g[i])
    BY <1>1, <1>10
  <2>2. i + 1 \in 1..n /\ (i + 1) - 1 = i
    BY <1>1
  <2>3. g[i + 1] = ingest(g[i], events[i + 1])
    BY <1>3, <2>2
  <2>4. events[i + 1] \in Frames /\ events[i + 1].session = s
    BY <1>1, <2>2
  <2>5. QED
    BY <1>4, <2>1, <2>3, <2>4, IngestAccumulates
<1>11. n \in S
  BY <1>1, <1>9, <1>10, Induct
<1>12. Accumulated(s, g[n])
  BY <1>1, <1>11
<1>13. QED
  BY <1>2, <1>3, <1>5, <1>8, <1>12

-----------------------------------------------------------------------------
(* The inductive invariant.  PaneIsKnown and DispatchEndsCurrent relate the *)
(* maps a drain writes, and hold of what it writes only because the buffers *)
(* and the entries it starts from are typed; that a stopped broker has      *)
(* nothing pending is inductive only with the last dispatch included.       *)

LastDrainIsDone == pc \in {"last dispatch", "stopped"} => pending = Nothing

BrokerInv == TypeOK /\ PaneIsKnown /\ DispatchEndsCurrent /\ LastDrainIsDone

LEMMA NothingTyped ==
    /\ Nothing \in [SessionId -> Seq(Frames)] /\ Nothing \in [SessionId -> Seq(Transition)]
    /\ Waiting(Nothing) = {}
    /\ \A s \in SessionId : Nothing[s] = <<>> /\ DOMAIN Nothing[s] = {}
  BY DEF Nothing, Waiting

LEMMA NoneWaiting ==
    ASSUME NEW X, NEW batches \in [SessionId -> Seq(X)], Waiting(batches) = {}
    PROVE  batches = Nothing
  BY DEF Nothing, Waiting

LEMMA InitInv == Init => BrokerInv
<1> SUFFICES ASSUME Init PROVE BrokerInv
  OBVIOUS
<1>1. Engine!TypeOK
  BY DEF Init, Engine!Init, Engine!TypeOK
<1>2. /\ channel = <<>> /\ pending = Nothing /\ session_info = [s \in SessionId |-> "Unseen"]
      /\ cooling = {} /\ transitions = Nothing /\ turn = NoSession /\ pc = "select"
      /\ display = [p \in Pane |-> "Idle"] /\ server = "open"
      /\ \A s \in SessionId : sessions[s] = NoSession
  BY DEF Init, Engine!Init
<1>3. /\ channel \in Seq(Frames \cup {Garbage}) /\ Len(channel) <= EVENT_CHANNEL_CAPACITY
  <2>1. Len(<<>>) = 0 /\ EVENT_CHANNEL_CAPACITY \in Nat
    BY BrokerAssumption, EmptySeq
  <2>2. QED
    BY <1>2, <2>1
<1>4. /\ session_info \in [SessionId -> Pane \cup {NoPane, "Unseen"}]
      /\ display \in [Pane -> AgentState]
  BY <1>2 DEF AgentState
<1>5. \A s \in SessionId : \A i \in DOMAIN pending[s] : pending[s][i].session = s
  BY <1>2, NothingTyped
<1>6. TypeOK
  BY <1>1, <1>2, <1>3, <1>4, <1>5, NothingTyped DEF TypeOK
<1>7. PaneIsKnown
  BY <1>2, NothingTyped DEF PaneIsKnown
<1>8. DispatchEndsCurrent
  BY <1>2, NothingTyped DEF DispatchEndsCurrent
<1>9. QED
  BY <1>2, <1>6, <1>7, <1>8 DEF BrokerInv, LastDrainIsDone

\* The steps that leave the engine's maps, the buffers and the dispatch alone.
LEMMA OutsideInv ==
    ASSUME BrokerInv, Engine!TypeOK',
           UNCHANGED <<sessions, pending, session_info, transitions, turn, pc, display>>,
           channel' \in Seq(Frames \cup {Garbage}), Len(channel') <= EVENT_CHANNEL_CAPACITY,
           cooling' \subseteq cooling,
           server' \in {"open", "closing", "closed"}
    PROVE  BrokerInv'
<1>1. TypeOK'
  BY DEF BrokerInv, TypeOK, Waiting
<1>2. PaneIsKnown'
  BY DEF BrokerInv, PaneIsKnown
<1>3. DispatchEndsCurrent'
  BY DEF BrokerInv, DispatchEndsCurrent, Shown
<1>4. QED
  BY <1>1, <1>2, <1>3 DEF BrokerInv, LastDrainIsDone

LEMMA SendInv ==
    ASSUME BrokerInv, NEW f \in Frames \cup {Garbage}, Send(f)
    PROVE  BrokerInv'
<1>1. /\ Len(channel) < EVENT_CHANNEL_CAPACITY /\ channel' = Append(channel, f)
      /\ UNCHANGED <<sessions, parent_map, now, pending, session_info, cooling, transitions,
                     turn, pc, display, server>>
  BY DEF Send, engine_vars
<1>2. channel \in Seq(Frames \cup {Garbage})
  BY DEF BrokerInv, TypeOK
<1>3. /\ channel' \in Seq(Frames \cup {Garbage})
      /\ Len(channel') = Len(channel) + 1 /\ Len(channel) \in Nat
  BY <1>1, <1>2, AppendProperties, LenProperties
<1>4. Len(channel') <= EVENT_CHANNEL_CAPACITY
  BY <1>1, <1>3, BrokerAssumption
<1>5. Engine!TypeOK' /\ server \in {"open", "closing", "closed"}
  BY <1>1 DEF BrokerInv, TypeOK, Engine!TypeOK
<1>6. QED
  BY <1>1, <1>3, <1>4, <1>5, OutsideInv

\* The other steps outside the loop: shutdown, the end of the server, time.
LEMMA QuietInv ==
    ASSUME BrokerInv, Shutdown \/ ServerGone \/ Cool \/ Tick
    PROVE  BrokerInv'
<1>1. /\ UNCHANGED <<sessions, parent_map, channel, pending, session_info, transitions, turn, pc,
                     display>>
      /\ cooling' \subseteq cooling
      /\ server' \in {"open", "closing", "closed"}
      /\ now' \in Nat
  <2>1. now \in Nat /\ server \in {"open", "closing", "closed"}
    BY DEF BrokerInv, TypeOK, Engine!TypeOK
  <2>2. CASE Shutdown
    BY <2>1, <2>2 DEF Shutdown, engine_vars
  <2>3. CASE ServerGone
    BY <2>1, <2>3 DEF ServerGone, engine_vars
  <2>4. CASE Cool
    BY <2>1, <2>4 DEF Cool, engine_vars
  <2>5. CASE Tick
    BY <2>1, <2>5, BrokerAssumption DEF Tick, Engine!Tick
  <2>6. QED
    BY <2>2, <2>3, <2>4, <2>5
<1>2. Engine!TypeOK'
  BY <1>1 DEF BrokerInv, TypeOK, Engine!TypeOK
<1>3. channel' \in Seq(Frames \cup {Garbage}) /\ Len(channel') <= EVENT_CHANNEL_CAPACITY
  BY <1>1 DEF BrokerInv, TypeOK
<1>4. QED
  BY <1>1, <1>2, <1>3, OutsideInv

LEMMA BufferInv ==
    ASSUME BrokerInv, buffer_event
    PROVE  BrokerInv'
<1> DEFINE f == Head(channel)
<1>1. /\ pc = "select" /\ channel # <<>> /\ channel' = Tail(channel)
      /\ UNCHANGED <<sessions, parent_map, now, cooling, transitions, turn, pc, display, server>>
      /\ f = Garbage => UNCHANGED <<pending, session_info>>
      /\ f # Garbage => /\ pending' = [pending EXCEPT ![f.session] = Append(@, f)]
                        /\ session_info' = [session_info EXCEPT ![f.session] = f.pane]
  BY DEF buffer_event, engine_vars
<1>2. channel \in Seq(Frames \cup {Garbage}) /\ Len(channel) <= EVENT_CHANNEL_CAPACITY
  BY DEF BrokerInv, TypeOK
<1>3. /\ f \in Frames \cup {Garbage}
      /\ channel' \in Seq(Frames \cup {Garbage}) /\ Len(channel') <= EVENT_CHANNEL_CAPACITY
  <2>1. /\ Head(channel) \in Frames \cup {Garbage} /\ Tail(channel) \in Seq(Frames \cup {Garbage})
        /\ Len(Tail(channel)) = Len(channel) - 1 /\ Len(channel) \in Nat
    BY <1>1, <1>2, HeadTailProperties, LenProperties
  <2>2. QED
    BY <1>1, <1>2, <2>1, BrokerAssumption
<1> HIDE DEF f
<1>4. Engine!TypeOK'
  BY <1>1 DEF BrokerInv, TypeOK, Engine!TypeOK
<1>5. CASE f = Garbage
  <2>1. cooling' \subseteq cooling /\ server' \in {"open", "closing", "closed"}
    BY <1>1 DEF BrokerInv, TypeOK
  <2>2. QED
    BY <1>1, <1>3, <1>4, <1>5, <2>1, OutsideInv
<1>6. CASE f # Garbage
  <2>1. f \in Frames /\ f.session \in SessionId /\ f.pane \in Pane \cup {NoPane}
    BY <1>3, <1>6, FrameTypes
  <2>2. /\ pending \in [SessionId -> Seq(Frames)]
        /\ session_info \in [SessionId -> Pane \cup {NoPane, "Unseen"}]
        /\ \A s \in SessionId : \A i \in DOMAIN pending[s] : pending[s][i].session = s
    BY DEF BrokerInv, TypeOK
  <2>3. /\ \A s \in SessionId : pending'[s] = IF s = f.session THEN Append(pending[s], f)
                                              ELSE pending[s]
        /\ \A s \in SessionId : session_info'[s] = IF s = f.session THEN f.pane
                                                   ELSE session_info[s]
        /\ session_info' \in [SessionId -> Pane \cup {NoPane, "Unseen"}]
    BY <1>1, <1>6, <2>1, <2>2
  <2>4. ASSUME NEW s \in SessionId
        PROVE  /\ pending'[s] \in Seq(Frames)
               /\ \A i \in DOMAIN pending'[s] : pending'[s][i].session = s
               /\ pending'[s] = <<>> => pending[s] = <<>> /\ s # f.session
    <3>1. CASE s # f.session
      BY <2>2, <2>3, <3>1
    <3>2. CASE s = f.session
      <4> DEFINE q == pending[s]
                 r == pending'[s]
      <4>1. q \in Seq(Frames) /\ r = Append(q, f)
        BY <2>2, <2>3, <3>2
      <4>2. \A i \in DOMAIN q : q[i].session = s
        BY <2>2
      <4> HIDE DEF q, r
      <4>3. /\ r \in Seq(Frames) /\ Len(r) = Len(q) + 1
            /\ \A i \in 1..Len(q) : r[i] = q[i]
            /\ r[Len(q) + 1] = f
        BY <2>1, <4>1, AppendProperties
      <4>4. Len(q) \in Nat /\ DOMAIN q = 1..Len(q) /\ DOMAIN r = 1..(Len(q) + 1)
        BY <4>1, <4>3, TypeOfFrames
      <4>5. \A i \in DOMAIN r : r[i].session = s
        BY <3>2, <4>2, <4>3, <4>4
      <4>6. r # <<>>
        BY <4>3, <4>4, EmptySeq
      <4>7. QED
        BY <4>3, <4>5, <4>6 DEF r
    <3>3. QED
      BY <3>1, <3>2
  <2>5. pending' \in [SessionId -> Seq(Frames)]
    <3>1. pending' = [s \in SessionId |-> pending'[s]]
      BY <1>1, <1>6, <2>2
    <3>2. QED
      BY <2>4, <3>1
  <2>6. TypeOK'
    BY <1>1, <1>3, <1>4, <2>3, <2>4, <2>5 DEF BrokerInv, TypeOK, Waiting
  <2>7. PaneIsKnown'
    <3> SUFFICES ASSUME NEW s \in SessionId,
                        \/ sessions'[s] # NoSession
                        \/ pending'[s] # <<>>
                        \/ transitions'[s] # <<>>
                 PROVE  session_info'[s] # "Unseen"
      BY DEF PaneIsKnown
    <3>1. CASE s = f.session
      BY <2>1, <2>3, <3>1, BrokerAssumption
    <3>2. CASE s # f.session
      BY <1>1, <2>3, <3>2 DEF BrokerInv, PaneIsKnown
    <3>3. QED
      BY <3>1, <3>2
  <2>8. DispatchEndsCurrent'
    BY <1>1 DEF BrokerInv, DispatchEndsCurrent, Shown
  <2>9. LastDrainIsDone'
    BY <1>1 DEF LastDrainIsDone
  <2>10. QED
    BY <2>6, <2>7, <2>8, <2>9 DEF BrokerInv
<1>7. QED
  BY <1>5, <1>6

\* The maps are iterated in some order: a session is in turn while any has a
\* transition left, and the loop goes on or ends when none has.
LEMMA TurnFollows ==
    ASSUME NEW batches \in [SessionId -> Seq(Transition)], InSomeOrder(batches),
           NEW busy \in {"dispatch", "last dispatch"}, NEW idle \in {"select", "stopped"},
           pc' = IF Waiting(batches) = {} THEN idle ELSE busy
    PROVE  /\ transitions' = batches /\ transitions' \in [SessionId -> Seq(Transition)]
           /\ pc' \in {"select", "dispatch", "last dispatch", "stopped"}
           /\ IF pc' \in {"dispatch", "last dispatch"} THEN turn' \in Waiting(transitions)'
              ELSE turn' = NoSession /\ transitions' = Nothing
<1>1. transitions' = batches /\ Waiting(transitions)' = Waiting(batches)
  BY DEF InSomeOrder, Waiting
<1>2. CASE Waiting(batches) = {}
  <2>1. turn' = NoSession /\ pc' = idle
    BY <1>2 DEF InSomeOrder
  <2>2. batches = Nothing
    BY <1>2, NoneWaiting
  <2>3. QED
    BY <1>1, <2>1, <2>2
<1>3. CASE Waiting(batches) # {}
  <2>1. turn' \in Waiting(batches) /\ pc' = busy
    BY <1>3 DEF InSomeOrder
  <2>2. QED
    BY <1>1, <2>1
<1>4. QED
  BY <1>2, <1>3

\* What a drain makes of each session.
LEMMA DrainedSession ==
    ASSUME BrokerInv, NEW s \in SessionId
    PROVE  /\ Accumulated(s, drained[s])
           /\ pending[s] = <<>> => /\ drained[s].entry = sessions[s]
                                   /\ drained[s].transitions = <<>>
<1> DEFINE w == pending[s]
           events == in_order(w)
<1>1. w \in Seq(Frames) /\ \A i \in DOMAIN w : w[i].session = s
  BY DEF BrokerInv, TypeOK
<1>2. drained[s] = Ingested(s, events)
  BY DEF drained
<1> HIDE DEF w
<1>3. /\ events \in Seq(Frames) /\ Len(events) = Len(w)
      /\ \A k \in DOMAIN w : \E i \in DOMAIN w : events[k] = w[i]
  BY <1>1, InOrder
<1> HIDE DEF events
<1>4. DOMAIN events = DOMAIN w
  BY <1>1, <1>3, TypeOfFrames
<1>5. \A k \in DOMAIN events : events[k].session = s
  BY <1>1, <1>3, <1>4
<1>6. w = <<>> => events = <<>>
  BY <1>1, <1>3, EmptySeq
<1>7. Engine!TypeOK
  BY DEF BrokerInv, TypeOK
<1>8. QED
  BY <1>2, <1>3, <1>5, <1>6, <1>7, IngestedAccumulates DEF w

LEMMA DrainInv ==
    ASSUME BrokerInv, drain_and_process, UNCHANGED server,
           NEW busy \in {"dispatch", "last dispatch"}, NEW idle \in {"select", "stopped"},
           pc' = IF Waiting([s \in SessionId |-> drained[s].transitions]) = {} THEN idle ELSE busy
    PROVE  BrokerInv'
<1> DEFINE d == drained
           batches == [s \in SessionId |-> d[s].transitions]
<1>1. /\ sessions' = [s \in SessionId |-> d[s].entry]
      /\ parent_map' = [s \in SessionId |-> d[s].parents[s]]
      /\ pending' = Nothing /\ InSomeOrder(batches)
      /\ UNCHANGED <<now, channel, session_info, cooling, display>>
  BY DEF drain_and_process
<1>2. \A s \in SessionId :
        /\ Accumulated(s, d[s])
        /\ pending[s] = <<>> => d[s].entry = sessions[s] /\ d[s].transitions = <<>>
  BY DrainedSession
<1> HIDE DEF d
<1>3. \A s \in SessionId :
        /\ sessions'[s] = d[s].entry /\ sessions'[s] \in Engine!SessionState \cup {NoSession}
        /\ d[s].parents[s] \in SessionId \cup {NoParent}
        /\ batches[s] = d[s].transitions /\ batches[s] \in Seq(Transition)
        /\ Story(s, batches[s], sessions'[s])
  BY <1>1, <1>2 DEF Accumulated
<1>4. batches \in [SessionId -> Seq(Transition)]
  BY <1>3
<1>5. pc' = IF Waiting(batches) = {} THEN idle ELSE busy
  BY DEF d
<1>6. \A s \in SessionId :
        pending[s] = <<>> => sessions'[s] = sessions[s] /\ batches[s] = <<>>
  BY <1>2, <1>3
<1> HIDE DEF batches
<1>7. /\ transitions' = batches /\ transitions' \in [SessionId -> Seq(Transition)]
      /\ pc' \in {"select", "dispatch", "last dispatch", "stopped"}
      /\ IF pc' \in {"dispatch", "last dispatch"} THEN turn' \in Waiting(transitions)'
         ELSE turn' = NoSession /\ transitions' = Nothing
  BY <1>1, <1>4, <1>5, TurnFollows
<1>8. Engine!TypeOK'
  BY <1>1, <1>3 DEF BrokerInv, TypeOK, Engine!TypeOK
<1>9. TypeOK'
  <2>1. /\ pending' \in [SessionId -> Seq(Frames)]
        /\ \A s \in SessionId : \A i \in DOMAIN pending'[s] : pending'[s][i].session = s
    <3>1. pending' = Nothing
      BY <1>1
    <3>2. QED
      BY <3>1, NothingTyped
  <2>2. /\ channel' \in Seq(Frames \cup {Garbage}) /\ Len(channel') <= EVENT_CHANNEL_CAPACITY
        /\ session_info' \in [SessionId -> Pane \cup {NoPane, "Unseen"}]
        /\ cooling' \subseteq SessionId \X AgentState
        /\ display' \in [Pane -> AgentState]
        /\ server' \in {"open", "closing", "closed"}
    BY <1>1 DEF BrokerInv, TypeOK
  <2>3. QED
    BY <1>7, <1>8, <2>1, <2>2 DEF TypeOK
<1>10. PaneIsKnown'
  <2> SUFFICES ASSUME NEW s \in SessionId,
                      \/ sessions'[s] # NoSession
                      \/ pending'[s] # <<>>
                      \/ transitions'[s] # <<>>
               PROVE  session_info'[s] # "Unseen"
    BY DEF PaneIsKnown
  <2>1. sessions[s] # NoSession \/ pending[s] # <<>>
    BY <1>1, <1>6, <1>7, NothingTyped
  <2>2. QED
    BY <1>1, <2>1 DEF BrokerInv, PaneIsKnown
<1>11. DispatchEndsCurrent'
  <2> SUFFICES ASSUME NEW s \in SessionId
               PROVE  Story(s, transitions'[s], sessions'[s])
    BY DEF DispatchEndsCurrent, Story, Shown
  <2>1. QED
    BY <1>3, <1>7
<1>12. QED
  BY <1>1, <1>9, <1>10, <1>11 DEF BrokerInv, LastDrainIsDone

LEMMA TtlInv ==
    ASSUME BrokerInv, ttl_tick
    PROVE  BrokerInv'
<1> DEFINE batches == [s \in SessionId |-> expired(s)]
<1>1. /\ pc = "select" /\ Engine!expire_ttls /\ InSomeOrder(batches)
      /\ pc' = IF Waiting(batches) = {} THEN "select" ELSE "dispatch"
      /\ UNCHANGED <<channel, pending, session_info, cooling, display, server>>
  BY DEF ttl_tick, thenSelect
<1>2. /\ now \in Nat /\ sessions \in [SessionId -> Engine!SessionState \cup {NoSession}]
      /\ parent_map \in [SessionId -> SessionId \cup {NoParent}]
  BY DEF BrokerInv, TypeOK, Engine!TypeOK
<1>3. now' = now /\ parent_map' \in [SessionId -> SessionId \cup {NoParent}]
  BY <1>1, <1>2 DEF Engine!expire_ttls, Engine!unlinked
<1>4. sessions' = [s \in SessionId |->
                     IF s \notin Engine!Live \/ s \in Engine!expired_ids(now) THEN NoSession
                     ELSE Engine!check_ttl(sessions[s], now)]
  BY <1>1 DEF Engine!expire_ttls
<1>5. ASSUME NEW s \in SessionId
      PROVE  /\ sessions'[s] \in Engine!SessionState \cup {NoSession}
             /\ expired(s) \in Seq(Transition)
             /\ Story(s, expired(s), sessions'[s])
             /\ sessions[s] = NoSession => sessions'[s] = NoSession /\ expired(s) = <<>>
  <2> DEFINE x == sessions[s]
             y == Engine!check_ttl(x, now)
  <2>1. CASE x = NoSession
    <3>1. sessions'[s] = NoSession
      BY <1>4, <2>1 DEF Engine!Live
    <3>2. expired(s) = <<>>
      BY <2>1 DEF expired
    <3>3. QED
      BY <2>1, <3>1, <3>2 DEF Story
  <2>2. CASE x # NoSession
    <3>1. x \in Engine!SessionState /\ s \in Engine!Live
      BY <1>2, <2>2 DEF Engine!Live
    <3>2. /\ y \in Engine!SessionState
          /\ ~Engine!Overdue(x, now) => y = x
          /\ Engine!Overdue(x, now) => y.state # x.state
      BY <1>2, <3>1, CheckTtlTyped
    <3>3. /\ s \notin Engine!expired_ids(now) => sessions'[s] = y
          /\ s \in Engine!expired_ids(now) =>
                sessions'[s] = NoSession /\ Engine!Overdue(x, now) /\ y.state = "Idle"
      BY <1>4, <3>1 DEF Engine!expired_ids
    <3>4. sessions'[s] \in Engine!SessionState \cup {NoSession}
      BY <3>2, <3>3
    <3>5. Shown(x) = x.state /\ Shown(y) = y.state /\ Shown(sessions'[s]) = y.state
      BY <2>2, <3>2, <3>3, BrokerAssumption DEF Shown
    <3>6. x.state \in AgentState /\ y.state \in AgentState
      BY <3>1, <3>2, SameStates DEF Engine!SessionState
    <3>7. CASE ~Engine!Overdue(x, now)
      BY <2>2, <3>4, <3>7 DEF expired, Story
    <3>8. CASE Engine!Overdue(x, now)
      <4> DEFINE tr == [session |-> s, previous |-> x.state, new |-> y.state]
      <4>1. expired(s) = <<tr>>
        BY <2>2, <3>8 DEF expired
      <4>2. tr \in Transition
        BY <3>6 DEF Transition
      <4>3. tr.session = s /\ tr.new = y.state /\ tr.previous = x.state
        OBVIOUS
      <4> HIDE DEF tr
      <4>4. <<tr>> \in Seq(Transition) /\ Len(<<tr>>) = 1 /\ <<tr>>[1] = tr /\ <<tr>> # <<>>
        BY <4>2
      <4>5. Story(s, <<tr>>, sessions'[s])
        <5>1. <<tr>>[Len(<<tr>>)].new = Shown(sessions'[s])
          BY <3>5, <4>3, <4>4
        <5>2. \A i \in DOMAIN <<tr>> : <<tr>>[i].session = s /\ <<tr>>[i].new # <<tr>>[i].previous
          BY <3>2, <3>8, <4>3
        <5>3. \A i \in 1..(Len(<<tr>>) - 1) : <<tr>>[i].new = <<tr>>[i + 1].previous
          BY <4>4
        <5>4. QED
          BY <5>1, <5>2, <5>3 DEF Story
      <4>6. QED
        BY <2>2, <3>4, <4>1, <4>4, <4>5
    <3>9. QED
      BY <3>7, <3>8
  <2>3. QED
    BY <2>1, <2>2
<1>6. batches \in [SessionId -> Seq(Transition)] /\ \A s \in SessionId : batches[s] = expired(s)
  BY <1>5
<1> HIDE DEF batches
<1>7. /\ transitions' = batches /\ transitions' \in [SessionId -> Seq(Transition)]
      /\ pc' \in {"select", "dispatch", "last dispatch", "stopped"}
      /\ IF pc' \in {"dispatch", "last dispatch"} THEN turn' \in Waiting(transitions)'
         ELSE turn' = NoSession /\ transitions' = Nothing
  BY <1>1, <1>6, TurnFollows
<1>8. sessions' \in [SessionId -> Engine!SessionState \cup {NoSession}]
  <2>1. sessions' = [s \in SessionId |-> sessions'[s]]
    BY <1>4
  <2>2. QED
    BY <1>5, <2>1
<1>9. Engine!TypeOK'
  BY <1>2, <1>3, <1>8 DEF Engine!TypeOK
<1>10. TypeOK'
  BY <1>1, <1>7, <1>9 DEF BrokerInv, TypeOK
<1>11. PaneIsKnown'
  BY <1>1, <1>5, <1>6, <1>7 DEF BrokerInv, PaneIsKnown
<1>12. DispatchEndsCurrent'
  <2> SUFFICES ASSUME NEW s \in SessionId
               PROVE  Story(s, transitions'[s], sessions'[s])
    BY DEF DispatchEndsCurrent, Story, Shown
  <2>1. QED
    BY <1>5, <1>6, <1>7
<1>13. QED
  BY <1>1, <1>10, <1>11, <1>12 DEF BrokerInv, LastDrainIsDone

LEMMA DispatchInv ==
    ASSUME BrokerInv, dispatch_render
    PROVE  BrokerInv'
<1> DEFINE trs == transitions[turn]
           t == Head(trs)
           left == [transitions EXCEPT ![turn] = Tail(trs)]
           idle == IF pc = "dispatch" THEN "select" ELSE "stopped"
<1>1. /\ pc \in {"dispatch", "last dispatch"} /\ InSomeOrder(left)
      /\ pc' = IF Waiting(left) # {} THEN pc ELSE idle
      /\ \/ UNCHANGED <<cooling, display>>
         \/ cooling' = cooling \cup {Key(t)} /\ Rendered(t)
      /\ UNCHANGED <<sessions, parent_map, now, channel, pending, session_info, server>>
  BY DEF dispatch_render, engine_vars
<1>2. /\ turn \in SessionId /\ trs # <<>> /\ trs \in Seq(Transition)
      /\ transitions \in [SessionId -> Seq(Transition)]
  BY <1>1 DEF BrokerInv, TypeOK, Waiting
<1>3. Story(turn, trs, sessions[turn])
  BY <1>2 DEF BrokerInv, DispatchEndsCurrent, Story
<1> HIDE DEF trs
<1>4. /\ Len(trs) \in Nat /\ DOMAIN trs = 1..Len(trs)
      /\ t \in Transition /\ Tail(trs) \in Seq(Transition) /\ Len(Tail(trs)) = Len(trs) - 1
      /\ \A i \in 1..(Len(trs) - 1) : Tail(trs)[i] = trs[i + 1]
  BY <1>2, HeadTailProperties, LenProperties
<1>5. left \in [SessionId -> Seq(Transition)]
  BY <1>2, <1>4
<1>6. \A s \in SessionId : left[s] = IF s = turn THEN Tail(trs) ELSE transitions[s]
  BY <1>2
<1> HIDE DEF t, left
<1>7. /\ transitions' = left /\ transitions' \in [SessionId -> Seq(Transition)]
      /\ pc' \in {"select", "dispatch", "last dispatch", "stopped"}
      /\ IF pc' \in {"dispatch", "last dispatch"} THEN turn' \in Waiting(transitions)'
         ELSE turn' = NoSession /\ transitions' = Nothing
  <2>1. idle \in {"select", "stopped"} /\ pc' = IF Waiting(left) = {} THEN idle ELSE pc
    BY <1>1
  <2>2. QED
    BY <1>1, <1>5, <2>1, TurnFollows
<1>8. cooling' \subseteq SessionId \X AgentState /\ display' \in [Pane -> AgentState]
  <2>1. /\ cooling \subseteq SessionId \X AgentState /\ display \in [Pane -> AgentState]
        /\ t.new \in AgentState /\ t.session \in SessionId
    BY <1>4 DEF BrokerInv, TypeOK, Transition
  <2>2. Key(t) \in SessionId \X AgentState
    BY <2>1 DEF Key
  <2>3. Rendered(t) => display' \in [Pane -> AgentState]
    BY <2>1 DEF Rendered
  <2>4. QED
    BY <1>1, <2>1, <2>2, <2>3
<1>9. TypeOK'
  <2>1. /\ Engine!TypeOK'
        /\ channel' \in Seq(Frames \cup {Garbage}) /\ Len(channel') <= EVENT_CHANNEL_CAPACITY
        /\ pending' \in [SessionId -> Seq(Frames)]
        /\ \A s \in SessionId : \A i \in DOMAIN pending'[s] : pending'[s][i].session = s
        /\ session_info' \in [SessionId -> Pane \cup {NoPane, "Unseen"}]
        /\ server' \in {"open", "closing", "closed"}
    BY <1>1 DEF BrokerInv, TypeOK, Engine!TypeOK
  <2>2. QED
    BY <1>7, <1>8, <2>1 DEF TypeOK
<1>10. PaneIsKnown'
  BY <1>1, <1>2, <1>6, <1>7 DEF BrokerInv, PaneIsKnown, trs
<1>11. Story(turn, Tail(trs), sessions[turn])
  <2> DEFINE m == Tail(trs)
             n == Len(trs)
  <2>1. /\ Len(m) = n - 1 /\ n \in Nat /\ DOMAIN m = 1..(n - 1) /\ (m # <<>> => n - 1 # 0)
    BY <1>4, LenProperties, EmptySeq
  <2>2. \A i \in 1..(n - 1) : m[i] = trs[i + 1] /\ i + 1 \in 1..n
    BY <1>4
  <2>3. /\ trs[n].new = Shown(sessions[turn])
        /\ \A i \in 1..(n - 1) : trs[i].new = trs[i + 1].previous
        /\ \A i \in 1..n : trs[i].session = turn /\ trs[i].new # trs[i].previous
    BY <1>2, <1>3, <1>4 DEF Story
  <2> HIDE DEF m, n
  <2>4. m # <<>> => m[Len(m)].new = Shown(sessions[turn])
    BY <2>1, <2>2, <2>3
  <2>5. \A i \in 1..(Len(m) - 1) : m[i].new = m[i + 1].previous
    BY <2>1, <2>2, <2>3
  <2>6. \A i \in DOMAIN m : m[i].session = turn /\ m[i].new # m[i].previous
    BY <2>1, <2>2, <2>3
  <2>7. QED
    BY <2>4, <2>5, <2>6 DEF Story, m
<1>12. DispatchEndsCurrent'
  <2> SUFFICES ASSUME NEW s \in SessionId
               PROVE  Story(s, transitions'[s], sessions'[s])
    BY DEF DispatchEndsCurrent, Story, Shown
  <2>1. CASE s = turn
    BY <1>1, <1>6, <1>7, <1>11, <2>1
  <2>2. CASE s # turn
    <3>1. Story(s, transitions[s], sessions[s])
      BY DEF BrokerInv, DispatchEndsCurrent, Story
    <3>2. QED
      BY <1>1, <1>6, <1>7, <2>2, <3>1
  <2>3. QED
    BY <2>1, <2>2
<1>13. LastDrainIsDone'
  BY <1>1 DEF BrokerInv, LastDrainIsDone
<1>14. QED
  BY <1>9, <1>10, <1>12, <1>13 DEF BrokerInv

LEMMA CrashInv ==
    ASSUME BrokerInv, Crash
    PROVE  BrokerInv'
<1>1. /\ \A s \in SessionId : sessions'[s] = NoSession
      /\ sessions' = [s \in SessionId |-> NoSession]
      /\ parent_map' = [s \in SessionId |-> NoParent]
      /\ channel' = <<>> /\ pending' = Nothing
      /\ session_info' = [s \in SessionId |-> "Unseen"]
      /\ cooling' = {} /\ transitions' = Nothing /\ turn' = NoSession /\ pc' = "select"
      /\ UNCHANGED <<now, display, server>>
  BY DEF Crash
<1>2. Engine!TypeOK'
  BY <1>1 DEF BrokerInv, TypeOK, Engine!TypeOK
<1>3. /\ channel' \in Seq(Frames \cup {Garbage}) /\ Len(channel') <= EVENT_CHANNEL_CAPACITY
  <2>1. Len(<<>>) = 0 /\ EVENT_CHANNEL_CAPACITY \in Nat
    BY BrokerAssumption, EmptySeq
  <2>2. QED
    BY <1>1, <2>1
<1>4. \A s \in SessionId : \A i \in DOMAIN pending'[s] : pending'[s][i].session = s
  BY <1>1, NothingTyped
<1>5. /\ session_info' \in [SessionId -> Pane \cup {NoPane, "Unseen"}]
      /\ display' \in [Pane -> AgentState] /\ server' \in {"open", "closing", "closed"}
  BY <1>1 DEF BrokerInv, TypeOK
<1>6. TypeOK'
  BY <1>1, <1>2, <1>3, <1>4, <1>5, NothingTyped DEF TypeOK
<1>7. PaneIsKnown'
  BY <1>1, NothingTyped DEF PaneIsKnown
<1>8. DispatchEndsCurrent'
  BY <1>1, NothingTyped DEF DispatchEndsCurrent
<1>9. QED
  BY <1>1, <1>6, <1>7, <1>8 DEF BrokerInv, LastDrainIsDone

LEMMA StepInv == BrokerInv /\ [Next]_vars => BrokerInv'
<1> SUFFICES ASSUME BrokerInv, [Next]_vars PROVE BrokerInv'
  OBVIOUS
<1>1. ASSUME NEW f \in Frames \cup {Garbage}, Send(f) PROVE BrokerInv'
  BY <1>1, SendInv
<1>2. CASE Shutdown \/ ServerGone \/ Cool \/ Tick
  BY <1>2, QuietInv
<1>3. CASE buffer_event
  BY <1>3, BufferInv
<1>4. CASE drain_tick
  BY <1>4, DrainInv DEF drain_tick, thenSelect
<1>5. CASE final_drain
  BY <1>5, DrainInv DEF final_drain, thenStop
<1>6. CASE ttl_tick
  BY <1>6, TtlInv
<1>7. CASE dispatch_render
  BY <1>7, DispatchInv
<1>8. CASE Crash
  BY <1>8, CrashInv
<1>9. CASE UNCHANGED vars
  <2>1. /\ UNCHANGED <<sessions, parent_map, now, channel, pending, session_info, cooling,
                       transitions, turn, pc, display, server>>
    BY <1>9 DEF vars
  <2>2. /\ Engine!TypeOK' /\ cooling' \subseteq cooling
        /\ channel' \in Seq(Frames \cup {Garbage}) /\ Len(channel') <= EVENT_CHANNEL_CAPACITY
        /\ server' \in {"open", "closing", "closed"}
    BY <2>1 DEF BrokerInv, TypeOK, Engine!TypeOK
  <2>3. QED
    BY <2>1, <2>2, OutsideInv
<1>10. QED
  BY <1>1, <1>2, <1>3, <1>4, <1>5, <1>6, <1>7, <1>8, <1>9 DEF Next

-----------------------------------------------------------------------------
(* The order of arrival                                                    *)

\* When timestamps tell events apart, an event's place depends on the timestamps
\* alone: those up to its own are counted.
LEMMA PlaceByTimestamp ==
    ASSUME NEW w \in Seq(Frames),
           \A i, j \in DOMAIN w : w[i].timestamp = w[j].timestamp => i = j,
           NEW i \in DOMAIN w
    PROVE  Earlier(w, i) = {j \in DOMAIN w : w[j].timestamp <= w[i].timestamp}
<1>1. /\ Len(w) \in Nat /\ DOMAIN w = 1..Len(w)
      /\ \A j \in DOMAIN w : w[j].timestamp \in Nat
  BY TypeOfFrames
<1>2. ASSUME NEW j \in DOMAIN w
      PROVE  w[j].timestamp <= w[i].timestamp
                <=> \/ w[j].timestamp < w[i].timestamp
                    \/ w[j].timestamp = w[i].timestamp /\ j <= i
  <2>1. w[j].timestamp \in Nat /\ w[i].timestamp \in Nat /\ i \in Nat /\ j \in Nat
    BY <1>1
  <2>2. w[i].timestamp = w[j].timestamp => i = j
    OBVIOUS
  <2>3. QED
    BY <2>1, <2>2
<1>3. QED
  BY <1>2 DEF Earlier

\* A reordering of such events is sorted into the same sequence.
LEMMA SameWhenSorted ==
    ASSUME NEW w \in Seq(Frames),
           \A i, j \in DOMAIN w : w[i].timestamp = w[j].timestamp => i = j,
           NEW order \in Bijection(DOMAIN w, DOMAIN w)
    PROVE  in_order([i \in DOMAIN order |-> w[order[i]]]) = in_order(w)
<1> DEFINE u == [i \in DOMAIN order |-> w[order[i]]]
           n == Len(w)
<1>1. n \in Nat /\ DOMAIN w = 1..n /\ \A i \in 1..n : w[i] \in Frames
  BY TypeOfFrames
<1> HIDE DEF n
<1>2. /\ order \in [1..n -> 1..n]
      /\ \A i, j \in 1..n : order[i] = order[j] => i = j
      /\ \A k \in 1..n : \E i \in 1..n : order[i] = k
  BY <1>1 DEF Bijection, Injection, Surjection, IsInjective
<1>3. DOMAIN u = 1..n /\ \A i \in 1..n : u[i] = w[order[i]] /\ order[i] \in 1..n
  BY <1>2
<1>4. u \in Seq(Frames) /\ Len(u) = n
  <2>1. u \in [1..n -> Frames]
    BY <1>1, <1>2, <1>3
  <2> HIDE DEF u
  <2>2. QED
    BY <1>1, <2>1, IsASeq, LenProperties
<1> HIDE DEF u
<1>5. \A i, j \in DOMAIN u : u[i].timestamp = u[j].timestamp => i = j
  BY <1>1, <1>2, <1>3
<1>6. ASSUME NEW i \in 1..n
      PROVE  Place(u, i) = Place(w, order[i])
  <2> DEFINE S == Earlier(u, i)
             T == Earlier(w, order[i])
             f == [j \in S |-> order[j]]
  <2>1. S = {j \in 1..n : u[j].timestamp <= u[i].timestamp}
    <3>1. i \in DOMAIN u
      BY <1>3
    <3>2. Earlier(u, i) = {j \in DOMAIN u : u[j].timestamp <= u[i].timestamp}
      BY <1>4, <1>5, <3>1, PlaceByTimestamp
    <3>3. QED
      BY <1>3, <3>2
  <2>2. T = {j \in 1..n : w[j].timestamp <= w[order[i]].timestamp}
    <3>1. order[i] \in DOMAIN w
      BY <1>1, <1>3
    <3>2. Earlier(w, order[i])
            = {j \in DOMAIN w : w[j].timestamp <= w[order[i]].timestamp}
      BY <3>1, PlaceByTimestamp
    <3>3. QED
      BY <1>1, <3>2
  <2>3. IsFiniteSet(S)
    <3>1. IsFiniteSet(1..n)
      BY <1>1, FS_Interval
    <3>2. S \in SUBSET (1..n)
      BY <2>1
    <3> HIDE DEF S
    <3>3. QED
      BY <3>1, <3>2, FS_Subset
  <2> HIDE DEF S, T
  <2>4. \A j \in S : order[j] \in T
    BY <1>3, <2>1, <2>2
  <2>5. \A k \in T : \E j \in S : order[j] = k
    BY <1>2, <1>3, <2>1, <2>2
  <2>6. f \in Bijection(S, T)
    <3>1. f \in [S -> T] /\ \A j \in S : f[j] = order[j]
      BY <2>4
    <3>2. \A j, k \in S : f[j] = f[k] => j = k
      BY <1>2, <2>1, <3>1
    <3>3. \A k \in T : \E j \in S : f[j] = k
      BY <2>5, <3>1
    <3> HIDE DEF f
    <3>4. QED
      BY <3>1, <3>2, <3>3 DEF Bijection, Injection, Surjection, IsInjective
  <2>7. ExistsBijection(S, T)
    BY <2>6 DEF ExistsBijection
  <2>8. Cardinality(T) = Cardinality(S)
    BY <2>3, <2>7, FS_Bijection
  <2>9. QED
    BY <2>8 DEF Place, S, T
<1>7. /\ in_order(u) \in Seq(Frames) /\ Len(in_order(u)) = n
      /\ \A k \in 1..n : \E i \in 1..n : Place(u, i) = k /\ in_order(u)[k] = u[i]
      /\ in_order(w) \in Seq(Frames) /\ Len(in_order(w)) = n
      /\ \A k \in 1..n : \E i \in 1..n : Place(w, i) = k /\ in_order(w)[k] = w[i]
  <2>1. /\ in_order(u) \in Seq(Frames) /\ Len(in_order(u)) = n
        /\ \A k \in DOMAIN u : \E i \in DOMAIN u : Place(u, i) = k /\ in_order(u)[k] = u[i]
    BY <1>4, InOrder
  <2>2. /\ in_order(w) \in Seq(Frames) /\ Len(in_order(w)) = n
        /\ \A k \in DOMAIN w : \E i \in DOMAIN w : Place(w, i) = k /\ in_order(w)[k] = w[i]
    BY InOrder DEF n
  <2>3. QED
    BY <1>1, <1>3, <2>1, <2>2
<1>8. \A i, j \in 1..n : Place(w, i) = Place(w, j) => i = j
  BY <1>1, PlacesDiffer
<1>9. ASSUME NEW k \in 1..n
      PROVE  in_order(u)[k] = in_order(w)[k]
  <2>1. PICK i \in 1..n : Place(u, i) = k /\ in_order(u)[k] = u[i]
    BY <1>7
  <2>2. PICK j \in 1..n : Place(w, j) = k /\ in_order(w)[k] = w[j]
    BY <1>7
  <2>3. j = order[i]
    BY <1>3, <1>6, <1>8, <2>1, <2>2
  <2>4. QED
    BY <1>3, <2>1, <2>2, <2>3
<1>10. in_order(u) = in_order(w)
  BY <1>7, <1>9, SeqEqual
<1>11. QED
  BY <1>10 DEF u

-----------------------------------------------------------------------------
(* The engine inside the broker keeps its own invariants, although a drain  *)
(* folds whole windows and the links session by session.                    *)

\* What folding the events of s keeps of SessionConsistent and ParentMapClosed.
Sound(s, entry, parent) ==
    /\ entry # NoSession => Engine!Coherent(entry) /\ entry.seen_event_ids # {}
    /\ parent # NoParent => entry # NoSession /\ parent # s

LEMMA IngestedCoherent ==
    ASSUME NEW entry \in Engine!SessionState \cup {NoSession}, NEW e \in Frames, NEW t \in Nat,
           entry # NoSession => Engine!Coherent(entry) /\ entry.seen_event_ids # {}
    PROVE  /\ Engine!Coherent(Engine!ingested(entry, e, t))
           /\ Engine!ingested(entry, e, t).seen_event_ids # {}
<1> DEFINE x == IF entry = NoSession THEN Engine!new(t) ELSE entry
           proposed == Engine!state_from_event(e.event_type, Engine!is_risk(e))
           f == Engine!EffectiveState(x, e)
           y == [state |-> f,
                 error_type |-> IF f = x.state THEN x.error_type
                                ELSE IF f = "Error" THEN e.event_type ELSE Engine!NoError,
                 updated_at |-> e.timestamp,
                 ttl |-> Engine!ttl_duration(f),
                 seen_event_ids |-> x.seen_event_ids \cup {e.event_id}]
<1>1. Engine!Coherent(Engine!new(t)) /\ Engine!new(t).seen_event_ids = {}
  BY DEF Engine!new, Engine!Coherent, Engine!ttl_duration
<1>2. Engine!Coherent(x) /\ (e.event_id \in x.seen_event_ids => x.seen_event_ids # {})
  BY <1>1
<1>3. proposed = "Error" => e.event_type \in Engine!FailureEvent
  <2>1. Engine!is_risk(e) \in BOOLEAN
    BY DEF Engine!is_risk
  <2>2. QED
    BY <2>1, StateFromEvent
<1>4. Engine!ingested(entry, e, t) = IF e.event_id \in x.seen_event_ids THEN x ELSE y
  BY DEF Engine!ingested, Engine!apply
<1> HIDE DEF x
<1>5. f \in {x.state, proposed, "Attention"}
  BY DEF Engine!EffectiveState, Engine!resolve_effective_state
<1>6. f # x.state /\ f = "Error" => e.event_type # Engine!NoError
  BY <1>3, <1>5 DEF Engine!FailureEvent, Engine!NoError
<1> HIDE DEF f
<1>7. /\ y.state = f /\ y.ttl = Engine!ttl_duration(f)
      /\ y.error_type = IF f = x.state THEN x.error_type
                        ELSE IF f = "Error" THEN e.event_type ELSE Engine!NoError
      /\ y.seen_event_ids # {}
  OBVIOUS
<1> HIDE DEF y
<1>8. Engine!Coherent(y)
  BY <1>2, <1>6, <1>7 DEF Engine!Coherent
<1>9. QED
  BY <1>2, <1>4, <1>7, <1>8

LEMMA IngestedSound ==
    ASSUME Engine!TypeOK, NEW s \in SessionId, NEW events \in Seq(Frames),
           \A i \in DOMAIN events : events[i].session = s,
           Sound(s, sessions[s], parent_map[s])
    PROVE  Sound(s, Ingested(s, events).entry, Ingested(s, events).parents[s])
<1> DEFINE n == Len(events)
           start == [entry |-> sessions[s], parents |-> parent_map, transitions |-> <<>>]
           Kept(a) == /\ Accumulated(s, a)
                      /\ Sound(s, a.entry, a.parents[s])
<1>1. n \in Nat /\ DOMAIN events = 1..n /\ \A i \in 1..n : events[i] \in Frames
  BY TypeOfFrames
<1>2. PICK g : Unfolds(g, s, events) /\ Ingested(s, events) = g[n]
  BY IngestedUnfolds
<1>3. g[0] = start /\ \A i \in 1..n : g[i] = ingest(g[i - 1], events[i])
  BY <1>1, <1>2 DEF Unfolds
<1>4. Kept(start)
  <2>1. /\ start.entry = sessions[s] /\ start.transitions = <<>>
        /\ start.parents = parent_map
    OBVIOUS
  <2>2. /\ sessions[s] \in Engine!SessionState \cup {NoSession}
        /\ parent_map \in [SessionId -> SessionId \cup {NoParent}]
    BY DEF Engine!TypeOK
  <2>3. <<>> \in Seq(Transition) /\ Story(s, <<>>, sessions[s])
    BY DEF Story
  <2> HIDE DEF start
  <2>4. QED
    BY <2>1, <2>2, <2>3 DEF Accumulated
<1>5. ASSUME NEW a, Kept(a), NEW e \in Frames, e.session = s
      PROVE  Kept(ingest(a, e))
  <2> DEFINE entry == Engine!ingested(a.entry, e, now)
             b == ingest(a, e)
  <2>1. now \in Nat
    BY DEF Engine!TypeOK
  <2>2. Accumulated(s, b)
    BY <1>5, <2>1, IngestAccumulates
  <2>3. b.entry = entry /\ b.parents = Engine!linked(a.parents, e)
    BY DEF ingest
  <2>4. /\ a.entry \in Engine!SessionState \cup {NoSession}
        /\ a.parents \in [SessionId -> SessionId \cup {NoParent}]
    BY <1>5 DEF Accumulated
  <2>5. a.entry # NoSession => Engine!Coherent(a.entry) /\ a.entry.seen_event_ids # {}
    BY <1>5 DEF Sound
  <2>6. /\ entry \in Engine!SessionState /\ Engine!Coherent(entry)
        /\ entry.seen_event_ids # {}
    BY <2>1, <2>4, <2>5, IngestedTyped, IngestedCoherent
  <2> HIDE DEF entry, b
  <2>7. b.parents[s] = a.parents[s] \/ b.parents[s] # s
    BY <1>5, <2>3, <2>4 DEF Engine!linked
  <2>8. a.parents[s] # NoParent => a.parents[s] # s
    BY <1>5 DEF Sound
  <2>9. Sound(s, b.entry, b.parents[s])
    BY <2>3, <2>6, <2>7, <2>8, BrokerAssumption DEF Sound
  <2>10. QED
    BY <2>2, <2>9 DEF b
<1> HIDE DEF n, start, Kept
<1> DEFINE S == {i \in Nat : i <= n => Kept(g[i])}
<1>6. 0 \in S
  BY <1>3, <1>4
<1>7. ASSUME NEW i \in Nat, i \in S
      PROVE  i + 1 \in S
  <2> SUFFICES ASSUME i + 1 <= n PROVE Kept(g[i + 1])
    OBVIOUS
  <2>1. Kept(g[i])
    BY <1>1, <1>7
  <2>2. i + 1 \in 1..n /\ (i + 1) - 1 = i
    BY <1>1
  <2>3. g[i + 1] = ingest(g[i], events[i + 1])
    BY <1>3, <2>2
  <2>4. events[i + 1] \in Frames /\ events[i + 1].session = s
    BY <1>1, <2>2
  <2>5. QED
    BY <1>5, <2>1, <2>3, <2>4
<1>8. n \in S
  BY <1>1, <1>6, <1>7, Induct
<1>9. Kept(g[n])
  BY <1>1, <1>8
<1>10. QED
  BY <1>2, <1>9 DEF Kept

SoundEngine == \A s \in SessionId : Sound(s, sessions[s], parent_map[s])

LEMMA SoundEngineKeeps ==
    ASSUME SoundEngine
    PROVE  Engine!SessionConsistent /\ Engine!ParentMapClosed
  BY DEF SoundEngine, Sound, Engine!SessionConsistent, Engine!ParentMapClosed, Engine!Live

LEMMA DrainSound ==
    ASSUME BrokerInv, SoundEngine, drain_and_process
    PROVE  SoundEngine'
<1> SUFFICES ASSUME NEW s \in SessionId
             PROVE  Sound(s, sessions'[s], parent_map'[s])
  BY DEF SoundEngine, Sound, Engine!Coherent
<1> DEFINE w == pending[s]
           events == in_order(w)
<1>1. w \in Seq(Frames) /\ \A i \in DOMAIN w : w[i].session = s
  BY DEF BrokerInv, TypeOK
<1>2. /\ sessions'[s] = Ingested(s, events).entry
      /\ parent_map'[s] = Ingested(s, events).parents[s]
  BY DEF drain_and_process, drained
<1> HIDE DEF w
<1>3. /\ events \in Seq(Frames) /\ Len(events) = Len(w)
      /\ \A k \in DOMAIN w : \E i \in DOMAIN w : events[k] = w[i]
  BY <1>1, InOrder
<1> HIDE DEF events
<1>4. DOMAIN events = DOMAIN w
  BY <1>1, <1>3, TypeOfFrames
<1>5. \A k \in DOMAIN events : events[k].session = s
  BY <1>1, <1>3, <1>4
<1>6. Engine!TypeOK /\ Sound(s, sessions[s], parent_map[s])
  BY DEF BrokerInv, TypeOK, SoundEngine
<1>7. Sound(s, Ingested(s, events).entry, Ingested(s, events).parents[s])
  BY <1>3, <1>5, <1>6, IngestedSound
<1>8. QED
  BY <1>2, <1>7

LEMMA SweepSound ==
    ASSUME BrokerInv, SoundEngine, Engine!expire_ttls
    PROVE  SoundEngine'
<1> SUFFICES ASSUME NEW s \in SessionId
             PROVE  Sound(s, sessions'[s], parent_map'[s])
  BY DEF SoundEngine, Sound, Engine!Coherent
<1> DEFINE x == sessions[s]
           y == Engine!check_ttl(x, now)
           gone == Engine!expired_ids(now)
<1>1. /\ sessions'[s] = IF s \notin Engine!Live \/ s \in gone THEN NoSession ELSE y
      /\ parent_map'[s] = IF s \in gone THEN NoParent ELSE parent_map[s]
  BY DEF Engine!expire_ttls, Engine!unlinked
<1>2. /\ now \in Nat /\ x \in Engine!SessionState \cup {NoSession}
      /\ Sound(s, x, parent_map[s]) /\ (s \in Engine!Live <=> x # NoSession)
  BY DEF BrokerInv, TypeOK, Engine!TypeOK, SoundEngine, Engine!Live
<1> HIDE DEF gone
<1>3. CASE s \notin Engine!Live \/ s \in gone
  BY <1>1, <1>2, <1>3 DEF Sound
<1>4. CASE s \in Engine!Live /\ s \notin gone
  <2>1. /\ x \in Engine!SessionState /\ Engine!Coherent(x) /\ x.seen_event_ids # {}
        /\ sessions'[s] = y /\ parent_map'[s] = parent_map[s]
    BY <1>1, <1>2, <1>4 DEF Sound
  <2>2. Engine!Coherent(y) /\ y.seen_event_ids = x.seen_event_ids
    BY <2>1 DEF Engine!check_ttl, Engine!Coherent, Engine!SessionState
  <2>3. y # NoSession
    BY <1>2, <2>1, CheckTtlTyped, BrokerAssumption
  <2>4. QED
    BY <1>2, <2>1, <2>2, <2>3 DEF Sound
<1>5. QED
  BY <1>3, <1>4

LEMMA SoundStep == BrokerInv /\ SoundEngine /\ [Next]_vars => SoundEngine'
<1> SUFFICES ASSUME BrokerInv, SoundEngine, [Next]_vars PROVE SoundEngine'
  OBVIOUS
<1>1. CASE drain_tick \/ final_drain
  BY <1>1, DrainSound DEF drain_tick, final_drain
<1>2. CASE ttl_tick
  BY <1>2, SweepSound DEF ttl_tick
<1>3. CASE Crash
  BY <1>3 DEF Crash, SoundEngine, Sound
<1>4. CASE UNCHANGED <<sessions, parent_map>>
  BY <1>4 DEF SoundEngine, Sound, Engine!Coherent
<1>5. ASSUME NEW f \in Frames \cup {Garbage}, Send(f) PROVE UNCHANGED <<sessions, parent_map>>
  BY <1>5 DEF Send, engine_vars
<1>6. Shutdown \/ ServerGone \/ buffer_event \/ dispatch_render \/ Cool \/ Tick
        => UNCHANGED <<sessions, parent_map>>
  BY DEF Shutdown, ServerGone, buffer_event, dispatch_render, Cool, Tick, Engine!Tick, engine_vars
<1>7. UNCHANGED vars => UNCHANGED <<sessions, parent_map>>
  BY DEF vars
<1>8. QED
  BY <1>1, <1>2, <1>3, <1>4, <1>5, <1>6, <1>7 DEF Next

-----------------------------------------------------------------------------
(* The theorems                                                            *)

THEOREM InvariantHolds == Spec => []BrokerInv
  BY InitInv, StepInv, PTL DEF Spec

\* Every variable stays in its domain; in particular every buffered frame waits
\* with its own session, the channel never holds more than its capacity, and the
\* select loop stands still exactly while some session has a transition left.
THEOREM BrokerIsTypeCorrect == Spec => []TypeOK
<1>1. BrokerInv => TypeOK
  BY DEF BrokerInv
<1>2. QED
  BY <1>1, InvariantHolds, PTL

\* Whatever is rendered, buffered or live has had its pane noted by the frame that
\* brought it in.
THEOREM PanesAreKnown == Spec => []PaneIsKnown
<1>1. BrokerInv => PaneIsKnown
  BY DEF BrokerInv
<1>2. QED
  BY <1>1, InvariantHolds, PTL

\* What a dispatch still has to render is a chain of changes that ends in the state
\* the engine holds.
THEOREM DispatchesEndCurrent == Spec => []DispatchEndsCurrent
<1>1. BrokerInv => DispatchEndsCurrent
  BY DEF BrokerInv
<1>2. QED
  BY <1>1, InvariantHolds, PTL

\* The loop ends only after the last drain and its dispatch.
THEOREM StoppedBrokerIsDone == Spec => []NothingReadIsLost
<1>1. BrokerInv => NothingReadIsLost
  BY DEF BrokerInv, TypeOK, LastDrainIsDone, NothingReadIsLost
<1>2. QED
  BY <1>1, InvariantHolds, PTL

\* A window whose timestamps differ folds into the same entry, links and transitions
\* in whatever order its frames came in.
THEOREM ArrivalOrderForgotten == Spec => []ArrivalOrderIsForgotten
<1>1. ASSUME TypeOK PROVE ArrivalOrderIsForgotten
  <2> SUFFICES ASSUME NEW s \in SessionId,
                      \A i, j \in DOMAIN pending[s] :
                          pending[s][i].timestamp = pending[s][j].timestamp => i = j,
                      NEW order \in Bijection(DOMAIN pending[s], DOMAIN pending[s])
               PROVE  in_order([i \in DOMAIN order |-> pending[s][order[i]]])
                        = in_order(pending[s])
    BY DEF ArrivalOrderIsForgotten
  <2>1. pending[s] \in Seq(Frames)
    BY <1>1 DEF TypeOK
  <2>2. QED
    BY <2>1, SameWhenSorted
<1>2. QED
  BY <1>1, BrokerIsTypeCorrect, PTL

\* The engine the broker drives, by whole windows and with restarts, keeps what the
\* engine promises on its own: coherent entries, and links that start from a live
\* session and never loop on it.
THEOREM EngineStaysConsistent == Spec => [](Engine!SessionConsistent /\ Engine!ParentMapClosed)
<1>1. Init => SoundEngine
  BY DEF Init, Engine!Init, SoundEngine, Sound
<1>2. Spec => []SoundEngine
  BY <1>1, InvariantHolds, SoundStep, PTL DEF Spec
<1>3. SoundEngine => Engine!SessionConsistent /\ Engine!ParentMapClosed
  BY SoundEngineKeeps
<1>4. QED
  BY <1>2, <1>3, PTL

\* in_order is a stable sort: of two events, the one with the earlier timestamp, or
\* with the same one but received first, comes first.
THEOREM InOrderIsStableSort ==
    ASSUME NEW events \in Seq(Frames), NEW i \in DOMAIN events, NEW j \in DOMAIN events,
           \/ events[i].timestamp < events[j].timestamp
           \/ events[i].timestamp = events[j].timestamp /\ i < j
    PROVE  /\ Place(events, i) < Place(events, j)
           /\ in_order(events)[Place(events, i)] = events[i]
           /\ in_order(events)[Place(events, j)] = events[j]
<1> DEFINE n == Len(events)
<1>1. /\ n \in Nat /\ DOMAIN events = 1..n
      /\ \A k \in 1..n : events[k].timestamp \in Nat
  BY TypeOfFrames
<1>2. \A k \in DOMAIN events :
        /\ Place(events, k) \in DOMAIN events
        /\ \A m \in DOMAIN events : Place(events, k) = Place(events, m) => k = m
  BY <1>1, PlacesDiffer
<1>3. \A k \in DOMAIN events : in_order(events)[Place(events, k)] = events[k]
  <2> SUFFICES ASSUME NEW k \in DOMAIN events
               PROVE  in_order(events)[Place(events, k)] = events[k]
    OBVIOUS
  <2>1. PICK m \in DOMAIN events : /\ Place(events, m) = Place(events, k)
                                  /\ in_order(events)[Place(events, k)] = events[m]
    BY <1>2, InOrder
  <2>2. QED
    BY <1>2, <2>1
<1> HIDE DEF n
<1>4. Earlier(events, i) \subseteq Earlier(events, j)
  BY <1>1 DEF Earlier
<1>5. IsFiniteSet(Earlier(events, j))
  <2>1. IsFiniteSet(1..n) /\ Earlier(events, j) \in SUBSET (1..n)
    BY <1>1, FS_Interval DEF Earlier
  <2>2. QED
    BY <2>1, FS_Subset
<1>6. Place(events, i) <= Place(events, j)
  BY <1>4, <1>5, FS_Subset DEF Place
<1>7. Place(events, i) # Place(events, j)
  BY <1>1, <1>2
<1>8. Place(events, i) \in Nat /\ Place(events, j) \in Nat
  BY <1>1, <1>2
<1>9. QED
  BY <1>3, <1>6, <1>7, <1>8
=============================================================================

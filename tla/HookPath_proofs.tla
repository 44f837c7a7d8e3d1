---------------------------- MODULE HookPath_proofs ----------------------------
(***************************************************************************)
(* Proofs about HookPath for any hook types installed, commands, messages, *)
(* edits and instants.                                                     *)
(*                                                                         *)
(* The argument: the session is never in RISK - the one event that could   *)
(* bring it there names no command - and, while a question that was heard  *)
(* is open, is in ATTENTION with a lifetime counted from the question or   *)
(* later.                                                                  *)
(***************************************************************************)
EXTENDS HookPath, TLAPS

HookEventType ==
    {"SessionStarted", "AgentStarted", "ToolStarted", "ToolCompleted", "ToolFailed",
     "UserApprovalRequired", "UserInputRequired", "AgentCompleted", "SessionStopped"}

\* What is known of a session that is known at all.
Quiet(x) == x.seen_event_ids = {} /\ x.state # "Risk"

\* A question asked at t shows, and will until four hours after t.
Showing(x, t) == x # None /\ x.state = "Attention" /\ x.ttl = 14400 /\ x.updated_at >= t

HookInv ==
    /\ now \in Nat /\ asked_at \subseteq Nat
    /\ sessions \in [{Session} -> Engine!SessionState \cup {None}]
    /\ sessions[Session] # None => Quiet(sessions[Session])
    /\ \A t \in asked_at : t <= now /\ (now < t + 14400 => Showing(sessions[Session], t))

-----------------------------------------------------------------------------
(* One hook                                                                *)

Payload(type, tool, command, words, cut) ==
    [object |-> TRUE, hook_event_name |-> type, tool |-> tool,
     command |-> command, words |-> words, cut |-> cut]

LEMMA HookEvents ==
    ASSUME NEW type \in HookEvent, NEW tool, NEW command, NEW words, NEW cut, NEW entries,
           NEW e \in build_event(entries, Payload(type, tool, command, words, cut))
    PROVE  /\ e.event_type \in HookEventType
           /\ e.event_type \in {"UserApprovalRequired", "UserInputRequired"} => e.risk = "None"
<1> DEFINE payload == Payload(type, tool, command, words, cut)
<1>1. /\ payload.object /\ payload.hook_event_name = type
      /\ payload.words = words
  BY DEF Payload
<1> HIDE DEF payload
<1>2. e = parse(payload) /\ parse(payload).outcome = "event"
  BY DEF build_event, payload
<1>3. type \notin {"missing", "not a text"}
  BY DEF HookEvent
<1>4. ~panics(payload)
  BY <1>1, <1>2, <1>3 DEF parse
<1>5. e = [outcome |-> "event", event_type |-> event_type(payload),
           risk |-> IF type = "PreToolUse" THEN evaluate_risk(payload) ELSE "None"]
  BY <1>1, <1>2, <1>3, <1>4 DEF parse
<1>6. /\ event_type(payload) \in HookEventType
      /\ type = "PreToolUse" => event_type(payload) = "ToolStarted"
  BY <1>1 DEF event_type, classify_notification, HookEventType, HookEvent
<1>. QED BY <1>2, <1>5, <1>6

LEMMA ResolveHook ==
    ASSUME NEW current \in Engine!AgentState, current # "Risk", NEW ty \in HookEventType,
           NEW r \in BOOLEAN, ty = "UserApprovalRequired" => ~r
    PROVE  LET next == Engine!resolve_effective_state(current, Engine!state_from_event(ty, r), ty) IN
           /\ next \in Engine!AgentState /\ next # "Risk"
           /\ next = "Error" => current = "Error" \/ ty = "ToolFailed"
           /\ ty \in {"UserApprovalRequired", "UserInputRequired"} => next = "Attention"
           /\ current = "Attention" =>
                 next \in {"Attention", "Error"} /\ (ty # "ToolFailed" => next = "Attention")
<1> DEFINE proposed == Engine!state_from_event(ty, r)
<1>1. /\ proposed = (CASE ty = "ToolFailed" -> "Error"
                      [] ty = "AgentCompleted" -> "Result"
                      [] ty \in {"SessionStarted", "SessionStopped"} -> "Idle"
                      [] ty \in {"UserApprovalRequired", "UserInputRequired"} -> "Attention"
                      [] OTHER -> "Working")
      /\ Engine!forced_transition(ty) <=> ty = "ToolFailed"
      /\ ty # "ProviderDisconnected"
  BY DEF Engine!state_from_event, Engine!forced_transition, HookEventType, Engine!FailureEvent,
         Engine!ForcedEvent
<1>2. /\ Engine!priority("Attention") = 6 /\ Engine!priority("Error") = 5
      /\ Engine!priority("Result") = 4 /\ Engine!priority("Working") = 3
      /\ Engine!priority("Idle") = 2 /\ Engine!priority("Unknown") = 1
  BY DEF Engine!priority
<1>3. current \in {"Attention", "Error", "Result", "Working", "Idle", "Unknown"}
  BY DEF Engine!AgentState
<1> HIDE DEF proposed
<1>4. Engine!resolve_effective_state(current, proposed, ty) =
         IF ty = "ToolFailed" \/ Engine!priority(proposed) > Engine!priority(current)
         THEN proposed ELSE current
  BY <1>1 DEF Engine!resolve_effective_state
<1>. QED BY <1>1, <1>2, <1>3, <1>4 DEF HookEventType, Engine!AgentState, proposed

LEMMA HeardSession ==
    ASSUME NEW x \in Engine!SessionState \cup {None}, x # None => Quiet(x), now \in Nat,
           NEW e, e.event_type \in HookEventType,
           e.event_type \in {"UserApprovalRequired", "UserInputRequired"} => e.risk = "None"
    PROVE  LET y == [Engine!ingested(x, event(e), now) EXCEPT !.seen_event_ids = {}] IN
           /\ y \in Engine!SessionState /\ Quiet(y)
           /\ y.updated_at = now /\ y.ttl = Engine!ttl_duration(y.state)
           /\ e.event_type \in {"UserApprovalRequired", "UserInputRequired"} => y.state = "Attention"
           /\ x # None /\ x.state = "Attention" =>
                 /\ y.state \in {"Attention", "Error"}
                 /\ e.event_type # "ToolFailed" => y.state = "Attention"
<1> DEFINE base == IF x = None THEN Engine!new(now) ELSE x
           ev   == event(e)
           risk == Engine!is_risk(ev)
           next == Engine!resolve_effective_state(
                       base.state, Engine!state_from_event(e.event_type, risk), e.event_type)
<1>1. Engine!new(now) \in Engine!SessionState /\ Quiet(Engine!new(now))
  BY DEF Engine!new, Engine!SessionState, Engine!NoError, Engine!AgentState, Quiet
<1>2. base \in Engine!SessionState /\ Quiet(base) /\ (x # None => base = x)
  BY <1>1
<1>3. ev.event_id = "new" /\ ev.event_type = e.event_type /\ ev.risk = e.risk /\ ev.timestamp = now
  BY DEF event
<1>4. Engine!ingested(x, ev, now) = Engine!apply(base, ev)
  BY DEF Engine!ingested
<1> HIDE DEF base, ev
<1>5. risk \in BOOLEAN /\ (e.event_type = "UserApprovalRequired" => ~risk)
  BY <1>3 DEF Engine!is_risk
<1>6. base.state \in Engine!AgentState /\ base.state # "Risk" /\ base.seen_event_ids = {}
  BY <1>2 DEF Engine!SessionState, Quiet
<1>7. Engine!EffectiveState(base, ev) = next
  BY <1>3 DEF Engine!EffectiveState
<1> HIDE DEF risk
<1>8. /\ next \in Engine!AgentState /\ next # "Risk"
      /\ next = "Error" => base.state = "Error" \/ e.event_type = "ToolFailed"
      /\ e.event_type \in {"UserApprovalRequired", "UserInputRequired"} => next = "Attention"
      /\ base.state = "Attention" =>
            next \in {"Attention", "Error"} /\ (e.event_type # "ToolFailed" => next = "Attention")
  BY <1>5, <1>6, ResolveHook
<1> HIDE DEF next
<1> DEFINE error == IF next = base.state THEN base.error_type
                    ELSE IF next = "Error" THEN e.event_type ELSE Engine!NoError
           y == [state |-> next, error_type |-> error, updated_at |-> now,
                 ttl |-> Engine!ttl_duration(next), seen_event_ids |-> {}]
<1>9. [Engine!apply(base, ev) EXCEPT !.seen_event_ids = {}] = y
  BY <1>3, <1>6, <1>7 DEF Engine!apply
<1>10. error \in Engine!FailureEvent \cup {Engine!NoError}
  BY <1>2, <1>8 DEF Engine!SessionState, Engine!FailureEvent
<1>11. Engine!ttl_duration(next) \in Nat
  BY <1>8 DEF Engine!ttl_duration, Engine!AgentState
<1>12. y \in Engine!SessionState /\ Quiet(y)
  BY <1>8, <1>10, <1>11 DEF Engine!SessionState, Quiet
<1>. QED BY <1>2, <1>4, <1>8, <1>9, <1>12 DEF ev

-----------------------------------------------------------------------------
(* Every step keeps the invariant                                          *)

LEMMA InitKeeps == HInit => HookInv
<1> SUFFICES ASSUME HInit PROVE HookInv
  OBVIOUS
<1>1. sessions = [s \in {Session} |-> None] /\ now = 0
  BY DEF HInit, Engine!Init
<1>. QED BY <1>1 DEF HInit, HookInv, NeverAsked

\* An event of a hook is heard.
Told(e) ==
    /\ e.event_type \in HookEventType
    /\ e.event_type \in {"UserApprovalRequired", "UserInputRequired"} => e.risk = "None"
    /\ heard(e)

\* What hearing an event does, and what hearing none does.
LEMMA HookEffect ==
    ASSUME HookInv, NEW type \in HookEvent, NEW tool, NEW command, NEW words, NEW cut,
           run(type, tool, command, words, cut)
    PROVE  \/ /\ sessions' = sessions
              /\ asked_at' \in {asked_at, NeverAsked}
           \/ \E e : Told(e)
<1> DEFINE payload == Payload(type, tool, command, words, cut)
           events == IF type \in HookType THEN build_event(loaded'[type], payload) ELSE {}
<1>1. /\ \A e \in events : heard(e)
      /\ events = {} => /\ sessions' = sessions
                        /\ asked_at' \in {asked_at, NeverAsked}
  BY DEF run, Payload
<1>2. CASE events = {}
  BY <1>1, <1>2
<1>3. CASE events # {}
  <2>1. PICK e \in events : heard(e)
    BY <1>1, <1>3
  <2>2. e \in build_event(loaded'[type], payload)
    BY <2>1
  <2>. QED BY <2>1, <2>2, HookEvents DEF Told
<1>. QED BY <1>2, <1>3

\* A step of Claude's session that runs a hook.
LEMMA HookKeeps ==
    ASSUME HookInv, NEW type \in HookEvent, NEW tool, NEW command, NEW words, NEW cut,
           run(type, tool, command, words, cut)
    PROVE  HookInv'
<1> DEFINE x == sessions[Session]
<1>1. now' = now
  BY DEF run
<1>2. x \in Engine!SessionState \cup {None} /\ (x # None => Quiet(x)) /\ now \in Nat
  BY DEF HookInv
<1>3. CASE sessions' = sessions /\ asked_at' \in {asked_at, NeverAsked}
  BY <1>1, <1>3 DEF HookInv, NeverAsked
<1>4. ASSUME NEW e, e.event_type \in HookEventType,
             e.event_type \in {"UserApprovalRequired", "UserInputRequired"} => e.risk = "None",
             heard(e)
      PROVE  HookInv'
  <2> DEFINE y == [Engine!ingested(x, event(e), now) EXCEPT !.seen_event_ids = {}]
  <2>1. /\ y \in Engine!SessionState /\ Quiet(y)
        /\ y.updated_at = now /\ y.ttl = Engine!ttl_duration(y.state)
        /\ e.event_type \in {"UserApprovalRequired", "UserInputRequired"} => y.state = "Attention"
        /\ x # None /\ x.state = "Attention" =>
              /\ y.state \in {"Attention", "Error"}
              /\ e.event_type # "ToolFailed" => y.state = "Attention"
    BY <1>2, <1>4, HeardSession
  <2>2. sessions' = [sessions EXCEPT ![Session] = y]
    BY <1>4 DEF heard
  <2>3. /\ sessions'[Session] = y
        /\ sessions' \in [{Session} -> Engine!SessionState \cup {None}]
    BY <2>1, <2>2 DEF HookInv
  <2> HIDE DEF y
  <2>4. y # None
    BY <2>1, HookPathAssumption
  <2>6. y.state = "Attention" => y.ttl = 14400
    BY <2>1 DEF Engine!ttl_duration
  <2>7. asked_at' \subseteq Nat
    BY <1>2, <1>4 DEF heard, NeverAsked, HookInv
  <2>8. ASSUME NEW t \in asked_at', now' < t + 14400
        PROVE  Showing(sessions'[Session], t)
    <3>1. CASE t = now /\ e.event_type \in {"UserApprovalRequired", "UserInputRequired"}
      BY <1>2, <2>1, <2>3, <2>4, <2>6, <3>1 DEF Showing
    <3>2. CASE t \in asked_at /\ e.event_type # "ToolFailed"
      <4>1. Showing(x, t)
        BY <1>1, <2>8, <3>2 DEF HookInv
      <4>2. y.state = "Attention" /\ y.updated_at = now
        BY <2>1, <3>2, <4>1 DEF Showing
      <4>3. now >= t
        BY <1>2, <2>7, <2>8, <3>2 DEF HookInv
      <4>. QED BY <2>3, <2>4, <2>6, <3>2, <4>1, <4>2, <4>3 DEF Showing
    <3>. QED BY <1>4, <2>8, <3>1, <3>2 DEF heard, NeverAsked
  <2>9. \A t \in asked_at' : t <= now'
    BY <1>1, <1>2, <1>4 DEF heard, NeverAsked, HookInv
  <2>. QED BY <1>1, <1>2, <2>1, <2>3, <2>7, <2>8, <2>9, <1>4 DEF HookInv
<1>5. CASE \E e : Told(e)
  <2>1. PICK e : Told(e)
    BY <1>5
  <2>. QED BY <2>1, <1>4 DEF Told
<1>6. \/ (sessions' = sessions /\ asked_at' \in {asked_at, NeverAsked})
      \/ \E e : Told(e)
  BY HookEffect, Zenon
<1>. QED BY <1>3, <1>5, <1>6

\* The sweep: nothing, one step of ageing, or the end of the session.
LEMMA SweepEffect ==
    ASSUME HookInv, Sweep
    PROVE  LET x == sessions[Session] y == sessions'[Session] IN
           /\ sessions' \in [{Session} -> Engine!SessionState \cup {None}]
           /\ y # None => x # None /\ Quiet(y)
           /\ x # None /\ ~Engine!Overdue(x, now) => y = x
<1> DEFINE x == sessions[Session]
           y == sessions'[Session]
           aged == Engine!check_ttl(x, now)
<1>1. y = IF x = None \/ Session \in Engine!expired_ids(now) THEN None ELSE aged
  BY DEF Sweep, Engine!expire_ttls, Engine!Live
<1>2. (x = None \/ (x \in Engine!SessionState /\ Quiet(x))) /\ now \in Nat
  BY DEF HookInv
<1>3. Session \in Engine!expired_ids(now) => Engine!Overdue(x, now)
  BY DEF Engine!expired_ids
<1>4. ~Engine!Overdue(x, now) => aged = x
  BY DEF Engine!check_ttl
<1>5. CASE x # None /\ Engine!Overdue(x, now)
  <2> DEFINE next == IF x.state = "Unknown" THEN "Idle" ELSE "Unknown"
  <2>1. next \in Engine!AgentState /\ next # "Risk" /\ Engine!ttl_duration(next) \in Nat
    BY DEF Engine!AgentState, Engine!ttl_duration
  <2>2. x \in Engine!SessionState /\ Quiet(x) /\ now \in Nat
    BY <1>2, <1>5 DEF HookInv
  <2>3. aged = [x EXCEPT !.state = next, !.error_type = Engine!NoError, !.updated_at = now,
                         !.ttl = Engine!ttl_duration(next)]
    BY <1>5 DEF Engine!check_ttl
  <2> HIDE DEF next
  <2>4. aged \in Engine!SessionState /\ Quiet(aged)
    BY <2>1, <2>2, <2>3 DEF Engine!SessionState, Quiet
  <2> HIDE DEF aged
  <2>5. sessions' = [s \in {Session} |-> y]
    BY DEF Sweep, Engine!expire_ttls
  <2>. QED BY <1>1, <1>5, <2>4, <2>5
<1>6. CASE ~(x # None /\ Engine!Overdue(x, now))
  <2> HIDE DEF aged
  <2>1. y = x
    BY <1>1, <1>3, <1>4, <1>6
  <2>2. sessions' = [s \in {Session} |-> y]
    BY DEF Sweep, Engine!expire_ttls
  <2>. QED BY <1>2, <1>6, <2>1, <2>2
<1>. QED BY <1>5, <1>6

LEMMA SweepKeeps ==
    ASSUME HookInv, Sweep
    PROVE  HookInv'
<1>1. UNCHANGED <<now, asked_at>>
  BY DEF Sweep, Engine!expire_ttls, claudeVars
<1>2. ASSUME NEW t \in asked_at, now < t + 14400
      PROVE  Showing(sessions'[Session], t)
  <2>1. t \in Nat /\ now \in Nat /\ Showing(sessions[Session], t)
    <3>1. now \in Nat /\ asked_at \subseteq Nat
      BY DEF HookInv
    <3>2. \A u \in asked_at : now < u + 14400 => Showing(sessions[Session], u)
      BY DEF HookInv
    <3>. QED BY <1>2, <3>1, <3>2
  <2>2. sessions[Session] \in Engine!SessionState
    BY <2>1 DEF HookInv, Showing
  <2>3. sessions[Session].updated_at \in Nat
    BY <2>2 DEF Engine!SessionState
  <2>4. ~Engine!Overdue(sessions[Session], now)
    BY <1>2, <2>1, <2>3 DEF Showing, Engine!Overdue
  <2>. QED BY <2>1, <2>4, SweepEffect DEF Showing
<1>. QED BY <1>1, <1>2, SweepEffect DEF HookInv

LEMMA NextKeeps ==
    ASSUME HookInv, [HNext]_hookVars
    PROVE  HookInv'
<1>1. CASE UNCHANGED <<claudeVars, engineVars>>
  BY <1>1 DEF claudeVars, engineVars, HookInv
<1>2. CASE Sweep
  BY <1>2, SweepKeeps
<1>3. CASE Tick
  <2>1. UNCHANGED <<sessions, asked_at>> /\ now' \in Nat /\ now' > now
    BY <1>3, HookPathAssumption DEF Tick, Engine!Tick, claudeVars
  <2>2. ASSUME NEW t \in asked_at
        PROVE  t <= now' /\ (now' < t + 14400 => now < t + 14400)
    <3>1. t \in Nat /\ now \in Nat /\ t <= now
      BY DEF HookInv
    <3>. QED BY <2>1, <3>1
  <2>. QED BY <2>1, <2>2 DEF HookInv
<1>4. CASE Answer
  BY <1>4 DEF Answer, Moves, engineVars, HookInv, NeverAsked
<1>5. CASE Open
  BY <1>5, HookKeeps DEF Open, hook, HookEvent
<1>6. CASE Prompt
  BY <1>6, HookKeeps DEF Prompt, Moves, hook, HookEvent
<1>7. CASE ToolStarts
  BY <1>7, HookKeeps DEF ToolStarts, Moves, HookEvent
<1>8. CASE ToolEnds
  BY <1>8, HookKeeps DEF ToolEnds, Moves, hook, HookEvent
<1>9. CASE Ask
  BY <1>9, HookKeeps DEF Ask, Moves, HookEvent
<1>10. CASE Stop
  BY <1>10, HookKeeps DEF Stop, Moves, hook, HookEvent
<1>11. CASE Close
  BY <1>11, HookKeeps DEF Close, Moves, hook, HookEvent
<1>12. Files \/ UNCHANGED hookVars => UNCHANGED <<claudeVars, engineVars>>
  BY DEF Files, hookVars
<1>. QED BY <1>1, <1>2, <1>3, <1>4, <1>5, <1>6, <1>7, <1>8, <1>9, <1>10, <1>11, <1>12
     DEF HNext

LEMMA HookInvariant == HSpec => []HookInv
BY InitKeeps, NextKeeps, PTL DEF HSpec

-----------------------------------------------------------------------------
(* The theorems                                                            *)

LEMMA ShownSession ==
    /\ sessions[Session] # None => Engine!get_state(Session) = sessions[Session].state
    /\ sessions[Session] = None => Engine!get_state(Session) = "Absent"
BY DEF Engine!get_state

\* Whatever hooks are installed, by whom and when they are removed, a question
\* that was heard is shown for its four hours: no tool beside it hides it.
THEOREM QuestionsAreShown == HSpec => []AskedIsShown
<1>1. HookInv => AskedIsShown
  <2> SUFFICES ASSUME HookInv, NEW t \in asked_at, now < t + ttl_duration("Attention")
               PROVE  Engine!get_state(Session) = "Attention"
    BY DEF AskedIsShown
  <2>1. ttl_duration("Attention") = 14400
    BY DEF ttl_duration
  <2>2. Showing(sessions[Session], t)
    BY <2>1 DEF HookInv
  <2>. QED BY <2>2, ShownSession DEF Showing
<1>. QED BY <1>1, HookInvariant, PTL
=============================================================================

-------------------------- MODULE SessionLifecycle --------------------------
(***************************************************************************)
(* What the state engine promises about the state a session displays,      *)
(* whatever its bookkeeping: a session climbs to a more urgent state at    *)
(* once, comes down only when an event forces it or its time runs out, and *)
(* always passes through Unknown on the way to Idle by timeout.            *)
(***************************************************************************)
EXTENDS AgentStates

CONSTANT SessionId
VARIABLE display      \* what get_state answers for each session, or "Absent"

\* The states an event can force: a failure, a timeout, the user's answer.
ForcedState == {state_from_event(e, FALSE) : e \in ForcedEvent}

LTypeOK == display \in [SessionId -> AgentState \cup {"Absent"}]

LInit == display = [s \in SessionId |-> "Absent"]

\* The first event of a session: it starts as if it had been Idle.
Appear(s, new) ==
    /\ display[s] = "Absent"
    /\ new \in ForcedState \/ priority(new) >= priority("Idle")
    /\ display' = [display EXCEPT ![s] = new]

Raise(s, new) ==
    /\ display[s] # "Absent"
    /\ priority(new) > priority(display[s])
    /\ display' = [display EXCEPT ![s] = new]

Force(s, new) ==
    /\ display[s] # "Absent"
    /\ new \in ForcedState
    /\ display' = [display EXCEPT ![s] = new]

\* A sweep ages any number of sessions by one stage each.
AgedFrom(state) ==
    CASE state \in AgentState \ {"Idle", "Unknown"} -> {state, "Unknown"}
      [] state = "Unknown"                          -> {"Unknown", "Idle", "Absent"}
      [] OTHER                                      -> {state}

Sweep ==
    /\ display' \in [SessionId -> AgentState \cup {"Absent"}]
    /\ \A s \in SessionId : display'[s] \in AgedFrom(display[s])

LNext ==
    \/ Sweep
    \/ \E s \in SessionId, new \in AgentState : Appear(s, new) \/ Raise(s, new) \/ Force(s, new)

LSpec == LInit /\ [][LNext]_display
=============================================================================

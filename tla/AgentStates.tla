---------------------------- MODULE AgentStates ----------------------------
(***************************************************************************)
(* The display states of an agent, the normalized events that drive them   *)
(* and the pure tables of crates/ats-state-engine: which state an event    *)
(* proposes, how states are ranked, how long each one lasts, and which of  *)
(* the current and the proposed state wins.  Times are in seconds.         *)
(*                                                                         *)
(* The Naive... operators are plausible slips in the same tables; no       *)
(* definition uses them.                                                   *)
(***************************************************************************)
EXTENDS Naturals

AgentState == {"Idle", "Working", "Attention", "Risk", "Result", "Error", "Unknown"}

EventType ==
    {"AgentStarted", "AgentWorking", "AgentWaiting", "AgentCompleted", "AgentFailed",
     "SessionStarted", "SessionStopped", "SessionFailed", "SessionHeartbeat", "SessionTimeout",
     "ToolStarted", "ToolCompleted", "ToolFailed",
     "UserInputRequired", "UserApprovalRequired", "UserInputReceived",
     "ProviderDisconnected", "ProviderSchemaError", "RendererFailed"}

FailureEvent ==
    {"AgentFailed", "SessionFailed", "ToolFailed",
     "ProviderDisconnected", "ProviderSchemaError", "RendererFailed"}

-----------------------------------------------------------------------------
priority(state) ==
    CASE state = "Risk"      -> 7
      [] state = "Attention" -> 6
      [] state = "Error"     -> 5
      [] state = "Result"    -> 4
      [] state = "Working"   -> 3
      [] state = "Idle"      -> 2
      [] state = "Unknown"   -> 1

\* Unknown left without a lifetime, as Idle is.
NaiveTtlUnknownForever(state) ==
    CASE state = "Attention"          -> 14400
      [] state \in {"Working", "Risk"} -> 1800
      [] state = "Error"              -> 60
      [] state = "Result"             -> 8
      [] state \in {"Idle", "Unknown"} -> 0

ttl_duration(state) ==
    CASE state = "Attention"          -> 14400
      [] state \in {"Working", "Risk"} -> 1800
      [] state = "Error"              -> 60
      [] state = "Unknown"            -> 30
      [] state = "Result"             -> 8
      [] state = "Idle"               -> 0

state_from_event(event_type, is_risk) ==
    CASE event_type \in FailureEvent                       -> "Error"
      [] event_type = "AgentCompleted"                     -> "Result"
      [] event_type \in {"SessionStarted", "SessionStopped"} -> "Idle"
      [] event_type = "SessionTimeout"                     -> "Unknown"
      [] event_type = "UserInputRequired"                  -> "Attention"
      [] event_type = "UserApprovalRequired"               -> IF is_risk THEN "Risk" ELSE "Attention"
      [] OTHER                                             -> "Working"

-----------------------------------------------------------------------------
\* Events that win whatever the current state is.
ForcedEvent ==
    {"SessionTimeout", "AgentFailed", "SessionFailed", "ToolFailed",
     "ProviderSchemaError", "RendererFailed", "UserInputReceived"}

forced_transition(event_type) == event_type \in ForcedEvent

\* The newest event always wins.
NaiveLatestWins(current, proposed, event_type) == proposed

resolve_effective_state(current, proposed, event_type) ==
    IF event_type = "ProviderDisconnected" /\ current = "Attention" THEN "Attention"
    ELSE IF forced_transition(event_type) \/ priority(proposed) > priority(current)
         THEN proposed
         ELSE current
=============================================================================

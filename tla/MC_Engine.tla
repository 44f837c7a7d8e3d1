------------------------------ MODULE MC_Engine ------------------------------
(* Two sessions that may be each other's parent, event types that reach every *)
(* state, and the instants at which lifetimes end: the last one is the end of *)
(* the longest chain, four hours of Attention and thirty seconds of Unknown.  *)
EXTENDS StateEngine, TLC

FewEventTypes ==
    {"SessionStopped", "ToolStarted", "ToolFailed", "ProviderDisconnected",
     "UserInputRequired", "UserApprovalRequired", "UserInputReceived", "AgentCompleted"}
FewInstants == {0, 8, 38, 14438, 14468}
=============================================================================

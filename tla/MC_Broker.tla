------------------------------ MODULE MC_Broker ------------------------------
(* Two sessions, each in a pane of its own (or neither naming one), and frames *)
(* that come in late, twice, or broken.                                        *)
EXTENDS Broker

frame(id, type, s, pane, t) ==
    [event_id |-> id, event_type |-> type, risk |-> "None", session |-> s,
     parent |-> NoParent, timestamp |-> t, pane |-> pane]

\* A session that works, asks, is answered; one that completes; a frame without a
\* terminal; all of them may be sent again.
MixedFrames ==
    {frame("e1", "AgentWorking", "s1", "p1", 0),
     frame("e2", "UserInputRequired", "s1", "p1", 1),
     frame("e3", "UserInputReceived", "s1", NoPane, 2),
     frame("e4", "AgentCompleted", "s2", "p2", 0)}

\* The same two sessions in panes they keep; both may run out in one sweep.
PanedFrames ==
    {frame("e1", "AgentCompleted", "s1", "p1", 0),
     frame("e2", "ToolFailed", "s1", "p1", 1),
     frame("e3", "AgentCompleted", "s2", "p2", 0),
     frame("e4", "UserInputReceived", "s2", "p2", 1)}

\* One session that asks, is answered, and asks again at once.
FlappingFrames ==
    {frame("e1", "UserInputRequired", "s1", "p1", 0),
     frame("e2", "UserInputReceived", "s1", "p1", 0),
     frame("e3", "UserInputRequired", "s1", "p1", 0)}

AllEventIds == {"e1", "e2", "e3", "e4"}
TheEventTypes == {"AgentWorking", "UserInputRequired", "UserInputReceived", "AgentCompleted",
                  "ToolFailed"}
EarlyInstants == {0, 2, 10}
RestInstants == {0, 2, 10, 40, 70, 100, 1810, 1840}
=============================================================================

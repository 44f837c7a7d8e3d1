---------------------------- MODULE ClaudeAdapter ----------------------------
(***************************************************************************)
(* crates/ats-provider-claude: what ClaudeAdapter makes of one payload of  *)
(* a Claude hook.  Texts are reduced to what the code looks for in them: a *)
(* command is the sequence of the risk patterns it contains, in the order  *)
(* in which they are tried, a message the words it contains and whether    *)
(* its fortieth byte falls inside a character.  The activity's label and   *)
(* category and the metadata are left out: the engine reads none of them.  *)
(***************************************************************************)
EXTENDS AgentStates, Sequences

\* The hook types the adapter knows and hook installation writes.
HookEvent == {"SessionStart", "UserPromptSubmit", "PreToolUse", "PostToolUse",
              "PostToolUseFailure", "Notification", "Stop", "SessionEnd"}

ApprovalWord == {"permission", "approval", "allow"}

\* A payload is a record of object (it is a JSON object), hook_event_name (one of
\* these, "missing", "not a text" or any other), tool, command, words and cut.

-----------------------------------------------------------------------------
(* risk.rs                                                                 *)

\* A pattern's level, and whether it is a download that the command runs: a
\* "curl " or "wget " with a pipe into a shell behind it.
Pattern == [level : {"Medium", "High", "Critical"}, piped : BOOLEAN]

\* The first pattern found decides, were a later one more dangerous.
classify(command) ==
    IF command = <<>> THEN "None"
    ELSE IF Head(command).piped THEN "High" ELSE Head(command).level

-----------------------------------------------------------------------------
(* adapter.rs                                                              *)

evaluate_risk(payload) == IF payload.tool = "Bash" THEN classify(payload.command) ELSE "None"

classify_notification(words) ==
    IF words # {} THEN "UserApprovalRequired" ELSE "UserInputRequired"

event_type(payload) ==
    CASE payload.hook_event_name = "SessionStart"       -> "SessionStarted"
      [] payload.hook_event_name = "UserPromptSubmit"   -> "AgentStarted"
      [] payload.hook_event_name = "PreToolUse"         -> "ToolStarted"
      [] payload.hook_event_name = "PostToolUse"        -> "ToolCompleted"
      [] payload.hook_event_name = "PostToolUseFailure" -> "ToolFailed"
      [] payload.hook_event_name = "Notification"       -> classify_notification(payload.words)
      [] payload.hook_event_name = "Stop"               -> "AgentCompleted"
      [] payload.hook_event_name = "SessionEnd"         -> "SessionStopped"
      [] OTHER                                          -> "ProviderSchemaError"

\* The label of a long message is cut at a byte: inside a character that panics.
panics(payload) == payload.hook_event_name = "Notification" /\ payload.cut

parse(payload) ==
    IF ~payload.object THEN [outcome |-> "Malformed"]
    ELSE IF payload.hook_event_name \in {"missing", "not a text"}
    THEN [outcome |-> "MissingRequiredField"]
    ELSE IF panics(payload) THEN [outcome |-> "panic"]
    ELSE [outcome |-> "event", event_type |-> event_type(payload),
          risk |-> IF payload.hook_event_name = "PreToolUse" THEN evaluate_risk(payload) ELSE "None"]

validate(payload) == payload.object /\ payload.hook_event_name \in HookEvent
=============================================================================

------------------------------- MODULE HookPath -------------------------------
(***************************************************************************)
(* From the hooks in the user's settings to the state of a session: Claude *)
(* reads the settings when a session starts and runs an entry's command at *)
(* every step of the session; the command ends in `ats ingest`, and what   *)
(* that accepts reaches the engine.  The commands and the editor of        *)
(* UserFiles go on beside it.                                              *)
(*                                                                         *)
(* The entry the program installs passes Claude's payload on as it is.  No *)
(* command of the program calls ClaudeAdapter; an entry of the user's own  *)
(* may, and pass the result on (the "wrapper" of UserFiles).  Claude's     *)
(* sessions are external, after crates/ats-provider-claude/tests.  Hooks   *)
(* are run one at a time and delivered at once, as Broker shows the order  *)
(* of their timestamps to be kept.                                         *)
(***************************************************************************)
EXTENDS UserFiles, ClaudeAdapter

CONSTANTS
    Session,            \* the one session of Claude's
    Instants,           \* the seconds at which something may happen
    Commands, Messages, \* commands of the Bash tool; words of the questions asked
    Cut                 \* whether messages may be cut inside a character

VARIABLES
    claude,             \* what the session is doing
    loaded,             \* its hook entries, read when it started
    asked_at,           \* when the open question was last heard, unless a failure was heard since
    sessions, parent_map, now   \* the engine's

claudeVars == <<claude, loaded, asked_at>>
engineVars == <<sessions, parent_map, now>>
hookVars == <<vars, claudeVars, engineVars>>

\* A hook process makes a new event id each time: replays are StateEngine's.
Engine == INSTANCE StateEngine WITH
    SessionId <- {Session}, EventId <- {"new"}, NoSession <- None, NoParent <- None,
    EventTypes <- EventType, Risks <- {"None", "Medium", "High", "Critical"},
    MaxDelay <- 0, LastInput <- 0

ASSUME HookPathAssumption ==
    /\ HookType \subseteq HookEvent
    /\ Instants \subseteq Nat /\ 0 \in Instants
    /\ None \notin Engine!SessionState

NeverAsked == {}

HInit ==
    /\ Init
    /\ claude = "off" /\ loaded = [h \in HookType |-> none] /\ asked_at = NeverAsked
    /\ Engine!Init

-----------------------------------------------------------------------------
(* `ats ingest --provider claude`                                          *)

\* build_event accepts a normalized event and nothing else.
build_event(entries, payload) ==
    IF entries["wrapper"] > 0 /\ parse(payload).outcome = "event" THEN {parse(payload)} ELSE {}

event(e) ==
    [event_id |-> "new", event_type |-> e.event_type, risk |-> e.risk, session |-> Session,
     parent |-> None, timestamp |-> now]

heard(e) ==
    /\ sessions' = [sessions EXCEPT ![Session] =
                       [Engine!ingested(@, event(e), now) EXCEPT !.seen_event_ids = {}]]
    /\ asked_at' = IF e.event_type \in {"UserApprovalRequired", "UserInputRequired"}
                      /\ claude' = "asking" THEN {now}
                   ELSE IF e.event_type = "ToolFailed" \/ claude' # "asking" THEN NeverAsked
                   ELSE asked_at

\* Claude runs the entry of one hook type, if it is installed.
run(type, tool, command, words, cut) ==
    LET payload == [object |-> TRUE, hook_event_name |-> type, tool |-> tool,
                    command |-> command, words |-> words, cut |-> cut]
        events == IF type \in HookType THEN build_event(loaded'[type], payload) ELSE {} IN
    /\ \A e \in events : heard(e)
    /\ events = {} => /\ sessions' = sessions
                      /\ asked_at' = IF claude' # "asking" THEN NeverAsked ELSE asked_at
    /\ UNCHANGED <<parent_map, now, vars>>

hook(type) == run(type, "other", <<>>, {}, FALSE)

-----------------------------------------------------------------------------
(* A session of Claude's                                                   *)

Moves(from, to) == claude \in from /\ claude' = to /\ UNCHANGED loaded

Open ==
    /\ claude = "off" /\ claude' = "idle"
    /\ loaded' = parsed("settings", file["settings"]).hooks
    /\ hook("SessionStart")

Prompt == Moves({"idle"}, "working") /\ hook("UserPromptSubmit")

\* Tools run side by side: one may start or end while another waits for approval.
ToolStarts == \E c \in Commands : /\ Moves({"working", "asking"}, claude)
                                  /\ run("PreToolUse", "Bash", c, {}, FALSE)

ToolEnds == /\ Moves({"working", "asking"}, claude)
            /\ hook("PostToolUse") \/ hook("PostToolUseFailure")

Ask == \E words \in Messages, cut \in Cut : /\ Moves({"working", "idle"}, "asking")
                                            /\ run("Notification", "other", <<>>, words, cut)

\* No hook tells of the answer.
Answer == Moves({"asking"}, "working") /\ asked_at' = NeverAsked /\ UNCHANGED <<vars, engineVars>>

Stop == Moves({"working"}, "idle") /\ hook("Stop")

Close == Moves({"idle", "working", "asking"}, "off") /\ hook("SessionEnd")

-----------------------------------------------------------------------------
Files == Next /\ UNCHANGED <<claudeVars, engineVars>>
Sweep == Engine!expire_ttls /\ UNCHANGED <<vars, claudeVars>>
Tick  == Engine!Tick /\ UNCHANGED <<vars, claudeVars>>

HNext ==
    \/ Files \/ Sweep \/ Tick
    \/ Open \/ Prompt \/ ToolStarts \/ ToolEnds \/ Ask \/ Answer \/ Stop \/ Close

HSpec == HInit /\ [][HNext]_hookVars

-----------------------------------------------------------------------------
(* Properties                                                              *)

\* Over hooks, adapter and engine: a question that was heard shows as ATTENTION
\* until it is answered, the session ends, a tool beside it fails, or four hours
\* pass without a further hook; no tool that starts or ends meanwhile, no
\* removal of the hooks and no sweep hides it.  It is never RISK, whatever the
\* command: the payload of a question names none.
AskedIsShown ==
    \A t \in asked_at : now < t + ttl_duration("Attention") =>
                            Engine!get_state(Session) = "Attention"

\* The table of the specification's section 9.1 takes the end of Claude's session
\* to IDLE: once the hook of the end has run through an entry that calls
\* `ats ingest`, the session is Idle.
EndedIsIdle ==
    [][/\ claude # "off" /\ claude' = "off" /\ "SessionEnd" \in HookType
       /\ loaded["SessionEnd"]["ours"] + loaded["SessionEnd"]["wrapper"] > 0
       => Engine!get_state(Session)' = "Idle"]_hookVars
=============================================================================

--------------------------- MODULE PaneRenderers ---------------------------
(***************************************************************************)
(* crates/ats-rendering over ats-renderer-tmux, ats-renderer-iterm2 and    *)
(* ats-renderer-notification, beside the one-shot commands `ats event` and *)
(* `ats reset`.  A renderer draws with external commands, one after the    *)
(* other, each of which may fail; the daemon's renderers remember the look *)
(* they found, the commands of the CLI start from nothing, and both act on *)
(* the same panes at the same time.                                        *)
(*                                                                         *)
(* A device is a tmux pane, or a terminal of iTerm2 outside tmux, and      *)
(* stands for the session that lives there.  What is drawn for a state is  *)
(* the state itself: colours, symbols and wording are left out, but for    *)
(* which of them a theme has.  Rate limits are Broker's.  Times are        *)
(* seconds since a midnight.                                               *)
(***************************************************************************)
EXTENDS AgentStates, Sequences, FiniteSets

CONSTANTS
    Pane, Tty,              \* tmux panes; terminals of iTerm2
    Views,                  \* states and labels rendered; tmux formats may not hold a "shell" label
    Theme,                  \* the representations each state's entry has
    quiet_hours_start, quiet_hours_end, quiet_hours_states,
    Instants,
    Tmux,                   \* whether -p is pane-scoped: TRUE from tmux 3.7 on
    Window,                 \* the value of the window's options, in force where a pane has none
    Faults,                 \* which of "command", "capture", "crash" may happen
    MaxOps,                 \* bound: renders, resets and faults in one behaviour
    NoLook, NoJob, NoView

VARIABLES
    isolated,      \* the tmux at hand is 3.7 or later
    look,          \* the device's own options; "unset" follows the window
    prior,         \* the renderers' HashMap of captured looks
    job,           \* what the daemon and a CLI command are drawing
    last_notify,   \* at most one instant per device and state
    up, now, ops,
    users,         \* the options the user had set
    disturbed,     \* the daemon's renderer cannot know the user's look of this device
    view,          \* the last view drawn to its end on the device
    attempts       \* notifications handed to the notifier since the daemon's start

vars == <<isolated, look, prior, job, last_notify, up, now, ops, users, disturbed, view, attempts>>

Device == Pane \cup Tty
Option == {"style", "format", "status", "title", "badge"}

\* A padded text has blanks around it.
Value == {"unset", "user", "padded user", "window", "padded window", "blank", "top"} \cup AgentState
UsersValue   == {"unset", "user", "padded user"}
WindowsValue == {"window", "padded window"}
Representation == {"color", "label", "symbol"}
Actor == {"daemon", "cli"}

\* Sanitized, and basename only: what is left to tell apart is whether a label
\* holds a character that tmux formats may not.
Label == {"plain", "shell"}
SecondsPerDay == 86400

\* Theme::validate: no entry relies on one representation.
validate(theme) == \A st \in AgentState : Cardinality(theme[st]) >= 2

ASSUME RenderersAssumption ==
    /\ Pane \cap Tty = {} /\ IsFiniteSet(Device)
    /\ Views \subseteq AgentState \X Label
    /\ Theme \in [AgentState -> SUBSET Representation] /\ validate(Theme)
    /\ quiet_hours_start \in 0..SecondsPerDay - 1 /\ quiet_hours_end \in 0..SecondsPerDay - 1
    /\ quiet_hours_states \subseteq AgentState
    /\ Instants \subseteq Nat /\ Instants # {} /\ Tmux \subseteq BOOLEAN
    /\ Window \in WindowsValue /\ MaxOps \in Nat
    /\ Faults \subseteq {"command", "capture", "crash"}

Command == [by : {"tmux", "iterm2", "notification", "prototype"},
            option : Option \cup {"capture", "notify"}, value : Value]

Job == [kind : {"render", "reset"}, target : Device, state : AgentState, label : Label,
        todo : Seq(Command), ok : BOOLEAN, alone : BOOLEAN]

\* None is told apart from what it stands in for.
ASSUME NoneAssumption == NoLook \notin [Option -> Value] /\ NoJob \notin Job

\* What a renderer remembers when the daemon has just started.
NoCaptures  == [d \in Device |-> NoLook]
NotNotified == [d \in Device |-> [st \in AgentState |-> {}]]

Init ==
    /\ isolated \in Tmux
    /\ users \in {[d \in Device |-> [o \in Option |-> v]] : v \in UsersValue}
    /\ look = users
    /\ prior = NoCaptures
    /\ job = [a \in Actor |-> NoJob]
    /\ last_notify = NotNotified
    /\ up = TRUE /\ ops = 0
    /\ now \in {t \in Instants : \A u \in Instants : t <= u}
    /\ disturbed = {}
    /\ view = [d \in Device |-> NoView]
    /\ attempts = {}

-----------------------------------------------------------------------------
(* What each renderer draws, as the commands it would run                  *)

tmux(option, value)   == [by |-> "tmux", option |-> option, value |-> value]
iterm2(option, value) == [by |-> "iterm2", option |-> option, value |-> value]

\* An option the pane does not set is read as an empty text.
NaiveEffective(value) == IF value = "unset" THEN "" ELSE value

\* display-message prints the value in force, the pane's own or the window's.
effective(value) == IF value = "unset" THEN Window ELSE value

\* What is kept of it.
trimmed(value) ==
    CASE value = "padded user"   -> "user"
      [] value = "padded window" -> "window"
      [] OTHER                   -> value

capture_pane_state(d) == IF prior[d] = NoLook THEN <<tmux("capture", "unset")>> ELSE <<>>

border_style_for(st) == IF "color" \in Theme[st] THEN <<tmux("style", st)>> ELSE <<>>

\* A text with a forbidden character is not set at all.
border_format_for(st, label) ==
    IF Theme[st] \cap {"label", "symbol"} # {} /\ label # "shell"
    THEN <<tmux("status", "top"), tmux("format", st)>>
    ELSE <<>>

\* Only what the prototype sets is taken back.
NaiveUnset == <<tmux("style", "unset")>>

tmux_unset == <<tmux("style", "unset"), tmux("format", "unset"), tmux("status", "unset")>>

tmux_render(st, label) ==
    IF st = "Idle" THEN tmux_unset ELSE border_style_for(st) \o border_format_for(st, label)

\* The reset forgets the window's value as well as the pane's.
NaiveReset(found) == tmux_unset

tmux_reset(found) ==
    LET restored(o) == IF found = NoLook THEN "unset" ELSE found[o] IN
    <<tmux("style", restored("style")), tmux("format", restored("format")),
      tmux("status", restored("status"))>>

\* A validated theme gives every state a label or a symbol, so there is a title.
build_title(st) == <<iterm2("title", IF st = "Idle" THEN "blank" ELSE st)>>

build_badge(st) ==
    IF st = "Idle" THEN <<iterm2("badge", "blank")>>
    ELSE IF "symbol" \in Theme[st] THEN <<iterm2("badge", st)>> ELSE <<>>

iterm2_render(st) == build_title(st) \o build_badge(st)

\* The badge stays.
NaiveBadge == <<iterm2("title", "blank")>>

iterm2_reset == <<iterm2("title", "blank"), iterm2("badge", "blank")>>

\* The tmux renderer refuses a terminal without a pane and the iTerm2 renderer
\* draws nothing inside tmux; the notification renderer's turn is the last.
render_all(d, st, label) ==
    (IF d \in Pane THEN capture_pane_state(d) \o tmux_render(st, label) ELSE iterm2_render(st))
    \o <<[by |-> "notification", option |-> "notify", value |-> st]>>

reset_all(d) == IF d \in Pane THEN tmux_reset(prior[d]) ELSE iterm2_reset

-----------------------------------------------------------------------------
(* Starting to draw                                                        *)

\* Drawing on one also changes the other.
Shares(d, e) == d = e \/ (~isolated /\ {d, e} \subseteq Pane)

Begin(a, kind, d, st, label, todo) ==
    LET meets(b) == job[b] # NoJob /\ Shares(job[b].target, d)
        other    == CHOOSE b \in Actor : b # a IN
    /\ job[a] = NoJob /\ ops < MaxOps
    /\ ops' = ops + 1
    /\ job' = [b \in Actor |->
                  IF b = a THEN [kind |-> kind, target |-> d, state |-> st, label |-> label,
                                 todo |-> todo, ok |-> TRUE, alone |-> ~meets(other)]
                  ELSE IF meets(b) THEN [job[b] EXCEPT !.alone = FALSE] ELSE job[b]]

\* What the daemon draws on one pane lands on the others of an old tmux.
Spilled(d) == {e \in Device \ {d} : Shares(d, e)}

\* RenderingEngine::render, for a view the rate limiter lets through.
EngineRender(d, st, label) ==
    /\ up
    /\ Begin("daemon", "render", d, st, label, render_all(d, st, label))
    /\ disturbed' = disturbed \cup Spilled(d)
    /\ UNCHANGED <<isolated, look, prior, last_notify, up, now, users, view, attempts>>

\* A look that was never captured cannot be put back.
EngineReset(d) ==
    /\ up
    /\ Begin("daemon", "reset", d, "Idle", "plain", reset_all(d))
    /\ prior' = [prior EXCEPT ![d] = NoLook]
    /\ disturbed' = disturbed \cup Spilled(d) \cup (IF d \in Pane /\ prior[d] = NoLook THEN {d} ELSE {})
    /\ UNCHANGED <<isolated, look, last_notify, up, now, users, view, attempts>>

\* event_prototype::run: the border colour alone, and only on tmux 3.7 or later.
prototype_run(st) ==
    IF ~isolated THEN <<>>
    ELSE <<[by |-> "prototype", option |-> "style", value |-> IF st = "Idle" THEN "unset" ELSE st]>>

\* A TmuxRenderer of its own: the look it captures is forgotten with the command.
standalone_render(st) == tmux_render(st, "plain")

\* `ats event`: the prototype beside a running daemon, else the standalone renderer.
CliEvent(d, st) ==
    /\ d \in Pane
    /\ Begin("cli", "render", d, st, "plain",
             IF up THEN prototype_run(st) ELSE standalone_render(st))
    /\ disturbed' = disturbed \cup {d} \cup Spilled(d)
    /\ UNCHANGED <<isolated, look, prior, last_notify, up, now, users, view, attempts>>

\* `ats reset`, with --all or without: the pane it runs in, captured by nobody.
CliReset(d) ==
    /\ d \in Pane
    /\ Begin("cli", "reset", d, "Idle", "plain", tmux_reset(NoLook))
    /\ disturbed' = disturbed \cup {d} \cup Spilled(d)
    /\ UNCHANGED <<isolated, look, prior, last_notify, up, now, users, view, attempts>>

-----------------------------------------------------------------------------
(* The notification renderer's policy                                      *)

should_notify(st) == st \in {"Attention", "Risk", "Result", "Error"}

\* A span over midnight taken for one within a day.
NaiveQuietHours(t) ==
    quiet_hours_start <= t % SecondsPerDay /\ t % SecondsPerDay < quiet_hours_end

is_quiet_hours(t) ==
    LET time == t % SecondsPerDay IN
    IF quiet_hours_start <= quiet_hours_end
    THEN quiet_hours_start <= time /\ time < quiet_hours_end
    ELSE quiet_hours_start <= time \/ time < quiet_hours_end

quiet_hours_allows(st, t) ==
    is_quiet_hours(t) => IF quiet_hours_states = {} THEN st = "Risk" ELSE st \in quiet_hours_states

Debounce(st) == IF st = "Result" THEN 30 ELSE 10

is_debounced(d, st, t) == \E last \in last_notify[d][st] : t - last < Debounce(st)

Noted(d, st, t) == last_notify' = [last_notify EXCEPT ![d][st] = {t}]
Handed(d, st, t) == attempts' = attempts \cup {[target |-> d, state |-> st, at |-> t]}

\* The debounce is recorded before the quiet hours are looked at.
NaiveNotify(d, st, t) ==
    IF is_debounced(d, st, t) THEN UNCHANGED <<last_notify, attempts>>
    ELSE /\ Noted(d, st, t)
         /\ IF quiet_hours_allows(st, t) THEN Handed(d, st, t) ELSE UNCHANGED attempts

\* A notification that fails counts as shown.
notify(d, st, t) ==
    IF quiet_hours_allows(st, t) /\ ~is_debounced(d, st, t)
    THEN Noted(d, st, t) /\ Handed(d, st, t)
    ELSE UNCHANGED <<last_notify, attempts>>

-----------------------------------------------------------------------------
(* Drawing                                                                 *)

Turn(a) == job[a] # NoJob /\ job[a].todo # <<>>
Current(a) == Head(job[a].todo)
Advance(a) == job' = [job EXCEPT ![a].todo = Tail(@)]

Drawn(d, c) == [e \in Device |-> IF Shares(d, e) THEN [look[e] EXCEPT ![c.option] = c.value]
                                 ELSE look[e]]

\* An option set, or a sequence written to the terminal.
Draw(a) ==
    /\ Turn(a) /\ Current(a).option \in Option
    /\ look' = Drawn(job[a].target, Current(a))
    /\ Advance(a)
    /\ UNCHANGED <<isolated, prior, last_notify, up, now, ops, users, disturbed, view, attempts>>

\* A failing command ends its renderer's turn, not the next renderer's.
Fail(a) ==
    /\ "command" \in Faults /\ ops < MaxOps /\ ops' = ops + 1
    /\ Turn(a) /\ Current(a).option \in Option
    /\ \E next \in 2..Len(job[a].todo) + 1 :
          /\ \A i \in 1..next - 1 : job[a].todo[i].by = Current(a).by
          /\ next <= Len(job[a].todo) => job[a].todo[next].by # Current(a).by
          /\ job' = [job EXCEPT ![a].todo = SubSeq(@, next, Len(@)), ![a].ok = FALSE]
    /\ disturbed' = disturbed \cup {job[a].target}
    /\ UNCHANGED <<isolated, look, prior, last_notify, up, now, users, view, attempts>>

\* Three display-message calls.  An option that cannot be read is recorded as
\* None, which a reset unsets; one that can is never "unset".
Capture(a, unread) ==
    /\ Turn(a) /\ Current(a).option = "capture"
    /\ LET d == job[a].target IN
       /\ prior' = [prior EXCEPT ![d] = [o \in Option |-> IF o \in unread THEN "unset"
                                                          ELSE trimmed(effective(look[d][o]))]]
       /\ IF unread = {} THEN UNCHANGED <<disturbed, ops>>
          ELSE disturbed' = disturbed \cup {d} /\ ops < MaxOps /\ ops' = ops + 1
    /\ Advance(a)
    /\ UNCHANGED <<isolated, look, last_notify, up, now, users, view, attempts>>

\* The one place where the clock is read: time has passed since the last look.
Notify(a) ==
    /\ Turn(a) /\ Current(a).option = "notify"
    /\ IF should_notify(job[a].state)
       THEN /\ now' \in {t \in Instants : t >= now}
            /\ notify(job[a].target, job[a].state, now')
       ELSE UNCHANGED <<now, last_notify, attempts>>
    /\ Advance(a)
    /\ UNCHANGED <<isolated, look, prior, up, ops, users, disturbed, view>>

Finish(a) ==
    /\ job[a] # NoJob /\ job[a].todo = <<>>
    /\ job' = [job EXCEPT ![a] = NoJob]
    /\ view' = [view EXCEPT ![job[a].target] =
                   IF a = "daemon" /\ job[a].kind = "render"
                   THEN [state |-> job[a].state, label |-> job[a].label] ELSE NoView]
    /\ UNCHANGED <<isolated, look, prior, last_notify, up, now, ops, users, disturbed, attempts>>

\* Killed, or stopped: a shutdown resets nothing either.
Crash ==
    /\ "crash" \in Faults /\ up /\ ops < MaxOps /\ ops' = ops + 1
    /\ up' = FALSE
    /\ disturbed' = disturbed \cup
                    {d \in Device : \/ prior[d] # NoLook
                                   \/ (job["daemon"] # NoJob /\ job["daemon"].target = d)}
    /\ job' = [job EXCEPT !["daemon"] = NoJob]
    /\ prior' = NoCaptures
    /\ last_notify' = NotNotified
    /\ view' = [d \in Device |-> NoView]
    /\ attempts' = {}
    /\ UNCHANGED <<isolated, look, now, users>>

Restart == ~up /\ up' = TRUE /\ UNCHANGED <<isolated, look, prior, job, last_notify, now, ops, users,
                                            disturbed, view, attempts>>

Next ==
    \/ \E d \in Device, v \in Views : EngineRender(d, v[1], v[2])
    \/ \E d \in Device : EngineReset(d)
    \/ \E d \in Device, v \in Views : CliEvent(d, v[1])
    \/ \E d \in Device : CliReset(d)
    \/ \E a \in Actor : Draw(a) \/ Fail(a) \/ Notify(a) \/ Finish(a)
    \/ \E a \in Actor, unread \in {{}} \cup (IF "capture" \in Faults THEN {{"style"}, Option} ELSE {}) :
          Capture(a, unread)
    \/ Crash \/ Restart

Spec == Init /\ [][Next]_vars

-----------------------------------------------------------------------------
(* Properties                                                              *)

Look == [Option -> Value]

TypeOK ==
    /\ isolated \in BOOLEAN /\ up \in BOOLEAN /\ now \in Instants /\ ops \in 0..MaxOps
    /\ look \in [Device -> Look] /\ users \in [Device -> Look]
    /\ prior \in [Device -> Look \cup {NoLook}]
    /\ job \in [Actor -> Job \cup {NoJob}]
    /\ last_notify \in [Device -> [AgentState -> SUBSET Instants]]
    /\ disturbed \subseteq Device
    /\ view \in [Device -> [state : AgentState, label : Label] \cup {NoView}]
    /\ attempts \subseteq [target : Device, state : AgentState, at : Instants]

TmuxOption == {"style", "format", "status"}

\* What may stand in place of a value that was drawn over: the value in force,
\* as it was or without the blanks around it.
Restored(value) == {effective(value), trimmed(effective(value))}

\* A pane the daemon has reset, or never touched, looks as the user left it -
\* but for blanks around a text, which the capture loses - through any number of
\* renders, idle ones that unset the user's own options included, unless a
\* command failed on it, the CLI drew on it, a pane shared its options (old
\* tmux), or the daemon died and forgot what it had found.
LookIsRestored ==
    \A d \in Pane \ disturbed :
        prior[d] = NoLook /\ (job["daemon"] # NoJob => job["daemon"].target # d) =>
            \A o \in TmuxOption : effective(look[d][o]) \in Restored(users[d][o])

ShownStates(d) == {look[d][o] : o \in Option} \cap AgentState

\* Every representation the renderers draw is there to be drawn.
Complete(v) == v.label # "shell" /\ Theme[v.state] = Representation

\* At rest a device shows the state last rendered on it and no other: no option
\* of an earlier state stays behind, whatever sequence of states came before.
\* Two causes are known: a label that tmux formats may not hold keeps the
\* earlier state's text, and an entry without colour or symbol the earlier one.
OneStateShown ==
    \A d \in Device \ disturbed :
        /\ view[d] # NoView
        /\ view[d] # NoView => view[d].state = "Idle" \/ Complete(view[d])
        /\ job["daemon"] # NoJob => job["daemon"].target # d
        => ShownStates(d) = {view[d].state} \ {"Idle"}

\* A reset that ran to its end with nobody else drawing meanwhile leaves
\* nothing of any state on the pane: the CLI's whatever happened before (the
\* daemon killed between two options, a failed reset), the daemon's if it had
\* captured the user's look and not its own.
ResetClears ==
    \A a \in Actor :
        /\ job[a] # NoJob
        /\ job[a].kind = "reset" /\ job[a].todo = <<>> /\ job[a].ok /\ job[a].alone
        /\ a = "daemon" => job[a].target \in Tty \/ job[a].target \notin disturbed
        => ShownStates(job[a].target) = {}

\* A failure is made good by the next render: one of the daemon's that runs to its
\* end, no command of its own failing and nobody else drawing meanwhile, leaves
\* the device showing its state and no other, whatever failed, died or drew there
\* before - the part of an earlier render that was drawn included.
NextRenderHeals ==
    LET j == job["daemon"] IN
    /\ j # NoJob
    /\ j.kind = "render" /\ j.todo = <<>> /\ j.ok /\ j.alone
    /\ j.state = "Idle" \/ Complete([state |-> j.state, label |-> j.label])
    => ShownStates(j.target) = {j.state} \ {"Idle"}

\* The policy over the whole history: a notification is handed over exactly
\* when an urgent state is drawn, the hour allows it and none for the same
\* state of the same session was handed over within its debounce.
Silent(t) == (t - quiet_hours_start) % SecondsPerDay
             < (quiet_hours_end - quiet_hours_start) % SecondsPerDay

Due(d, st, t) ==
    /\ st \in {"Attention", "Risk", "Result", "Error"}
    /\ Silent(t) => st \in (IF quiet_hours_states = {} THEN {"Risk"} ELSE quiet_hours_states)
    /\ \A n \in attempts :
          n.target = d /\ n.state = st => t - n.at >= (IF st = "Result" THEN 30 ELSE 10)

\* In particular a notification silenced by the quiet hours does not silence
\* the one that follows their end.
NotifiedWhenDue ==
    [][LET j == job["daemon"] IN
       /\ Turn("daemon") /\ up'
       /\ Current("daemon").option = "notify" /\ job'["daemon"].todo # j.todo
       => attempts' = attempts \cup (IF Due(j.target, j.state, now')
                                     THEN {[target |-> j.target, state |-> j.state, at |-> now']}
                                     ELSE {})]_vars
=============================================================================

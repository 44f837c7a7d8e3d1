# agent-term-status in TLA+

Models, model-checking runs and proofs about agent-term-status: hooks of a coding
agent run a command that sends an event to a daemon, which keeps a state per
session (WORKING, ATTENTION, RESULT, ...) and draws it on the agent's terminal
pane. Source paths below are relative to `src/crates/`.

## 1. The system

```
settings.json <--install / uninstall (ats-provider-claude)        config.yaml <-- ats theme apply
     | a hook of Claude's
     v
hook command --frame--> SocketServer --channel--> Broker --event--> StateEngine
 (ats ingest)           (ats-daemon)             (ats-daemon)      (ats-state-engine)
                                                    | transitions
                                                    v
                                              RenderingEngine --> renderers (tmux, iTerm2, notification)
                                                                      ^ the same panes
launchd --starts--> daemon                                     ats event, ats reset
```

| Component | State it keeps | Operations | Interacts with | What is hard |
|---|---|---|---|---|
| State engine (`ats-state-engine`) | sessions (state, error type, last update, lifetime, seen ids), parent links | `ingest`, `expire_ttls`, `heartbeat`, `get_state`, `get_aggregated_state` | called by the broker only | two clocks (the event's, the daemon's), replays, forgetting a session |
| Broker (`ats-daemon/src/broker.rs`) | buffered frames, last label and terminal of each session | the four arms of a `select!`, `dispatch_render` | channel from the server, engine, rendering engine | order of frames, work waiting while a render is awaited, shutdown |
| Rendering engine (`ats-rendering`) | time of the last render per (session, state) | `render`, `reset`, `detect_all` | broker, renderers | rate limit against quick changes, failures |
| Daemon start and end (`pidfile.rs`, `server.rs`, `main.rs`) | PID file, socket file | `acquire`, `bind`, shutdown, the guards' drops | other daemons, `ats daemon start/stop`, launchd | shared paths, death at any point |
| Daemon control (`ats-cli/src/daemon_commands.rs`) | property list, launchd's job | `start`, `stop`, `status`, `enable`, `disable` | daemons, launchd | a command cut short, a daemon launchd starts again |
| Socket server (`server.rs`, `framing.rs`) | connections, permits | accept, `handle_connection`, drain | hook commands, broker | back-pressure, timeouts, grace period |
| tmux renderer (`ats-renderer-tmux`) | captured prior look of each pane | `detect`, `render`, `reset` | tmux, the CLI's own drawing | options set one by one, any of which may fail; a pane that shares its window's options |
| iTerm2 renderer (`ats-renderer-iterm2`) | nothing | `detect`, `render`, `reset` | the terminal | title and badge written one after the other |
| Notification renderer (`ats-renderer-notification`) | last notification per session and state | `detect`, `render` | the notification centre | debounce against quiet hours that span midnight |
| Provider (`ats-provider-claude`) | none; the user's hook settings | `parse`, `validate`; install and uninstall | hook commands | a file it does not own, rewritten while others write it |
| Configuration (`ats-config`, theme commands) | configuration file and backup | `atomic_write`, `theme apply`, `validate` | CLI | concurrent writers, a file that does not parse |
| One-shot commands (`ats ingest`, `event`, `reset`) | none | send a frame, or draw | server, tmux | fail-open; drawing beside the daemon |
| Printouts (`status`, `doctor`, `logs`, `theme list`), logging, paths | none | print | | not modelled, see section 6 |

What makes each correct: the engine never hides an urgent state without cause
and lets every state run out; the broker loses nothing it has read, applies a
window's frames in order and leaves panes current; one daemon owns the files and
can be reached; renderers restore what they found; files of the user survive.
`PROJECT.json` lists every component and, under `hazards`, where each of these
is at risk.

One fact to keep in mind when reading the broker's results: `main.rs` builds the
RenderingEngine without registering a renderer, so the daemon as shipped shows
nothing. `Broker` and `PaneRenderers` model the composition with its renderers,
as the crates' tests do and as the documents describe it.

## 2. Modules

| Module | Models | Correspondence |
|---|---|---|
| `AgentStates` | `priority.rs`, `forced_transition` and `resolve_effective_state` of `machine.rs` | one operator per function, same names |
| `StateEngine` | `machine.rs`, `engine.rs` | `apply`, `check_ttl`, `extend_heartbeat` are functions on a session record; `ingest`, `expire_ttls`, `heartbeat` are actions; `Receive` and `Renew` choose their inputs; `Tick` is the daemon's clock |
| `SessionLifecycle` | the engine's promise about what a session displays | abstract specification, instantiated in `StateEngine` with `display <- shown` |
| `Broker` | `broker.rs`, `is_rate_limited` and `render` of `ats-rendering`, and a server reduced to its sends | one action per arm: `buffer_event`, `drain_tick`, `ttl_tick`, `final_drain`; `dispatch_render` renders one transition per step, for each is awaited; uses the operators of `StateEngine` through `INSTANCE` |
| `SocketServer` | `SocketServer::run`, `handle_connection`, `framing.rs`, the sending client, and a broker reduced to its receiving end | one action per arm of the accept loop and per outcome of a handler's `read_frame` and `send`; `Connect`, `WriteFrame`, `Hangup` are the clients; `Finish` is the end of a handler task, with the drop of permit and socket |
| `DaemonLifecycle` | `PidFile`, `SocketServer::bind`, the two guards, `main`'s order, `ats daemon start` and `stop` | one `pc` per daemon, one action per system call on a shared path |
| `Autostart` | `ats enable`, `ats disable`, `ats daemon status`, and launchd as what it does with a job that has `RunAtLoad` and `KeepAlive` (external) | extends `DaemonLifecycle`: `LaunchdStart` and `Terminate` are its `Start`, `Shutdown` and `Kill`; one action per step of a command |
| `PaneRenderers` | the three renderers, `RenderingEngine::render`, `reset`, `Theme::validate`, `ats event` and `ats reset` | a job is the list of external commands still to run; `Draw`, `Fail`, `Capture`, `Notify` run the next one, so the daemon's job and the CLI's interleave between any two |
| `UserFiles` | `install_hooks`, `uninstall_hooks`, `ats theme apply`, `atomic_write` | one action per step of a command (read, backup, replace, clean up), `Abort` anywhere, the user's editor beside it |
| `ClaudeAdapter` | `adapter.rs`, `risk.rs` | one operator per function; a payload is what the code looks for in it |
| `HookPath` | from the settings to the engine: Claude's session (external), the installed hooks, `build_event`, `ClaudeAdapter`, the engine | extends `UserFiles` and `ClaudeAdapter`, instantiates `StateEngine` |
| `..._proofs` | the theorems of section 5 | one per module proved about: `StateEngine`, `Broker`, `DaemonLifecycle`, `Autostart`, `SocketServer`, `PaneRenderers`, `UserFiles`, `HookPath` |
| `MC_...` | values for the constants; `MC_Replay` adds the history of applied events | |

The operators called `Naive...` are plausible slips in the definition that
follows them; nothing uses them but the mutation runs of `PROJECT.json`.

Abstractions. Wording, colours, log output and the encoding of escape sequences
are left out; a label is one of two kinds, for tmux formats refuse some
characters. `StateEngine` counts real seconds, but only at the `Instants` a
configuration gives. `Broker` uses the same clock; what happens within one
instant (drain ticks, the 250 ms cooldown) is ordered freely, and the cooldown is
the set `cooling` of keys that are still too young to be rendered again. A
frame is an event with its pane. `transitions` holds what a dispatch has left for
each session and `turn` the session rendered now, so a dispatch goes through the
sessions in any order; `in_order` puts an event where the number of those before it
says. In `DaemonLifecycle` a file is known by the process that created it: an unlink removes whatever is at the path, and a
process that holds a file open still writes to it after its name is gone. A PID
is never given to another process. In `DaemonLifecycle`, `Start` leaves out
`ats daemon start`'s own look at the PID file, which only saves a start. In
`SocketServer` a frame is its number on its connection, the beginning of one is
`Part`, a header beyond the cap is `Oversized`; time is left out, so whatever
cannot complete may time out at any moment, and the grace period may be over at
any moment. An `accept` that fails only waits 50 ms and is left out.

In `PaneRenderers` a device is a tmux pane or a terminal of iTerm2 and stands for
the session that lives there; an option holds `unset` (the window's value,
`Window`, shows through), the user's own value, or the state it was drawn for. A
value of the user's or the window's may be padded: what the capture keeps of it is
`trimmed`. `ops` counts renders, resets and faults. `disturbed` is a history
variable: the devices whose earlier look the daemon can no longer know. `detect`
and `detect_all` are queries that no render asks, and are left out.

In `UserFiles` a settings file is, for each hook type, how many entries are the
program's, the user's, and the user's with a command that calls `ats ingest`; a
configuration is its theme, the user's own values and whether it has comments,
which `ats theme apply` loses. Reading `config.yaml` may fail, which the code takes
for its absence (`Readable`). Three history variables say what the user may expect
of a file: `left` is what the user last put there, `fresh` the commands that have
read all of it since, `spoiled` the files another command has replaced. In
`ClaudeAdapter` a command of the Bash tool is the sequence of risk patterns found
in it, each with its level. In `HookPath` hooks run one at a time and
are delivered at once: what happens to their order and their loss on the way is
`Broker`'s and `SocketServer`'s question. A session of Claude's is external: it is
modelled after the payloads in `ats-provider-claude/tests`, and lets tools start
and end beside a question.

## 3. Runs

| Run | Question | States | Bounds |
|---|---|---|---|
| `engine` | is the registry coherent, is an urgent state ever hidden, does it implement `SessionLifecycle` and come to rest? | 43 664 | two sessions that may be each other's parent, two event ids, eight event types, forced and not, that reach every state; instants 0, 8, 38, 14438, 14468 |
| `replay` | is a duplicate ever applied twice? (yes) | violation | one session, one event, redelivered up to 38 s later |
| `lifecycle` | one owner, reachable, no start blocked by leftovers, a daemon again while launchd has the job? | 584 576 | three daemons whose starts do not overlap one another or a stop, two enables or disables |
| `lifecycle_race` | the same when two start together (two owners) | violation | two daemons |
| `broker` | is what is read ordered, applied and rendered, with faults anywhere? | 352 345 | two sessions, two panes, four kinds of frames and a broken one, four sent, channel of two |
| `broker_rest` | do panes return to their default? | 2 530 | no faults, sessions keep their panes |
| `broker_stale` | is only a repeated render left out? (no) | violation | one session, three frames |
| `server` | is every permit returned, every frame passed on in order, does a shutdown end? | 215 203 | three clients, two permits, channel of one; one client writes two frames, the others one |
| `server_drain` | does a shutdown let handlers deliver what they have read? (no) | violation | the same |
| `renderers` | does a reset restore what was found, does a device show one state, does the next render make good a failed one, is a notification sent exactly when due? | 1 054 199 | two panes and an iTerm2 terminal, four views, three renders, resets and faults, tmux old or new, a window whose values are padded, instants around the end of the quiet hours |
| `hooks` | do the user's files survive, is a question that was heard shown? | 965 702 | two commands at once, three commands, edits and faults, all eight hook types, one session of Claude's, instants 0, 1800, 14400, 14460 |
| `hooks_end` | is a session Idle once Claude's session has ended? (no) | violation | one edit of the user's, no command, otherwise the same |

Why the bounds are enough. A session is touched by its own events and by links
to others only; two sessions give every relation of parent and child, the cycle
and the dangling link included. Two ids allow a replay after a fresh event. The instants are the ends of the lifetimes that the chosen event types
reach, so each lifetime is seen both running and over. In the broker two frames
fill a channel and block a third, two frames in one window can arrive in the
wrong order, and two sessions can expire in the same sweep. In the server three
clients are more than the permits, two handlers meet at a channel for one frame,
and a second frame follows the first on one connection. `CapacityRecovers` is
about clients that stop: a client that sends for ever keeps its permit, which the
bound `MaxWrites` rules out. In the lifecycle one
daemon dies and leaves files, a second takes them over, a third meets the second;
two commands are an enable and the disable that undoes it, or a repeated enable.
In the renderers the daemon and the CLI meet on one pane with a third step left
for a failure, a crash or a reset, and on an old tmux the pane next to it shares
what is drawn;
the instants lie before and after the quiet hours' end and on both sides of a
debounce. In the hooks two commands overlap with an edit between them; an
uninstall follows an install and an edit.

`CHECK_DEADLOCK FALSE` stands where the system may stop: daemons run once, and
the bounded clock, the bounded number of frames and of operations run out. In `engine` the sweep
can always run.

Properties worth reading first: `NoUnforcedDowngrade` and `ReplayIsNoop`
(engine), `ParentOutlivesChildren`, `AtMostOneOwner` with `OwnerIsNamed`,
`RefusedOnlyByLive`, `DispatchEndsCurrent`, `ArrivalOrderIsForgotten`,
`PanesComeToRest`, `PermitsBalance`, `FramesInSequence`, `LookIsRestored`,
`NextRenderHeals`, `NotifiedWhenDue`, `UsersPartSurvives`, `AskedIsShown`, `KeptUp`.

Several of these name their exceptions, and the exceptions are what the code does:
* `LookIsRestored` excludes a pane on which a command failed, the CLI drew or a
  daemon died, one that shares its options on an old tmux, and the blanks around a
  text, which the capture trims;
* `OneStateShown` and `NextRenderHeals` exclude a label that tmux formats may not
  hold and a theme entry without colour or symbol;
* `UsersPartSurvives` excludes a file from the moment a command replaces it that
  had read it before the user last wrote it, or that could not read or parse it,
  until the user writes it again; comments and entries of the user's that call
  `ats ingest` are not counted as the user's part;
* `AskedIsShown` excludes the failure of a tool that runs beside the question.

### Fairness

* `StateEngine!LiveSpec`: the sweep and the clock go on. The sweep runs every
  second and instants are at least a second apart, so no session is still overdue
  when the clock moves. Senders need not do anything.
* `DaemonLifecycle!FairSpec`: a running process takes its next step. Nobody has to
  start, stop or kill one.
* `Autostart!AFairSpec`: the same, `ats daemon stop` goes on once it has begun, and
  launchd starts a loaded job that has no live daemon. Nobody has to enable or
  disable anything, and either may be interrupted.
* `Broker!FairSpec`: no arm of the `select!` starves (tokio polls them in random
  order, and the ticks recur), an awaited render returns, a signalled server ends
  within its grace period, and the clock goes on whenever it can. Fairness is
  stated on the variable each arm changes (`DrainsPending` and the like), which is
  enabled exactly when the arm is and cheap to evaluate.
* `Broker!TimelySpec` (for `broker_rest`) adds `Settled`: a live
  broker has emptied its buffers before the next instant, at least a second later,
  while its window is 50 ms.
* `SocketServer!FairSpec`: a handler's read ends in one of its three ways, a full
  channel serves its waiting senders in turn, the broker receives, and after the
  signal broker and server come to their shutdown arm. Clients may stop anywhere,
  and nobody has to signal.

## 4. Disagreements between the code and what is said of it

1. `lifecycle_race`: `pidfile.rs:34` promises that two daemons starting together
   never both own the file. The file is created and written in two steps; a second
   daemon that reads it in between finds it empty, takes it for stale and unlinks
   it. (A stale file judged by both has the same effect: the second unlink removes
   the first one's new file.)
2. `broker_stale`: `ats-rendering/src/lib.rs:17` limits "same-state renders". The
   limiter remembers when each state was last rendered and not what was rendered
   since: asked, answered, asked again within 250 ms leaves the pane on the answer
   until the next transition.
3. `hooks_end`: SPEC 9.1's table takes `SessionEnd` to IDLE. `session.stopped` is
   no forced event, so a session that ends while it works, asks or shows a result
   stays in that state for its lifetime, up to four hours. The run goes through an
   entry of the user's that calls the adapter; of the entries the program installs
   it is false because they are never heard (below).
4. `replay`: README and SPEC 15.2 say that a duplicate never moves a state twice.
   The ids already seen are forgotten with the session.
5. `server_drain`: `server.rs:114` and `main.rs:5` promise to drain connections
   within the grace period. The broker takes the same signal, stops at once and
   drops its receiver; a handler that has read a frame fails to pass it on, and
   what is in the channel is lost.

Noted while reading, without a run of their own.

Hooks and the adapter:
* Nothing outside their crate and its tests calls `ClaudeAdapter`, `install_hooks`
  or `uninstall_hooks`. An installed hook hands Claude's payload to `ats ingest`,
  whose `build_event` takes only a normalized event: it is never heard, where SPEC
  9.2 has `ats ingest` turn the one into the other.
* The user's answer sends no hook: a question stands until the next hook that forces
  it down, or for four hours.
* A tool that fails beside an open question hides it behind ERROR, in SPEC's order
  the lower of the two: `tool.failed` is forced.
* RISK cannot be reached from Claude's hooks: the question's payload names no command.
* The first risk pattern found decides, even when a later one is graver.
* `&message[..40]` panics inside a multibyte character.

Files:
* A settings or configuration file that does not parse is replaced by the defaults
  and the backup is removed afterwards; so is a `config.yaml` that is there but
  cannot be read. SPEC 9.3, 14.2 and README:245 say otherwise.
* `ats theme apply` writes `config.yaml` anew from what it parsed: comments are lost.
* A `settings.json.bak` of the user's own is overwritten and deleted.
* Nothing locks a file: of two commands at once one undoes the other's change.

Renderers:
* `render` never asks `detect`: on a tmux before 3.7, where `-p` is not scoped to the
  pane, the tmux renderer draws on the panes beside it. The gate that
  `docs/spikes/tmux-pane-safety.md` requires ("Rendering into window scope is never
  acceptable") is in `event_prototype.rs` and in `detect` only.
* What the tmux renderer captures is trimmed: a border format of the user's with
  blanks around it comes back from a reset without them. A value the pane only had
  from its window comes back as the pane's own.
* After a crash or a restart the daemon has an empty registry and no list of panes, so
  a pane keeps its last look until the next render or `ats reset` on it; README:246
  and SPEC 8.6, 15.4 take what is unknown through UNKNOWN to IDLE.
* A label that tmux formats may not hold leaves the earlier state's text in place.
* The header of the notification renderer lets RISK always notify; debounce and a
  configured list of states stop it.
* The default quiet hours (22:00 to 07:00) fail the configuration's own `validate`;
  `Theme::validate` is called neither when a theme is loaded nor when it is applied.
* The daemon resets nothing when it ends, `RenderingEngine::reset` has no caller, and
  `main.rs` registers no renderer. `run_tmux` has no timeout, and `dispatch_render`
  awaits it, where its comment says it spawns a task.
* `ats reset --all` resets the pane it runs in (README:247, SPEC 15.5).

Daemon and CLI:
* `ats daemon stop` is undone by launchd while the job is loaded (README:134).
* A failed `launchctl unload` is ignored and the property list removed all the same.
* `DaemonPaths::resolve` reads `XDG_RUNTIME_DIR`, which a daemon started by launchd
  need not share with the CLI.
* `ats logs` reads `ats-daemon.log`, while the daily appender writes dated names.
* `run_event`, `run_reset` of `hook_commands.rs` and `run_launchd_status` are called
  by nobody.
* `read_frame` answers a header cut short like a clean end, where its doc says "before
  a header byte".

## 5. Proofs

Checked by TLAPS for every value of the constants that satisfies the modules'
assumptions (`EngineAssumption`, `NoSessionAssumption`, `BrokerAssumption`,
`LifecycleAssumption`, `AutostartAssumption`, `ServerAssumption`,
`RenderersAssumption`, `NoneAssumption`, `UserFilesAssumption`,
`HookPathAssumption`). Every invariant and every action property that a passing run
checks is a theorem; liveness is not.

`StateEngine_proofs`: `TypeCorrect`, `SessionsConsistent`, `ParentLinksClosed`,
`DowngradesForcedOrExpired`, `ParentsOutliveChildren`, `ReplaysAreNoops` and
`EngineImplementsLifecycle`. The inductive invariant `EngineInv` joins type
correctness, the coherence of each session and the closure of the parent links;
coherence is what makes the refinement go through, because a sweep must know that
only Idle has no lifetime. The refinement maps a fresh session to `Appear`, an
event to `Raise` or `Force` or a stutter, a sweep to `Sweep`. `DowngradesForcedOrExpired`
rests on `IngestDowngrade`: an event lowers the rank of the state it meets only if it
is forced, was not counted before and is the session's own; the other way down is a
sweep that finds the lifetime over.

`Broker_proofs`: `BrokerIsTypeCorrect`, `PanesAreKnown`, `DispatchesEndCurrent`,
`ArrivalOrderForgotten`, `StoppedBrokerIsDone`, for any frames, any capacity, any
faults and windows of any length. `BrokerInv` joins the types, `PaneIsKnown`,
`DispatchEndsCurrent` and `LastDrainIsDone`: nothing is pending from the last drain on,
for a broker that stops does so at the end of a dispatch, which leaves `pending` alone.
Three lemmas carry it:
* `PlacesDiffer` and `PlacesTaken`: the events before each event, counted, number the
  window from 1 to its length (the counts are strictly ordered, and an injection of a
  finite set into itself is onto), so `in_order` permutes the window. That it is the
  stable sort the code calls is `InOrderIsStableSort`.
* `IngestedUnfolds` and `IngestedAccumulates`: folding the events of a session one by
  one is well defined, and after each of them the transitions collected so far are a
  chain that ends in the state of the entry.
* `SameWhenSorted`: a permutation of events with different timestamps maps the events
  before each one onto those before its image, so both windows sort into one sequence.
  With events of the same timestamp the order of arrival does decide.

`EngineStaysConsistent` carries `SessionConsistent` and `ParentMapClosed` over to the
engine inside the broker, which folds whole windows session by session, each with its
own links, and starts afresh after a crash.

`DaemonLifecycle_proofs`: under `Serialized` (nobody starts or stops a daemon
while another one is starting), for any number of daemons, `LifecycleTypeCorrect`,
`OwnersAreNamed`, `ServersAreReachable`, `RefusalsAreJustified`.
`OwnerIsNamed` is not inductive alone: `LifecycleInv` adds that at most one daemon
is acquiring, that the one that writes holds the name, that whoever judges the
file has read the owner's PID, that an unlink (the daemon's or the client's) meets
no owner, and that at most one retry is ever used. The assumption cannot be
dropped: `lifecycle_race` is the counterexample.

`SocketServer_proofs`: `PermitsAreBalanced` and, from it, `ServedIsBounded`, for any
number of connections and permits. `PermitsBalance` needs the typing of `handler`
and `permits`, and `NewHasNoHandler` (a connection nobody has opened is not being
served); then a connection enters the served set only by `Accept`, with a free
permit, and leaves it only by `Finish` or, all at once, by `GraceOver`.
`ServerIsTypeCorrect` and `FramesComeInSequence` rest on `FrameInv`, which follows a
frame from hand to hand: the socket holds the last frames written (`SocketInv`), the
handler the one before those, exactly while it sends (`HeldInv`), each frame in the
channel comes right after those received or sent before it (`ChannelInv`), and what a
live handler has sent is received or in the channel (`SentInv`).

`Autostart_proofs`: `AutostartImplementsLifecycle` shows that every step of launchd,
enable and disable is a step or a stutter of `DaemonLifecycle`, so what is proved
there carries over (`RestartedIsReachable`, `RestartIsRefusedOnlyByLive`);
`AutostartTypeCorrect` adds the variables of launchd.

`PaneRenderers_proofs`: `RenderersTypeCorrect`, `NotificationsWhenDue`,
`LooksAreRestored`, `OneStateAtATime`, `ResetsClear`, `FailuresHeal`. The invariant `RenderersInv` adds to the types that every
command a job has left fits its device (`TodoFits`: border options on a pane, title
and badge on a terminal), and that the debounce remembers exactly the latest of what
was handed over (`LatestNoted`). From the second, and `QuietHours` (the renderer's two
cases around midnight are the time since the hours began, modulo a day), the
renderer's decision is the one the whole history calls for. The others rest on `LooksInv`, which says where each job is
heading: an option either already shows what the job is to leave there or a command
that will set it is still to run (`Heading`), for a render the state alone
(`RenderHeads`), for the daemon's reset the user's look (`DaemonResets`), for the
CLI's no state at all (`CliResets`). It needs that a capture comes first in its job and
finds the user's look (`CaptureComesFirst`, `CapturedIsUsers`), and that whoever draws
where the daemon cannot know of it disturbs the device (`IntrudersDisturb`). What is
captured differs from the user's value at most by its blanks, and trimming twice is
trimming once (`InForceValue`), so that holds however often a look is captured and put
back. `FailuresHeal` needs no more than `Healing`: a render nobody else draws over
heads for its state from whatever it finds.

`UserFiles_proofs`: `FilesTypeCorrect`, `OneEntryOfOurs`, `UsersPartIsKept`. What a
command writes is computed from what it read, so for the first two it suffices that
what was read was in order (`FilesInv`), however often the file changed since. For the
third `KeptInv` adds that a command which has read all of its file since the user last
wrote it holds the user's part, as does the file itself until it is spoiled; that what
is computed from a text that parses has the same user's part is a lemma about
`install_hooks`, `uninstall_hooks` and the theme.

`HookPath_proofs`: `QuestionsAreShown`. `HookInv`: a known session is never in RISK (the
one event that could bring it there names no command), and while an open question's
four hours last it is in ATTENTION with a lifetime counted from the question or later.
Without the RISK part the question would not win over the state before it.

The inductions over the length of a window are carried out on sets of naturals
(`LeastElement`, `Induct`), from the library's well-foundedness of the order on the
naturals; its induction theorems take an operator as a parameter, which the installed
provers cannot instantiate.

Only model-checked: liveness (`EventuallyAtRest`, `StartsSettle`, `KeptUp`,
`FramesSettle`, `PanesComeToRest`, `ShutdownEnds`, `CapacityRecovers`,
`ReadIsDelivered`), since fairness and `ENABLED` are out of this prover's reach. The
properties of the runs that end in a violation are false of the code (section 4).

## 6. Not modelled

* Argument parsing, printouts (`status`, `doctor`, `logs`, `theme list`, `theme
  preview`, `daemon status`), log rotation and redaction, path resolution: they read and print,
  and change no state another part reads.
* How a label is sanitized and how events, themes and settings are serialized: string
  processing the properties do not tell apart.
* The settings of the configuration other than the theme: nothing in the daemon reads
  them.
* The queries that only read: `get_aggregated_state` (nobody in the daemon calls it) and
  the adapter's `detect` and `detect_all`.
* The reuse of a PID by another process, a tmux that never answers.
* The other providers the documents plan: the repository has no code for them.

------------------------------ MODULE Autostart ------------------------------
(***************************************************************************)
(* The daemon under launchd (ats-cli daemon_commands.rs): `ats enable`     *)
(* writes a property list and loads it, `ats disable` unloads and removes  *)
(* it, and while the job is loaded launchd keeps one daemon of its own     *)
(* running (RunAtLoad, KeepAlive), beside those the user starts, stops and *)
(* kills.  Every daemon, whoever started it, follows DaemonLifecycle.      *)
(***************************************************************************)
EXTENDS DaemonLifecycle

CONSTANT MaxCommands    \* bound: enables and disables in one behaviour

ASSUME AutostartAssumption == MaxCommands \in Nat

VARIABLES
    plist,       \* the property list is on disk
    loaded,      \* launchd has the job
    child,       \* the daemon launchd started last
    command,     \* what is left of an enable or a disable: "idle", "load", "remove" or "stop"
    commands

launchd == <<plist, loaded, child, command, commands>>
avars == <<vars, launchd>>

AInit ==
    /\ Init
    /\ plist = FALSE /\ loaded = FALSE /\ child = None
    /\ command = "idle" /\ commands = 0

-----------------------------------------------------------------------------
(* launchd                                                                 *)

\* Without KeepAlive the job runs once.
NaiveLaunchdStart(p) ==
    /\ loaded /\ child = None
    /\ Start(p)
    /\ child' = p
    /\ UNCHANGED <<plist, loaded, command, commands>>

\* RunAtLoad and KeepAlive: whatever its end, the job is started again.
LaunchdStart(p) ==
    /\ loaded /\ (child # None => ~Alive(child))
    /\ Start(p)
    /\ child' = p
    /\ UNCHANGED <<plist, loaded, command, commands>>

\* SIGTERM to launchd's daemon, if it has one.
Terminate ==
    \/ (child # None => ~Alive(child) \/ pc[child] \in {"draining", "release"}) /\ UNCHANGED vars
    \/ child # None /\ Shutdown(child)
    \/ child # None /\ pc[child] \notin {"serving", "draining", "release"} /\ Kill(child)

-----------------------------------------------------------------------------
(* run_enable and run_disable                                              *)

Command(next) == command = "idle" /\ commands < MaxCommands /\ commands' = commands + 1 /\ command' = next

EnableWrite ==
    /\ Command("load")
    /\ plist' = TRUE
    /\ UNCHANGED <<vars, loaded, child>>

\* launchctl may refuse; the property list stays.
EnableLoad ==
    /\ command = "load" /\ command' = "idle"
    /\ loaded' \in {loaded, TRUE}
    /\ UNCHANGED <<vars, plist, child, commands>>

\* Without a property list there is nothing to disable.  The exit status of
\* launchctl is not looked at: a job that stays loaded loses its list all the same.
DisableUnload ==
    /\ plist /\ Command("remove")
    /\ \/ UNCHANGED <<vars, loaded>>
       \/ loaded /\ loaded' = FALSE /\ Terminate
    /\ UNCHANGED <<plist, child>>

DisableRemove ==
    /\ command = "remove" /\ command' = "stop"
    /\ plist' = FALSE
    /\ UNCHANGED <<vars, loaded, child, commands>>

\* launchctl knows no job that is not loaded.
DisableStop ==
    /\ command = "stop" /\ command' = "idle"
    /\ IF loaded THEN Terminate ELSE UNCHANGED vars
    /\ UNCHANGED <<plist, loaded, child, commands>>

\* The command is interrupted, or exits on an error, between two steps.
Interrupt ==
    /\ command # "idle" /\ command' = "idle"
    /\ UNCHANGED <<vars, plist, loaded, child, commands>>

Commands ==
    EnableWrite \/ EnableLoad \/ DisableUnload \/ DisableRemove \/ DisableStop \/ Interrupt

-----------------------------------------------------------------------------
Alone(action) == action /\ UNCHANGED launchd

ANext ==
    \/ \E p \in Daemon : Alone(Start(p)) \/ Alone(Step(p)) \/ Alone(Shutdown(p)) \/ Alone(Kill(p))
    \/ Alone(StopRead) \/ Alone(StopStep)
    \/ \E p \in Daemon : LaunchdStart(p)
    \/ Commands

ASpec == AInit /\ [][ANext]_avars

\* DaemonLifecycle's fairness, and launchd starts what it has to.
AFairSpec ==
    /\ ASpec
    /\ \A p \in Daemon : WF_avars(Alone(Step(p)))
    /\ WF_avars(Alone(StopStep))
    /\ WF_avars(\E p \in Daemon : LaunchdStart(p))

-----------------------------------------------------------------------------
(* `ats daemon status`                                                     *)

pid_is_alive == pid_file # None /\ pid_file \in written /\ Alive(pid_file)

\* A connection is refused once nobody listens, and queued before anybody accepts.
socket_reachable == socket # None /\ pc[socket] = "serving"

healthy == pid_is_alive /\ socket_reachable

-----------------------------------------------------------------------------
(* Properties                                                              *)

ATypeOK ==
    /\ TypeOK
    /\ plist \in BOOLEAN /\ loaded \in BOOLEAN /\ child \in Daemon \cup {None}
    /\ command \in {"idle", "load", "remove", "stop"} /\ commands \in 0..MaxCommands

\* As long as the job stays loaded `ats daemon status` gets to report a daemon
\* that runs, whatever was killed, stopped or left behind before and whoever
\* else's daemon refused launchd's: no file of a dead daemon keeps it down.  (A
\* behaviour ends when every daemon of the instance has been started once.)
KeptUp == loaded ~> (healthy \/ ~loaded \/ \A p \in Daemon : pc[p] # "off")
=============================================================================

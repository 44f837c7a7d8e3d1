-------------------------- MODULE DaemonLifecycle --------------------------
(***************************************************************************)
(* Who owns the daemon's PID file and socket path: daemons that start,     *)
(* serve, shut down or are killed at any point (ats-daemon pidfile.rs,     *)
(* server.rs, main.rs), beside `ats daemon stop` (ats-cli                  *)
(* daemon_commands.rs).  Both paths are shared by name: every unlink       *)
(* removes whatever file is at the path at that moment, and an open file   *)
(* is still written after its name is gone.                                *)
(*                                                                         *)
(* A Daemon is one process with a PID of its own; it runs once.            *)
(***************************************************************************)
EXTENDS Naturals, FiniteSets

CONSTANTS
    Daemon,
    None,         \* no file at the path; a PID that does not parse
    Serialized    \* TRUE: nobody starts or stops a daemon while another one is starting

ASSUME LifecycleAssumption == None \notin Daemon /\ Serialized \in BOOLEAN

MAX_ATTEMPTS == 3

VARIABLES
    pid_file,     \* the daemon whose file is at the PID path
    written,      \* the daemons whose file holds their PID (the others' are empty)
    socket,       \* the daemon whose socket is at the socket path
    pc,           \* where each daemon is
    attempts,     \* rounds of acquire's loop used up
    read_pid,     \* what a starting daemon read from the PID file
    cli,          \* where `ats daemon stop` is: "idle", "kill" or "remove"
    cli_pid       \* the PID it read

vars == <<pid_file, written, socket, pc, attempts, read_pid, cli, cli_pid>>
files == <<pid_file, written, socket>>
client == <<cli, cli_pid>>

Acquiring == {"create", "write", "read", "judge", "unlink"}
Owning == {"clear_socket", "bind", "serving", "draining", "release"}
Ended == {"exited", "refused", "killed"}

Alive(p) == pc[p] \in Acquiring \cup Owning
Owner(p) == pc[p] \in Owning

NobodyAcquiring == \A p \in Daemon : pc[p] \notin Acquiring

goto(p, next) == pc' = [pc EXCEPT ![p] = next]

Init ==
    /\ pid_file = None /\ written = {} /\ socket = None
    /\ pc = [p \in Daemon |-> "off"]
    /\ attempts = [p \in Daemon |-> 0]
    /\ read_pid = [p \in Daemon |-> None]
    /\ cli = "idle" /\ cli_pid = None

-----------------------------------------------------------------------------
(* PidFile::acquire                                                        *)

Start(p) ==
    /\ pc[p] = "off"
    /\ Serialized => NobodyAcquiring /\ cli = "idle"
    /\ goto(p, "create")
    /\ UNCHANGED <<files, attempts, read_pid, client>>

\* Opens with create_new, or finds the name taken.
Create(p) ==
    /\ pc[p] = "create"
    /\ \/ /\ pid_file = None
          /\ pid_file' = p
          /\ goto(p, "write")
       \/ /\ pid_file # None
          /\ goto(p, "read")
          /\ UNCHANGED pid_file
    /\ UNCHANGED <<written, socket, attempts, read_pid, client>>

Write(p) ==
    /\ pc[p] = "write"
    /\ written' = written \cup {p}
    /\ goto(p, "clear_socket")
    /\ UNCHANGED <<pid_file, socket, attempts, read_pid, client>>

\* The round is used up: another one, or contention ends the start.
Retry(p) ==
    /\ attempts' = [attempts EXCEPT ![p] = @ + 1]
    /\ goto(p, IF attempts[p] + 1 < MAX_ATTEMPTS THEN "create" ELSE "refused")

Read(p) ==
    /\ pc[p] = "read"
    /\ \/ /\ pid_file = None
          /\ Retry(p)
          /\ UNCHANGED read_pid
       \/ /\ pid_file # None
          /\ read_pid' = [read_pid EXCEPT ![p] = IF pid_file \in written THEN pid_file ELSE None]
          /\ goto(p, "judge")
          /\ UNCHANGED attempts
    /\ UNCHANGED <<files, client>>

\* A daemon counts as live only while it serves.
NaiveLiveOwner(p) == read_pid[p] # None /\ read_pid[p] # p /\ pc[read_pid[p]] = "serving"

\* Any PID in the file counts as live.
NaivePidMeansLive(p) == read_pid[p] # None /\ read_pid[p] # p

LiveOwner(p) == read_pid[p] # None /\ read_pid[p] # p /\ Alive(read_pid[p])

Judge(p) ==
    /\ pc[p] = "judge"
    /\ goto(p, IF LiveOwner(p) THEN "refused" ELSE "unlink")
    /\ UNCHANGED <<files, attempts, read_pid, client>>

\* The stale file is left and the attempt not counted.
NaiveUnlink(p) ==
    /\ pc[p] = "unlink"
    /\ goto(p, "create")
    /\ UNCHANGED <<files, attempts, read_pid, client>>

Unlink(p) ==
    /\ pc[p] = "unlink"
    /\ pid_file' = None
    /\ Retry(p)
    /\ UNCHANGED <<written, socket, read_pid, client>>

-----------------------------------------------------------------------------
(* SocketServer::bind, the run to shutdown, and the two guards' drops       *)

ClearSocket(p) ==
    /\ pc[p] = "clear_socket"
    /\ socket' = None
    /\ goto(p, "bind")
    /\ UNCHANGED <<pid_file, written, attempts, read_pid, client>>

\* A name taken again since ClearSocket fails the start.
Bind(p) ==
    /\ pc[p] = "bind"
    /\ IF socket = None
       THEN socket' = p /\ goto(p, "serving")
       ELSE goto(p, "release") /\ UNCHANGED socket
    /\ UNCHANGED <<pid_file, written, attempts, read_pid, client>>

Shutdown(p) ==
    /\ pc[p] = "serving"
    /\ goto(p, "draining")
    /\ UNCHANGED <<files, attempts, read_pid, client>>

CloseSocket(p) ==
    /\ pc[p] = "draining"
    /\ socket' = None
    /\ goto(p, "release")
    /\ UNCHANGED <<pid_file, written, attempts, read_pid, client>>

Release(p) ==
    /\ pc[p] = "release"
    /\ pid_file' = None
    /\ goto(p, "exited")
    /\ UNCHANGED <<written, socket, attempts, read_pid, client>>

\* kill -9, a crash, or SIGTERM before the handlers are installed: no guard runs.
Kill(p) ==
    /\ Alive(p)
    /\ goto(p, "killed")
    /\ UNCHANGED <<files, attempts, read_pid, client>>

-----------------------------------------------------------------------------
(* `ats daemon stop`                                                       *)

\* A file without a PID is not told apart.
NaiveStopRead ==
    /\ cli = "idle"
    /\ Serialized => NobodyAcquiring
    /\ pid_file # None
    /\ cli' = "kill" /\ cli_pid' = IF pid_file \in written THEN pid_file ELSE None
    /\ UNCHANGED <<files, pc, attempts, read_pid>>

StopRead ==
    /\ cli = "idle"
    /\ Serialized => NobodyAcquiring
    /\ pid_file # None /\ pid_file \in written
    /\ cli' = "kill" /\ cli_pid' = pid_file
    /\ UNCHANGED <<files, pc, attempts, read_pid>>

\* SIGTERM reaches the process it names, which is killed by it until its
\* handlers are installed and shuts down after; ESRCH means a stale file.
StopKill ==
    /\ cli = "kill"
    /\ \/ /\ ~Alive(cli_pid)
          /\ cli' = "remove" /\ UNCHANGED <<pc, cli_pid>>
       \/ /\ Alive(cli_pid)
          /\ cli' = "idle" /\ cli_pid' = None
          /\ pc' = [pc EXCEPT ![cli_pid] =
                       CASE pc[cli_pid] = "serving"                  -> "draining"
                         [] pc[cli_pid] \in {"draining", "release"} -> @
                         [] OTHER                                   -> "killed"]
    /\ UNCHANGED <<files, attempts, read_pid>>

StopRemove ==
    /\ cli = "remove"
    /\ pid_file' = None
    /\ cli' = "idle" /\ cli_pid' = None
    /\ UNCHANGED <<written, socket, pc, attempts, read_pid>>

-----------------------------------------------------------------------------
Step(p) ==
    \/ Create(p) \/ Write(p) \/ Read(p) \/ Judge(p) \/ Unlink(p)
    \/ ClearSocket(p) \/ Bind(p) \/ CloseSocket(p) \/ Release(p)

StopStep == StopKill \/ StopRemove

Next ==
    \/ \E p \in Daemon : Start(p) \/ Step(p) \/ Shutdown(p) \/ Kill(p)
    \/ StopRead \/ StopStep

Spec == Init /\ [][Next]_vars

\* A running process keeps running; nobody has to start, stop or kill one.
FairSpec == Spec /\ (\A p \in Daemon : WF_vars(Step(p))) /\ WF_vars(StopStep)

-----------------------------------------------------------------------------
(* Properties                                                              *)

TypeOK ==
    /\ pid_file \in Daemon \cup {None} /\ socket \in Daemon \cup {None}
    /\ written \in SUBSET Daemon
    /\ pc \in [Daemon -> {"off"} \cup Acquiring \cup Owning \cup Ended]
    /\ attempts \in [Daemon -> 0..MAX_ATTEMPTS]
    /\ read_pid \in [Daemon -> Daemon \cup {None}]
    /\ cli \in {"idle", "kill", "remove"}
    /\ cli_pid \in Daemon \cup {None}
    /\ cli = "kill" => cli_pid \in Daemon

\* Never two daemons whose acquire has returned Ok and that still live (the
\* O_EXCL claim of pidfile.rs).
AtMostOneOwner == \A p, q \in Daemon : Owner(p) /\ Owner(q) => p = q

\* The daemon that owns the PID file is the one the file at the path names:
\* `ats daemon stop` and the next start find it.
OwnerIsNamed == \A p \in Daemon : Owner(p) => pid_file = p /\ p \in written

\* A daemon that serves is reachable: the socket at the path is its own.
ServingIsReachable == \A p \in Daemon : pc[p] = "serving" => socket = p

\* A start fails only because another daemon lives, never because of what a
\* killed one left behind or because the attempts ran out.
RefusedOnlyByLive ==
    [][\A p \in Daemon :
          pc[p] # "refused" /\ pc'[p] = "refused" => \E q \in Daemon \ {p} : Alive(q)]_vars

\* Every start is settled: the daemon serves, is refused, or has ended.
StartsSettle ==
    \A p \in Daemon : pc[p] = "create" ~> pc[p] \in {"serving"} \cup Ended

=============================================================================

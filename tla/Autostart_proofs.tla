--------------------------- MODULE Autostart_proofs ---------------------------
(***************************************************************************)
(* The composition of launchd, `ats enable` and `ats disable` with the     *)
(* daemons adds nothing to what DaemonLifecycle allows: every step of      *)
(* theirs is a step of a daemon, of `ats daemon stop`, or one that touches *)
(* neither the files nor the processes.  So what DaemonLifecycle_proofs    *)
(* proves of every daemon holds of those launchd restarts.                 *)
(***************************************************************************)
EXTENDS Autostart, DaemonLifecycle_proofs

\* SIGTERM from launchd is one of the ends a daemon has anyway.
LEMMA TerminateIsAnEnd ==
    ASSUME child \in Daemon \cup {None}, Terminate
    PROVE  [Next]_vars
<1>1. CASE UNCHANGED vars
  BY <1>1
<1>2. CASE child # None /\ Shutdown(child)
  BY <1>2 DEF Next
<1>3. CASE child # None /\ Kill(child)
  BY <1>3 DEF Next
<1>. QED BY <1>1, <1>2, <1>3 DEF Terminate

\* What launchd and the two commands remember keeps its type.
ChildOK ==
    /\ plist \in BOOLEAN /\ loaded \in BOOLEAN /\ child \in Daemon \cup {None}
    /\ command \in {"idle", "load", "remove", "stop"} /\ commands \in 0..MaxCommands

LEMMA ChildKeeps == ChildOK /\ [ANext]_avars => ChildOK'
<1> SUFFICES ASSUME ChildOK, [ANext]_avars PROVE ChildOK'
  OBVIOUS
<1> USE AutostartAssumption DEF ChildOK
<1>1. CASE UNCHANGED launchd
  BY <1>1 DEF launchd
<1>2. CASE \E p \in Daemon : LaunchdStart(p)
  BY <1>2 DEF LaunchdStart
<1>3. CASE EnableWrite
  BY <1>3 DEF EnableWrite, Command
<1>4. CASE EnableLoad
  BY <1>4 DEF EnableLoad
<1>5. CASE DisableUnload
  <2>1. loaded' \in BOOLEAN
    BY <1>5 DEF DisableUnload, Terminate
  <2>2. commands' \in 0..MaxCommands
    BY <1>5 DEF DisableUnload, Command
  <2>. QED BY <1>5, <2>1, <2>2 DEF DisableUnload, Command
<1>6. CASE DisableRemove \/ DisableStop \/ Interrupt
  BY <1>6 DEF DisableRemove, DisableStop, Interrupt
<1>. QED BY <1>1, <1>2, <1>3, <1>4, <1>5, <1>6 DEF ANext, Commands, Alone, avars

LEMMA ChildStarts == AInit => ChildOK
<1> SUFFICES ASSUME AInit PROVE ChildOK
  OBVIOUS
<1>1. commands \in 0..MaxCommands
  BY AutostartAssumption DEF AInit
<1>. QED BY <1>1 DEF AInit, ChildOK

\* Every step of the composition is one of DaemonLifecycle's, or none.
LEMMA StepIsLifecycles ==
    ASSUME ChildOK, [ANext]_avars
    PROVE  [Next]_vars
<1>1. CASE UNCHANGED avars
  BY <1>1 DEF avars
<1>2. CASE \E p \in Daemon : Alone(Start(p)) \/ Alone(Step(p)) \/ Alone(Shutdown(p)) \/ Alone(Kill(p))
  BY <1>2 DEF Alone, Next
<1>3. CASE Alone(StopRead) \/ Alone(StopStep)
  BY <1>3 DEF Alone, Next
<1>4. CASE \E p \in Daemon : LaunchdStart(p)
  BY <1>4 DEF LaunchdStart, Next
<1>5. CASE EnableWrite \/ EnableLoad \/ DisableRemove \/ Interrupt
  BY <1>5 DEF EnableWrite, EnableLoad, DisableRemove, Interrupt
<1>6. CASE DisableUnload \/ DisableStop
  <2>1. UNCHANGED vars \/ Terminate
    BY <1>6 DEF DisableUnload, DisableStop
  <2>2. child \in Daemon \cup {None}
    BY DEF ChildOK
  <2>. QED BY <2>1, <2>2, TerminateIsAnEnd
<1>. QED BY <1>1, <1>2, <1>3, <1>4, <1>5, <1>6 DEF ANext, Commands

\* Autostart implements DaemonLifecycle: launchd, enable and disable bring about
\* no start, end or file that the daemons and `ats daemon stop` could not.
THEOREM AutostartImplementsLifecycle == ASpec => Spec
<1>1. AInit => Init /\ ChildOK
  BY ChildStarts DEF AInit
<1>2. ChildOK /\ [ANext]_avars => ChildOK' /\ [Next]_vars
  BY ChildKeeps, StepIsLifecycles
<1>. QED BY <1>1, <1>2, PTL DEF ASpec, Spec

\* The state of the daemons, of launchd and of the two commands keeps its type
\* when daemons start one at a time.
THEOREM AutostartTypeCorrect == Serialized => (ASpec => []ATypeOK)
<1>1. TypeOK /\ ChildOK => ATypeOK
  BY DEF ATypeOK, ChildOK
<1>. QED BY <1>1, ChildStarts, ChildKeeps, AutostartImplementsLifecycle, LifecycleTypeCorrect, PTL DEF ASpec

\* A daemon launchd restarts owns the PID file like any other: the file names it
\* and its socket is the one at the path, so `ats daemon stop` and the hooks
\* reach it, whatever the daemons before it left behind.
THEOREM RestartedIsReachable == Serialized => (ASpec => [](OwnerIsNamed /\ ServingIsReachable))
BY AutostartImplementsLifecycle, OwnersAreNamed, ServersAreReachable, PTL

\* launchd's start is turned away only by a daemon that lives, never by the
\* files of the one it replaces: KeepAlive cannot be defeated by a crash.
THEOREM RestartIsRefusedOnlyByLive == Serialized => (ASpec => RefusedOnlyByLive)
BY AutostartImplementsLifecycle, RefusalsAreJustified, PTL
=============================================================================

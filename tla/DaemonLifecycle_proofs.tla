----------------------- MODULE DaemonLifecycle_proofs -----------------------
(***************************************************************************)
(* Proofs about DaemonLifecycle for any number of daemons, as long as      *)
(* nobody starts or stops one while another one is starting (Serialized).  *)
(* Without that the first theorem is false: see MC_LifecycleRace.          *)
(*                                                                         *)
(* The argument: a daemon that is starting is alone among those that       *)
(* start, and finds in the PID file the one owner there may be.  So it     *)
(* unlinks the file only when there is no owner, and writes it only when   *)
(* the file is its own.                                                    *)
(***************************************************************************)
EXTENDS DaemonLifecycle, TLAPS

OneAcquirer ==
    \A p, q \in Daemon : pc[p] \in Acquiring /\ pc[q] \in Acquiring => p = q

\* `ats daemon stop` and a start exclude each other.
ClientAlone == cli # "idle" => NobodyAcquiring

WriterHolds == \A p \in Daemon : pc[p] = "write" => pid_file = p

\* Whoever is past the decision to take or unlink the file has no owner to fear.
NoOwnerBeside ==
    \A p, q \in Daemon : Owner(q) =>
        /\ pc[p] \notin {"write", "unlink"}
        /\ pc[p] = "judge" => read_pid[p] = q

ClientSees ==
    \A q \in Daemon : Owner(q) => cli # "remove" /\ (cli = "kill" => cli_pid = q)

SocketFollows ==
    \A p \in Daemon : /\ pc[p] = "bind" => socket = None
                      /\ pc[p] = "serving" => socket = p

\* One retry at most: nobody takes the name in between.
FewAttempts ==
    \A p \in Daemon :
        /\ pc[p] \in {"off", "read", "judge", "unlink"} => attempts[p] = 0
        /\ pc[p] = "create" => attempts[p] = 0 \/ (attempts[p] = 1 /\ pid_file = None)

LifecycleInv ==
    /\ TypeOK /\ OneAcquirer /\ ClientAlone /\ OwnerIsNamed /\ WriterHolds /\ NoOwnerBeside
    /\ ClientSees /\ SocketFollows /\ FewAttempts

-----------------------------------------------------------------------------
LEMMA InitEstablishes == Init => LifecycleInv
BY LifecycleAssumption
DEF Init, LifecycleInv, TypeOK, OneAcquirer, ClientAlone, OwnerIsNamed, WriterHolds, NoOwnerBeside,
    ClientSees, SocketFollows, FewAttempts, Owner, Acquiring, Owning, MAX_ATTEMPTS

\* A start that finds the file taken by an owner reads the owner's PID and is
\* refused; so an unlink meets no owner.
LEMMA AcquireKeeps ==
    ASSUME Serialized, LifecycleInv, NEW p \in Daemon,
           Start(p) \/ Create(p) \/ Write(p) \/ Read(p) \/ Judge(p) \/ Unlink(p)
    PROVE  LifecycleInv'
<1> USE LifecycleAssumption
    DEF LifecycleInv, TypeOK, OneAcquirer, ClientAlone, OwnerIsNamed, WriterHolds, NoOwnerBeside,
        ClientSees, SocketFollows, FewAttempts, NobodyAcquiring, Owner, Acquiring, Owning, Ended,
        goto, files, client, MAX_ATTEMPTS
<1>1. CASE Start(p)   BY <1>1, SMTT(30) DEF Start
<1>2. CASE Create(p)  BY <1>2, SMTT(30) DEF Create
<1>3. CASE Write(p)   BY <1>3, SMTT(30) DEF Write
<1>4. CASE Read(p)    BY <1>4, SMTT(30) DEF Read, Retry
<1>5. CASE Judge(p)
  <2>1. ASSUME NEW q \in Daemon, Owner(q) PROVE LiveOwner(p)
    \* the file, hence what p read, names q, which lives and is not p
    BY <1>5, <2>1, SMTT(30) DEF Judge, LiveOwner, Alive
  <2>2. pc'[p] = "unlink" => \A q \in Daemon : ~Owner(q)
    BY <1>5, <2>1, SMTT(30) DEF Judge
  <2>. QED BY <1>5, <2>2, SMTT(30) DEF Judge
<1>6. CASE Unlink(p)
  <2>1. \A q \in Daemon : ~Owner(q) /\ pc[q] # "write"
    BY <1>6, SMTT(30) DEF Unlink
  <2>. QED BY <1>6, <2>1, SMTT(30) DEF Unlink, Retry
<1>. QED BY <1>1, <1>2, <1>3, <1>4, <1>5, <1>6

\* Only the one owner touches the socket, and it gives both files up in order.
LEMMA OwnerKeeps ==
    ASSUME Serialized, LifecycleInv, NEW p \in Daemon,
           ClearSocket(p) \/ Bind(p) \/ Shutdown(p) \/ CloseSocket(p) \/ Release(p) \/ Kill(p)
    PROVE  LifecycleInv'
<1> USE LifecycleAssumption
    DEF LifecycleInv, TypeOK, OneAcquirer, ClientAlone, OwnerIsNamed, WriterHolds, NoOwnerBeside,
        ClientSees, SocketFollows, FewAttempts, NobodyAcquiring, Owner, Acquiring, Owning, Ended,
        goto, files, client, MAX_ATTEMPTS
<1>1. CASE ClearSocket(p) BY <1>1, SMTT(30) DEF ClearSocket
<1>2. CASE Bind(p)        BY <1>2, SMTT(30) DEF Bind
<1>3. CASE Shutdown(p)    BY <1>3, SMTT(30) DEF Shutdown
<1>4. CASE CloseSocket(p) BY <1>4, SMTT(30) DEF CloseSocket
<1>5. CASE Release(p)
  <2>1. \A q \in Daemon : q # p => ~Owner(q) /\ pc[q] # "write"
    BY <1>5, SMTT(30) DEF Release
  <2>. QED BY <1>5, <2>1, SMTT(30) DEF Release
<1>6. CASE Kill(p)        BY <1>6, SMTT(30) DEF Kill, Alive
<1>. QED BY <1>1, <1>2, <1>3, <1>4, <1>5, <1>6

\* The file the client removes was its reader's, which has died; nobody could
\* start since.
LEMMA StopKeeps ==
    ASSUME Serialized, LifecycleInv, StopRead \/ StopStep
    PROVE  LifecycleInv'
<1> USE LifecycleAssumption
    DEF LifecycleInv, TypeOK, OneAcquirer, ClientAlone, OwnerIsNamed, WriterHolds, NoOwnerBeside,
        ClientSees, SocketFollows, FewAttempts, NobodyAcquiring, Owner, Acquiring, Owning, Ended,
        goto, files, client, MAX_ATTEMPTS
<1>1. CASE StopRead   BY <1>1, SMTT(30) DEF StopRead
<1>2. CASE StopKill
  <2>1. CASE ~Alive(cli_pid)
    <3>1. \A q \in Daemon : ~Owner(q)
      BY <1>2, <2>1, SMTT(30) DEF StopKill, Alive
    <3>. QED BY <1>2, <2>1, <3>1, SMTT(30) DEF StopKill
  <2>2. CASE Alive(cli_pid)
    BY <1>2, <2>2, SMTT(30) DEF StopKill, Alive
  <2>. QED BY <2>1, <2>2
<1>3. CASE StopRemove BY <1>3, SMTT(30) DEF StopRemove
<1>. QED BY <1>1, <1>2, <1>3 DEF StopStep

LEMMA StepKeeps == Serialized /\ LifecycleInv /\ [Next]_vars => LifecycleInv'
<1> SUFFICES ASSUME Serialized, LifecycleInv, [Next]_vars PROVE LifecycleInv'
  OBVIOUS
<1>1. CASE UNCHANGED vars
  BY <1>1 DEF LifecycleInv, TypeOK, OneAcquirer, ClientAlone, OwnerIsNamed, WriterHolds,
      NoOwnerBeside, ClientSees, SocketFollows, FewAttempts, NobodyAcquiring, Owner, vars
<1>2. CASE \E p \in Daemon : Start(p) \/ Step(p) \/ Shutdown(p) \/ Kill(p)
  BY <1>2, AcquireKeeps, OwnerKeeps DEF Step
<1>3. CASE StopRead \/ StopStep
  BY <1>3, StopKeeps
<1>. QED BY <1>1, <1>2, <1>3 DEF Next

\* The invariant holds throughout, provided starts and stops do not overlap a
\* start.
THEOREM LifecycleInvariant == Serialized => (Spec => []LifecycleInv)
<1> SUFFICES ASSUME Serialized PROVE Spec => []LifecycleInv
  OBVIOUS
<1>1. LifecycleInv /\ [Next]_vars => LifecycleInv'
  BY StepKeeps
<1>. QED BY <1>1, InitEstablishes, PTL DEF Spec

-----------------------------------------------------------------------------
\* Every reachable state is well typed; in particular acquire never needs more
\* than its three attempts (pidfile.rs, acquire).
THEOREM LifecycleTypeCorrect == Serialized => (Spec => []TypeOK)
<1>1. LifecycleInv => TypeOK BY DEF LifecycleInv
<1>. QED BY <1>1, LifecycleInvariant, PTL

\* The file at the path names whoever owns it (pidfile.rs, acquire and drop).
THEOREM OwnersAreNamed == Serialized => (Spec => []OwnerIsNamed)
<1>1. LifecycleInv => OwnerIsNamed BY DEF LifecycleInv
<1>. QED BY <1>1, LifecycleInvariant, PTL

\* No other daemon's start or end takes the socket of one that serves
\* (server.rs, bind and SocketFileGuard).
THEOREM ServersAreReachable == Serialized => (Spec => []ServingIsReachable)
<1>1. LifecycleInv => ServingIsReachable BY DEF LifecycleInv, SocketFollows, ServingIsReachable
<1>. QED BY <1>1, LifecycleInvariant, PTL

\* A start is refused only because another daemon lives: whatever a killed
\* daemon left is replaced (pidfile.rs, acquire).
THEOREM RefusalsAreJustified == Serialized => (Spec => RefusedOnlyByLive)
<1>1. ASSUME LifecycleInv, [Next]_vars, NEW p \in Daemon, pc[p] # "refused", pc'[p] = "refused"
      PROVE  \E q \in Daemon \ {p} : Alive(q)
  <2> USE <1>1, LifecycleAssumption DEF LifecycleInv, TypeOK, goto
  <2>1. \E r \in Daemon : Read(r) \/ Unlink(r) \/ Judge(r)
    BY SMTT(30) DEF Next, vars, Step, StopStep, Start, Create, Write, ClearSocket, Bind,
        Shutdown, CloseSocket, Release, Kill, StopRead, StopKill, StopRemove
  <2>2. ASSUME NEW r \in Daemon, Read(r) \/ Unlink(r) PROVE FALSE
    \* the first of three rounds
    BY <2>2 DEF Read, Unlink, Retry, FewAttempts, MAX_ATTEMPTS
  <2>3. ASSUME NEW r \in Daemon, Judge(r) PROVE r = p /\ LiveOwner(p)
    BY <2>3 DEF Judge
  <2>. QED BY <2>1, <2>2, <2>3 DEF LiveOwner
<1>2. LifecycleInv /\ [Next]_vars =>
        [\A p \in Daemon :
            pc[p] # "refused" /\ pc'[p] = "refused" => \E q \in Daemon \ {p} : Alive(q)]_vars
  BY <1>1
<1>. QED BY <1>2, LifecycleInvariant, PTL DEF Spec, RefusedOnlyByLive
=============================================================================

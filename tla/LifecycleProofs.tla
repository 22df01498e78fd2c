--------------------------- MODULE LifecycleProofs ---------------------------
(* Theorems about Lifecycle, for every number of processes, every accept cap  *)
(* and every bound on the number of starts.                                   *)
EXTENDS Lifecycle, TLAPS

USE LifecycleAssumption DEF Inodes

(* The initial state: no process, no file.                                    *)
LEMMA InitLInv == Init => LInv
BY DEF Init, LInv, TypeOK, FdInv, HolderInv, UnlinkedInv, ServerInv, ListenerReachable,
       Listening, HasLock, MainPCs, ServerPCs

(* A process whose descriptors the kernel closes leaves the others as they    *)
(* were.                                                                      *)
LEMMA ReleaseLInv ==
    ASSUME LInv, NEW p \in Procs, Release(p), UNCHANGED <<pidfile, nextInode, starts>>,
           sock' = sock \/ (sock = p /\ sock' = Stale),
           ~Listening(p) \/ sock' # p,
           faulted' \in SUBSET Faults
    PROVE  LInv'
<1> USE DEF LInv, Release, Goto
<1>1. TypeOK'
  BY DEF TypeOK, MainPCs, ServerPCs
<1>2. FdInv' /\ UnlinkedInv' /\ ServerInv'
  BY DEF FdInv, UnlinkedInv, ServerInv, TypeOK
<1>3. HolderInv'
  BY DEF HolderInv, HasLock, TypeOK, FdInv
<1>4. ListenerReachable'
  BY DEF ListenerReachable, Listening, TypeOK
<1> QED
  BY <1>1, <1>2, <1>3, <1>4

(* A process starts.                                                          *)
LEMMA StartLInv ==
    ASSUME LInv, NEW p \in Procs, Start(p)
    PROVE  LInv'
<1> USE DEF LInv, Start, Goto, fileVars, serverVars
<1>1. starts' \in 0..MaxStarts
  BY DEF TypeOK
<1>2. TypeOK'
  BY <1>1 DEF TypeOK, MainPCs
<1>3. FdInv' /\ UnlinkedInv' /\ ServerInv'
  BY DEF FdInv, UnlinkedInv, ServerInv, TypeOK
<1>4. HolderInv'
  BY DEF HolderInv, HasLock, TypeOK
<1>5. ListenerReachable'
  BY DEF ListenerReachable, Listening, TypeOK
<1> QED
  BY <1>2, <1>3, <1>4, <1>5

(* A process that finds the inode locked gives up: it held no lock itself.    *)
LEMMA AlreadyRunningLInv ==
    ASSUME LInv, NEW p \in Procs, AlreadyRunning(p)
    PROVE  LInv'
<1> USE DEF LInv, AlreadyRunning, Goto, fileVars, serverVars
<1>1. TypeOK'
  BY DEF TypeOK, MainPCs
<1>2. FdInv' /\ UnlinkedInv' /\ ServerInv'
  BY DEF FdInv, UnlinkedInv, ServerInv, TypeOK
<1>3. HolderInv'
  BY DEF HolderInv, HasLock, TypeOK
<1>4. ListenerReachable'
  BY DEF ListenerReachable, Listening, TypeOK
<1> QED
  BY <1>1, <1>2, <1>3, <1>4

(* The steps of the main task that only move it on.                           *)
LEMMA MainLInv ==
    ASSUME LInv, NEW p \in Procs,
           \/ WritePid(p) \/ SpawnServer(p)
           \/ Terminate(p) \/ OrchestratorJoined(p) \/ ServerJoined(p)
    PROVE  LInv'
<1> DEFINE Inner == {"write", "spawn", "up", "drain", "join", "unlink"}
<1> USE DEF LInv, Goto, ServerGoto, fileVars, serverVars
<1>1. PICK l \in Inner : pc' = [pc EXCEPT ![p] = l] /\ pc[p] \in Inner
  BY DEF WritePid, SpawnServer, Terminate, OrchestratorJoined, ServerJoined
<1>2. UNCHANGED <<pidfile, nextInode, holder, sock, starts, fd, conns, faulted>>
  BY DEF WritePid, SpawnServer, Terminate, OrchestratorJoined, ServerJoined
<1>3. /\ srv' \in [Procs -> ServerPCs] /\ stop' \in [Procs -> BOOLEAN]
      /\ \A q \in Procs : srv'[q] \in {"accept", "queued"} => srv'[q] = srv[q]
  BY DEF WritePid, SpawnServer, Terminate, OrchestratorJoined, ServerJoined, TypeOK, ServerPCs
<1>4. TypeOK'
  BY <1>1, <1>2, <1>3 DEF TypeOK, MainPCs
<1>5. FdInv'
  BY <1>1, <1>2 DEF FdInv, TypeOK
<1>6. HolderInv'
  BY <1>1, <1>2 DEF HolderInv, HasLock, TypeOK
<1>7. UnlinkedInv'
  BY <1>1, <1>2 DEF UnlinkedInv, TypeOK
<1>8. ServerInv'
  BY DEF ServerInv, TypeOK, WritePid, SpawnServer, Terminate, OrchestratorJoined, ServerJoined
<1>9. ListenerReachable'
  BY <1>2, <1>3 DEF ListenerReachable, Listening
<1> QED
  BY <1>4, <1>5, <1>6, <1>7, <1>8, <1>9

(* open_pidfile: a new file gets an inode no process has open.                *)
LEMMA OpenLInv ==
    ASSUME LInv, NEW p \in Procs, OpenPidfile(p)
    PROVE  LInv'
<1> USE DEF LInv, OpenPidfile, Goto, serverVars
<1>1. /\ pidfile' \in Inodes /\ pidfile' < nextInode'
      /\ nextInode' \in 1..(MaxStarts + 1) /\ nextInode <= nextInode'
      /\ pidfile' = pidfile \/ pidfile' = nextInode
  BY DEF TypeOK, FdInv
<1>2. TypeOK'
  BY <1>1 DEF TypeOK, MainPCs
<1>3. FdInv'
  BY <1>1 DEF FdInv, TypeOK
<1>4. HolderInv'
  BY DEF HolderInv, HasLock, TypeOK
<1>5. UnlinkedInv' /\ ServerInv'
  BY <1>1 DEF UnlinkedInv, ServerInv, TypeOK, FdInv
<1>6. ListenerReachable'
  BY DEF ListenerReachable, Listening, TypeOK
<1> QED
  BY <1>2, <1>3, <1>4, <1>5, <1>6

(* try_lock_exclusive: the inode had no holder.                               *)
LEMMA LockLInv ==
    ASSUME LInv, NEW p \in Procs, TryLock(p)
    PROVE  LInv'
<1> USE DEF LInv, TryLock, Goto, serverVars
<1>1. fd[p] \in Inodes
  BY DEF FdInv, TypeOK
<1>2. TypeOK'
  BY <1>1 DEF TypeOK, MainPCs
<1>3. FdInv' /\ UnlinkedInv' /\ ServerInv'
  BY DEF FdInv, UnlinkedInv, ServerInv, TypeOK
<1>4. HolderInv'
  BY <1>1 DEF HolderInv, HasLock, TypeOK
<1>5. ListenerReachable'
  BY DEF ListenerReachable, Listening, TypeOK
<1> QED
  BY <1>2, <1>3, <1>4, <1>5

(* The unlink of the pidfile.                                                 *)
LEMMA UnlinkLInv ==
    ASSUME LInv, NEW p \in Procs, UnlinkPidfile(p)
    PROVE  LInv'
<1> USE DEF LInv, UnlinkPidfile, Goto, serverVars
<1>1. TypeOK'
  BY DEF TypeOK, MainPCs
<1>2. FdInv'
  BY DEF FdInv, TypeOK
<1>3. UnlinkedInv'
  <2>1. ASSUME NEW q \in Procs, pc'[q] = "close" PROVE fd[q] \in Inodes
    BY <2>1 DEF FdInv, TypeOK
  <2> QED
    BY <2>1 DEF UnlinkedInv
<1>4. ServerInv'
  BY DEF ServerInv, TypeOK
<1>5. HolderInv'
  BY DEF HolderInv, HasLock, TypeOK
<1>6. ListenerReachable'
  BY DEF ListenerReachable, Listening, TypeOK
<1> QED
  BY <1>1, <1>2, <1>3, <1>4, <1>5, <1>6

(* The accept loop: it binds a free path only, and gives up its own only.     *)
LEMMA ServerLInv ==
    ASSUME LInv, NEW p \in Procs, ServerStep(p) \/ Accept(p) \/ ConnectionEnds(p)
    PROVE  LInv'
<1> USE DEF LInv, ServerStep, Bind, BindFails, ChmodFails, Accept, Admit,
            ConnectionEnds, ServeReturns, ServerGoto, Fault, fileVars, procVars
<1>1. TypeOK'
  <2>1. conns' \in [Procs -> 0..Cap]
    <3>1. CASE Admit(p)
      BY <3>1 DEF TypeOK
    <3>2. CASE ConnectionEnds(p)
      BY <3>2 DEF TypeOK
    <3>3. CASE conns' = conns
      BY <3>3 DEF TypeOK
    <3> QED
      BY <3>1, <3>2, <3>3
  <2>2. srv' \in [Procs -> ServerPCs] /\ sock' \in Procs \cup {Nobody, Stale}
    BY DEF TypeOK, ServerPCs
  <2>3. faulted' \in SUBSET Faults
    BY DEF TypeOK
  <2> QED
    BY <2>1, <2>2, <2>3 DEF TypeOK
<1>2. FdInv' /\ HolderInv' /\ UnlinkedInv'
  BY DEF FdInv, HolderInv, HasLock, UnlinkedInv
<1>3. ServerInv'
  BY DEF ServerInv, TypeOK
<1>4. ListenerReachable'
  BY DEF ListenerReachable, Listening, TypeOK
<1> QED
  BY <1>1, <1>2, <1>3, <1>4

(* Every step of every process.                                               *)
LEMMA NextLInv ==
    ASSUME LInv, [Next]_vars
    PROVE  LInv'
<1>1. CASE UNCHANGED vars
  BY <1>1 DEF LInv, vars, fileVars, procVars, serverVars, TypeOK, FdInv, HolderInv,
     HasLock, UnlinkedInv, ServerInv, ListenerReachable, Listening
<1>2. ASSUME NEW p \in Procs, Exit(p) \/ WritePidFails(p) PROVE LInv'
  <2>1. ~Listening(p)
    BY <1>2 DEF Exit, WritePidFails, LInv, ServerInv, Listening
  <2>2. faulted' \in SUBSET Faults
    BY <1>2 DEF Exit, WritePidFails, Fault, LInv, TypeOK
  <2> QED
    BY <1>2, <2>1, <2>2, ReleaseLInv DEF Exit, WritePidFails
<1>3. ASSUME NEW p \in Procs, Crash(p) PROVE LInv'
  <2>1. ~Listening(p) \/ sock' # p
    BY <1>3 DEF Crash, LInv, ListenerReachable
  <2>2. faulted' \in SUBSET Faults
    BY <1>3 DEF Crash, Fault, LInv, TypeOK
  <2> QED
    BY <1>3, <2>1, <2>2, ReleaseLInv DEF Crash
<1> QED
  BY <1>1, <1>2, <1>3, StartLInv, AlreadyRunningLInv, MainLInv, OpenLInv,
     LockLInv, UnlinkLInv, ServerLInv
  DEF Next, MainStep

(* The pidfile and the accept loops of all processes fit together, whatever   *)
(* crashes and failures occur in run, PidFileLock and serve.                  *)
THEOREM LifecycleInductive == Spec => []LInv
<1> QED
  BY InitLInv, NextLInv, PTL DEF Spec

(* The socket path always leads to the process that serves it, although two   *)
(* processes may be past the pidfile lock.                                    *)
THEOREM ListenersReachable == Spec => []ListenerReachable
<1>1. LInv => ListenerReachable
  BY DEF LInv
<1> QED
  BY <1>1, LifecycleInductive, PTL

-----------------------------------------------------------------------------
(* Whatever no failure has left at the two paths has an owner.                *)
LEMMA NextOwned ==
    ASSUME LInv, OwnedInv, [Next]_vars
    PROVE  OwnedInv'
<1> USE DEF LInv, TypeOK, OwnedInv, Clean, Listening, Goto, ServerGoto,
            fileVars, procVars, serverVars
<1>1. CASE UNCHANGED vars
  BY <1>1 DEF vars
<1>2. ASSUME NEW p \in Procs,
             \/ Start(p) \/ WritePid(p) \/ SpawnServer(p) \/ Terminate(p)
             \/ OrchestratorJoined(p) \/ ServerJoined(p) \/ TryLock(p)
      PROVE  OwnedInv'
  <2>1. UNCHANGED <<pidfile, fd, sock, faulted>>
    BY <1>2 DEF Start, WritePid, SpawnServer, Terminate, OrchestratorJoined,
       ServerJoined, TryLock
  <2>2. ASSUME NEW q \in Procs, pc[q] \notin {"off", "open", "close"}
        PROVE  pc'[q] \notin {"off", "open", "close"}
    BY <1>2, <2>2 DEF Start, WritePid, SpawnServer, Terminate, OrchestratorJoined,
       ServerJoined, TryLock
  <2>3. ASSUME NEW q \in Procs, Listening(q) PROVE Listening(q)'
    BY <1>2, <2>3 DEF Start, WritePid, SpawnServer, Terminate, OrchestratorJoined,
       ServerJoined, TryLock, ServerInv
  <2> HIDE DEF Listening
  <2> QED
    BY <2>1, <2>2, <2>3
<1>3. ASSUME NEW p \in Procs, OpenPidfile(p) PROVE OwnedInv'
  BY <1>3 DEF OpenPidfile, FdInv
<1>4. ASSUME NEW p \in Procs, AlreadyRunning(p) PROVE OwnedInv'
  <2>1. PICK q \in Procs : holder[fd[p]] = q /\ fd[p] \in Inodes
    BY <1>4 DEF AlreadyRunning, FdInv
  <2>2. HasLock(q) /\ fd[q] = fd[p] /\ q # p
    BY <1>4, <2>1 DEF HolderInv, HasLock, AlreadyRunning
  <2>3. CASE pidfile = fd[p]
    BY <1>4, <2>2, <2>3 DEF AlreadyRunning, UnlinkedInv, HasLock
  <2>4. CASE pidfile # fd[p]
    BY <1>4, <2>4 DEF AlreadyRunning
  <2> QED
    BY <2>3, <2>4
<1>5. ASSUME NEW p \in Procs, UnlinkPidfile(p) PROVE OwnedInv'
  BY <1>5 DEF UnlinkPidfile
<1>6. ASSUME NEW p \in Procs, Exit(p) PROVE OwnedInv'
  BY <1>6 DEF Exit, Release, UnlinkedInv, ServerInv
<1>7. ASSUME NEW p \in Procs, ServerStep(p) \/ Accept(p) \/ ConnectionEnds(p)
      PROVE  OwnedInv'
  <2>1. CASE ChmodFails(p)
    BY <2>1 DEF ChmodFails, Fault
  <2>2. CASE Bind(p) \/ BindFails(p) \/ Accept(p)
    BY <2>2 DEF Bind, BindFails, Accept
  <2>3. CASE Admit(p) \/ ConnectionEnds(p) \/ ServeReturns(p)
    BY <2>3 DEF Admit, ConnectionEnds, ServeReturns
  <2> QED
    BY <1>7, <2>1, <2>2, <2>3 DEF ServerStep
<1>8. ASSUME NEW p \in Procs, WritePidFails(p) PROVE OwnedInv'
  <2>1. ~Clean({"crash", "write"})' /\ UNCHANGED sock /\ faulted \subseteq faulted'
    BY <1>8 DEF WritePidFails, Fault
  <2>2. srv[p] = "none" /\ srv' = [srv EXCEPT ![p] = "none"]
    BY <1>8 DEF WritePidFails, Release, ServerInv
  <2> QED
    BY <2>1, <2>2
<1>9. ASSUME NEW p \in Procs, Crash(p) PROVE OwnedInv'
  BY <1>9 DEF Crash, Fault
<1> QED
  BY <1>1, <1>2, <1>3, <1>4, <1>5, <1>6, <1>7, <1>8, <1>9 DEF Next, MainStep

(* "A clean shutdown leaves no debris": once all processes have ended, each   *)
(* path is gone, unless a crash or the failure that leaves this very file     *)
(* (write_pid, set_socket_mode) has happened.                                 *)
THEOREM CleanShutdown == Spec => []NoDebris
<1>1. Init => OwnedInv
  BY DEF Init, OwnedInv
<1>2. LInv /\ OwnedInv /\ [Next]_vars => OwnedInv'
  BY NextOwned
<1>3. LInv /\ OwnedInv => NoDebris
  BY DEF LInv, OwnedInv, NoDebris, ServerInv, Listening
<1> QED
  BY <1>1, <1>2, <1>3, LifecycleInductive, PTL DEF Spec
=============================================================================

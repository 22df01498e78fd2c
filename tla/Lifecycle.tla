------------------------------ MODULE Lifecycle ------------------------------
(* Processes of syauth-presenced that start, serve, stop and crash            *)
(* (runtime.rs, lock.rs, server.rs).  They share two paths of the runtime     *)
(* directory: the pidfile, locked by an open-file-description lock on         *)
(* whichever inode the path named when it was opened, and the Unix socket.    *)
(* In a process the main task and the task of the accept loop run side by     *)
(* side.  What a request does once it is dispatched is module Presenced.      *)
EXTENDS Naturals

CONSTANTS
    Procs,      \* process slots: a slot is used again after its process ended
    Nobody,     \* "no process"
    Stale,      \* a socket file whose process died
    Faults,     \* kinds of failure a run allows
    Cap,        \* CONCURRENT_ACCEPT_CAP
    MaxStarts   \* bound: processes started in one run

ASSUME LifecycleAssumption ==
    /\ Nobody \notin Procs
    /\ Stale \notin Procs \cup {Nobody}
    /\ Faults \subseteq {"crash", "write", "chmod"}
    /\ Cap \in Nat \ {0}
    /\ MaxStarts \in Nat \ {0}

VARIABLES
    pidfile,    \* inode the pidfile path names, 0 = no file
    nextInode,  \* inode the next creation gets
    holder,     \* per inode, the process that holds the lock on it
    sock,       \* the process that bound the socket path, Stale or Nobody
    starts,     \* processes started so far
    pc,         \* main task of each process
    fd,         \* inode of the pidfile descriptor of each process, 0 = closed
    srv,        \* accept-loop task of each process
    stop,       \* its shutdown signal has been sent
    conns,      \* connections that hold a permit
    faulted     \* history: the kinds of failure that have happened

fileVars == <<pidfile, nextInode, holder>>
procVars == <<starts, pc, fd>>
serverVars == <<srv, stop, conns>>
vars == <<fileVars, sock, procVars, serverVars, faulted>>

Inodes == 1..MaxStarts
MainPCs == {"off", "open", "lock", "write", "spawn", "up", "drain", "join", "unlink", "close"}
ServerPCs == {"none", "bind", "accept", "queued", "done", "failed"}

TypeOK ==
    /\ pidfile \in 0..MaxStarts
    /\ nextInode \in 1..(MaxStarts + 1)
    /\ holder \in [Inodes -> Procs \cup {Nobody}]
    /\ sock \in Procs \cup {Nobody, Stale}
    /\ starts \in 0..MaxStarts
    /\ pc \in [Procs -> MainPCs]
    /\ fd \in [Procs -> 0..MaxStarts]
    /\ srv \in [Procs -> ServerPCs]
    /\ stop \in [Procs -> BOOLEAN]
    /\ conns \in [Procs -> 0..Cap]
    /\ faulted \in SUBSET Faults

Init ==
    /\ pidfile = 0
    /\ nextInode = 1
    /\ holder = [i \in Inodes |-> Nobody]
    /\ sock = Nobody
    /\ starts = 0
    /\ pc = [p \in Procs |-> "off"]
    /\ fd = [p \in Procs |-> 0]
    /\ srv = [p \in Procs |-> "none"]
    /\ stop = [p \in Procs |-> FALSE]
    /\ conns = [p \in Procs |-> 0]
    /\ faulted = {}

Goto(p, l) == pc' = [pc EXCEPT ![p] = l]
ServerGoto(p, l) == srv' = [srv EXCEPT ![p] = l]

(* The kernel closes the descriptors of a process: its lock is released, its  *)
(* connections end.                                                           *)
Release(p) ==
    /\ holder' = [i \in Inodes |-> IF holder[i] = p THEN Nobody ELSE holder[i]]
    /\ fd' = [fd EXCEPT ![p] = 0]
    /\ srv' = [srv EXCEPT ![p] = "none"]
    /\ stop' = [stop EXCEPT ![p] = FALSE]
    /\ conns' = [conns EXCEPT ![p] = 0]
    /\ Goto(p, "off")

(* A failure of kind k happens.                                               *)
Fault(k) ==
    /\ k \in Faults
    /\ faulted' = faulted \cup {k}

-----------------------------------------------------------------------------
(* run, up to the wait for a signal.                                          *)

Start(p) ==
    /\ pc[p] = "off"
    /\ starts < MaxStarts
    /\ starts' = starts + 1
    /\ Goto(p, "open")
    /\ UNCHANGED <<fileVars, sock, fd, serverVars, faulted>>

(* open_pidfile: create(true), so an absent file is made.                     *)
OpenPidfile(p) ==
    /\ pc[p] = "open"
    /\ IF pidfile = 0
       THEN /\ nextInode \in Inodes
            /\ pidfile' = nextInode
            /\ nextInode' = nextInode + 1
       ELSE UNCHANGED <<pidfile, nextInode>>
    /\ fd' = [fd EXCEPT ![p] = pidfile']
    /\ Goto(p, "lock")
    /\ UNCHANGED <<holder, sock, starts, serverVars, faulted>>

(* Variant: the answer of fcntl is not looked at.                             *)
TryLockUnchecked(p) ==
    /\ pc[p] = "lock"
    /\ holder' = [holder EXCEPT ![fd[p]] = p]
    /\ Goto(p, "write")
    /\ UNCHANGED <<pidfile, nextInode, sock, starts, fd, serverVars, faulted>>

(* try_lock_exclusive: the lock is on the inode, not on the path.             *)
TryLock(p) ==
    /\ pc[p] = "lock"
    /\ holder[fd[p]] = Nobody
    /\ holder' = [holder EXCEPT ![fd[p]] = p]
    /\ Goto(p, "write")
    /\ UNCHANGED <<pidfile, nextInode, sock, starts, fd, serverVars, faulted>>

AlreadyRunning(p) ==
    /\ pc[p] = "lock"
    /\ holder[fd[p]] # Nobody
    /\ fd' = [fd EXCEPT ![p] = 0]
    /\ Goto(p, "off")
    /\ UNCHANGED <<fileVars, sock, starts, serverVars, faulted>>

WritePid(p) ==
    /\ pc[p] = "write"
    /\ Goto(p, "spawn")
    /\ UNCHANGED <<fileVars, sock, starts, fd, serverVars, faulted>>

(* write_pid fails before the guard exists: the file is not unlinked.         *)
WritePidFails(p) ==
    /\ Fault("write")
    /\ pc[p] = "write"
    /\ Release(p)
    /\ UNCHANGED <<pidfile, nextInode, sock, starts>>

(* maybe_spawn_orchestrator, then the accept loop is spawned.                 *)
SpawnServer(p) ==
    /\ pc[p] = "spawn"
    /\ Goto(p, "up")
    /\ ServerGoto(p, "bind")
    /\ UNCHANGED <<fileVars, sock, starts, fd, stop, conns, faulted>>

-----------------------------------------------------------------------------
(* serve                                                                      *)

(* Variant: makes room for itself first.                                      *)
BindReplacing(p) ==
    /\ srv[p] = "bind"
    /\ sock' = p
    /\ ServerGoto(p, "accept")
    /\ UNCHANGED <<fileVars, procVars, stop, conns, faulted>>

Bind(p) ==
    /\ srv[p] = "bind"
    /\ sock = Nobody
    /\ sock' = p
    /\ ServerGoto(p, "accept")
    /\ UNCHANGED <<fileVars, procVars, stop, conns, faulted>>

(* The path exists: the task ends, the main task does not look at it yet.     *)
BindFails(p) ==
    /\ srv[p] = "bind"
    /\ sock # Nobody
    /\ ServerGoto(p, "failed")
    /\ UNCHANGED <<fileVars, sock, procVars, stop, conns, faulted>>

(* set_socket_mode fails before the SocketGuard exists.                       *)
ChmodFails(p) ==
    /\ Fault("chmod")
    /\ srv[p] = "bind"
    /\ sock = Nobody
    /\ sock' = Stale
    /\ ServerGoto(p, "failed")
    /\ UNCHANGED <<fileVars, procVars, stop, conns>>

(* The select is biased: nothing is accepted once the stop signal is there.   *)
Accept(p) ==
    /\ srv[p] = "accept"
    /\ sock = p
    /\ ~stop[p]
    /\ ServerGoto(p, "queued")
    /\ UNCHANGED <<fileVars, sock, procVars, stop, conns, faulted>>

(* The accepted stream waits for a permit inside the branch of the select.    *)
Admit(p) ==
    /\ srv[p] = "queued"
    /\ conns[p] < Cap
    /\ conns' = [conns EXCEPT ![p] = @ + 1]
    /\ ServerGoto(p, "accept")
    /\ UNCHANGED <<fileVars, sock, procVars, stop, faulted>>

(* handle_connection returns: answered, or the client hung up.  read_frame    *)
(* has no deadline, so this is up to the client.                              *)
ConnectionEnds(p) ==
    /\ conns[p] > 0
    /\ conns' = [conns EXCEPT ![p] = @ - 1]
    /\ UNCHANGED <<fileVars, sock, procVars, srv, stop, faulted>>

(* Variant: the accept loop is left without its guard.                        *)
ServeReturnsUnguarded(p) ==
    /\ srv[p] = "accept"
    /\ stop[p]
    /\ ServerGoto(p, "done")
    /\ UNCHANGED <<fileVars, sock, procVars, stop, conns, faulted>>

(* serve returns; SocketGuard unlinks the path, whatever is there.            *)
ServeReturns(p) ==
    /\ srv[p] = "accept"
    /\ stop[p]
    /\ sock' = Nobody
    /\ ServerGoto(p, "done")
    /\ UNCHANGED <<fileVars, procVars, stop, conns, faulted>>

-----------------------------------------------------------------------------
(* run, from the signal to the end.                                           *)

Terminate(p) ==
    /\ pc[p] = "up"
    /\ stop' = [stop EXCEPT ![p] = TRUE]
    /\ Goto(p, "drain")
    /\ UNCHANGED <<fileVars, sock, starts, fd, srv, conns, faulted>>

OrchestratorJoined(p) ==
    /\ pc[p] = "drain"
    /\ Goto(p, "join")
    /\ UNCHANGED <<fileVars, sock, starts, fd, serverVars, faulted>>

(* Variant: waits for the accept loop's regular end.                          *)
ServerJoinedDone(p) ==
    /\ pc[p] = "join"
    /\ srv[p] = "done"
    /\ Goto(p, "unlink")
    /\ UNCHANGED <<fileVars, sock, starts, fd, serverVars, faulted>>

ServerJoined(p) ==
    /\ pc[p] = "join"
    /\ srv[p] \in {"done", "failed"}
    /\ Goto(p, "unlink")
    /\ UNCHANGED <<fileVars, sock, starts, fd, serverVars, faulted>>

(* Drop of PidFileLock: unlink the path, then close the descriptor.           *)
UnlinkPidfile(p) ==
    /\ pc[p] = "unlink"
    /\ pidfile' = 0
    /\ Goto(p, "close")
    /\ UNCHANGED <<nextInode, holder, sock, starts, fd, serverVars, faulted>>

Exit(p) ==
    /\ pc[p] = "close"
    /\ Release(p)
    /\ UNCHANGED <<pidfile, nextInode, sock, starts, faulted>>

(* SIGKILL, a panic that aborts, the out-of-memory killer.                    *)
Crash(p) ==
    /\ Fault("crash")
    /\ pc[p] # "off"
    /\ Release(p)
    /\ sock' = IF sock = p THEN Stale ELSE sock
    /\ UNCHANGED <<pidfile, nextInode, starts>>

-----------------------------------------------------------------------------
MainStep(p) ==
    \/ OpenPidfile(p) \/ TryLock(p) \/ AlreadyRunning(p)
    \/ WritePid(p) \/ WritePidFails(p) \/ SpawnServer(p)
    \/ OrchestratorJoined(p) \/ ServerJoined(p) \/ UnlinkPidfile(p) \/ Exit(p)

ServerStep(p) ==
    \/ Bind(p) \/ BindFails(p) \/ ChmodFails(p)
    \/ Admit(p) \/ ServeReturns(p)

Next ==
    \E p \in Procs :
        \/ Start(p) \/ Terminate(p) \/ Crash(p)
        \/ MainStep(p) \/ ServerStep(p)
        \/ Accept(p) \/ ConnectionEnds(p)

Spec == Init /\ [][Next]_vars

(* The tokio runtime polls its tasks, and every client sends its request or   *)
(* hangs up.                                                                  *)
PoliteSpec ==
    Spec /\ \A p \in Procs :
        WF_vars(MainStep(p)) /\ WF_vars(ServerStep(p)) /\ WF_vars(ConnectionEnds(p))

-----------------------------------------------------------------------------
Listening(p) == srv[p] \in {"accept", "queued"}
HasLock(p) == pc[p] \in {"write", "spawn", "up", "drain", "join", "unlink", "close"}

(* The socket path leads to the process that listens on it: no process, not   *)
(* even one that started or stopped at the same moment, unlinks or replaces   *)
(* the socket of a serving daemon.                                            *)
ListenerReachable == \A p \in Procs : Listening(p) => sock = p

Clean(kinds) == faulted \cap kinds = {}

(* "A clean shutdown leaves no debris behind": when every process has ended,  *)
(* each path is gone, unless a failure that leaves it behind has happened.    *)
NoDebris ==
    (\A p \in Procs : pc[p] = "off") =>
        /\ Clean({"crash", "write"}) => pidfile = 0
        /\ Clean({"crash", "chmod"}) => sock = Nobody

(* After SIGTERM the process ends, also when its bind failed and when         *)
(* connections are open, provided that clients send or hang up.               *)
ShutdownEnds == \A p \in Procs : pc[p] = "drain" ~> pc[p] = "off"

-----------------------------------------------------------------------------
(* The inductive invariants behind the theorems of LifecycleProofs.           *)

(* A process has the pidfile open from open_pidfile to the end, on an inode   *)
(* that exists.                                                               *)
FdInv ==
    /\ pidfile < nextInode
    /\ \A p \in Procs :
          IF pc[p] \in {"off", "open"} THEN fd[p] = 0
                                      ELSE fd[p] \in Inodes /\ fd[p] < nextInode

(* The lock of an inode is held by the process that passed the lock on it.    *)
HolderInv ==
    \A p \in Procs, i \in Inodes : holder[i] = p <=> HasLock(p) /\ fd[p] = i

(* A process that has unlinked the pidfile does not find its own file there.  *)
UnlinkedInv == \A p \in Procs : pc[p] = "close" => pidfile # fd[p]

(* The accept loop runs between its spawn and its join.                       *)
ServerInv ==
    \A p \in Procs :
        /\ pc[p] \in {"off", "open", "lock", "write", "spawn"} => srv[p] = "none"
        /\ pc[p] \in {"unlink", "close"} => srv[p] \in {"done", "failed"}

(* Who is past the pidfile lock holds the lock of the file it has open, an    *)
(* exiting process never takes the path for its own again, and a listener     *)
(* belongs to a process that has not joined it yet.                           *)
LInv == TypeOK /\ FdInv /\ HolderInv /\ UnlinkedInv /\ ServerInv /\ ListenerReachable

(* A file that no failure has left at either path has a process that will     *)
(* unlink it: the pidfile one that has it open and may get or has its lock.   *)
OwnedInv ==
    /\ Clean({"crash", "write"}) /\ pidfile # 0 =>
          \E p \in Procs : fd[p] = pidfile /\ pc[p] \notin {"off", "open", "close"}
    /\ Clean({"crash", "chmod"}) /\ sock # Nobody =>
          sock \in Procs /\ Listening(sock)
=============================================================================

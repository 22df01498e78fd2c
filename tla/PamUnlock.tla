------------------------------- MODULE PamUnlock -------------------------------
(* The unlock path end to end: pam_sm_authenticate calls and status probes as *)
(* clients of the daemon's socket, the accept loop with its cap, the handler  *)
(* of each connection, the per-peer slot, last.log, and the bonds that PAM    *)
(* and the daemon read separately.  The phone's part of a challenge, modelled *)
(* in Orchestrator and Peripheral, is a nondeterministic verdict here; this   *)
(* module has the clock those leave out.  A call makes one connection, so     *)
(* connections are named by their call.                                       *)
EXTENDS LastLog, SequencesExt

CONSTANTS
    PamCalls,               \* pam_sm_authenticate calls
    Probes,                 \* `syauth status` and `syauth doctor` daemon probes
    Peers,
    None,
    CONCURRENT_ACCEPT_CAP,
    AuthTimeout,            \* DAEMON_RESPONSE_BUDGET = DEFAULT_AUTH_TIMEOUT, in ticks
    BusyDeadline,           \* BUSY_QUEUE_DEADLINE
    ProbeTimeout,           \* DAEMON_STATUS_READ_TIMEOUT
    Verdicts,               \* outcomes of run_challenge that are tried, of PhoneVerdicts
    Faults,                 \* subset of FaultKinds
    MaxOpens,               \* bound: daemon starts
    MaxEdits,               \* bound: changes of bonds.toml and of keys/
    MaxFaults               \* bound: faults

Calls == PamCalls \cup Probes
FaultKinds == {"io", "panic", "kill", "crash", "power"}
PhoneVerdicts == {"ok", "bad-signature", "replay", "transport-error", "unknown-peer"}

(* Reasons issue_challenge answers with.                                      *)
ChallengeReasons == {"ok", "replay", "bad-signature", "response-timeout",
                     "busy", "unknown-peer", "transport-error"}

ASSUME PamUnlockAssumption ==
    /\ PamCalls \cap Probes = {}
    /\ None \notin Calls \cup Peers
    /\ IsFiniteSet(Peers)
    /\ Calls \subseteq Writers
    /\ ChallengeReasons \cup {"success", "failure"} \subseteq LineResults
    /\ AuthTimeout \in Nat /\ MaxOpens \in Nat /\ MaxEdits \in Nat /\ MaxFaults \in Nat
    /\ CONCURRENT_ACCEPT_CAP \in Nat \ {0}
    /\ ProbeTimeout \in Nat \ {0} /\ BusyDeadline \in Nat \ {0}
    /\ ProbeTimeout <= BusyDeadline /\ BusyDeadline <= AuthTimeout
    /\ Faults \subseteq FaultKinds
    /\ Verdicts \subseteq PhoneVerdicts

VARIABLES
    client,     \* the calling processes
    conn,       \* the daemon's side of each connection
    backlog,    \* connections the kernel has queued
    held,       \* connection accepted and waiting for a permit, or None
    slotq,      \* challenge_slot per peer: its holder, then those who wait
    up,         \* the daemon runs
    orch,       \* ... and has an orchestrator
    auditing,   \* ... and could open the audit log
    live,       \* Orchestrator.peers
    bonds,      \* bonds.toml
    keys,       \* peers whose keys/<peer_id>.bin load_bond_key can load
    fresh,      \* live was read from these files and nothing failed (history)
    edits,      \* changes of these files so far
    faults,     \* faults so far
    unlogged    \* calls whose audit line was not written (history)

vars == <<client, conn, backlog, held, slotq, up, orch, auditing, live, bonds,
          keys, fresh, edits, faults, unlogged, logVars>>
bondVars == <<bonds, keys, edits>>
envVars == <<bondVars, faults, unlogged, logVars>>
daemonVars == <<up, orch, auditing, live, fresh>>
serverVars == <<conn, backlog, held, slotq>>

(* ... and those the rest of the daemon and PAM add.                          *)
Reasons == ChallengeReasons \cup {"none", "not-implemented", "unknown-reason", "status",
                                  "no bonds configured", "no bonded peer", "panic"}
Codes == {"none", "PAM_SUCCESS", "PAM_AUTH_ERR", "PAM_AUTHINFO_UNAVAIL"}
ClientPCs == {"idle", "connect", "write", "read", "log", "done", "killed"}
ConnPCs == {"none", "queued", "held", "reading", "queue", "notify", "wait",
            "audit", "answer", "closed"}
Serving == {"reading", "queue", "notify", "wait", "audit", "answer"}

Client == [pc : ClientPCs, peer : Peers \cup {None}, sent : BOOLEAN,
           budget : 0..AuthTimeout, reason : Reasons, code : Codes]
Conn == [pc : ConnPCs, peer : Peers \cup {None}, timer : 0..AuthTimeout,
         out : Reasons, replied : BOOLEAN]

Client0 == [pc |-> "idle", peer |-> None, sent |-> FALSE, budget |-> 0,
            reason |-> "none", code |-> "none"]
Conn0 == [pc |-> "none", peer |-> None, timer |-> 0, out |-> "none", replied |-> FALSE]

-----------------------------------------------------------------------------
(* The bonds both sides read.                                                 *)

BondedPeers(s) == {b.peer : b \in {x \in ToSet(s) : x.st = "bonded"}}

(* first_bonded of the PAM module.                                            *)
FirstBonded(s) ==
    LET i == SelectInSeq(s, LAMBDA b : b.st = "bonded")
    IN  IF i = 0 THEN None ELSE s[i].peer

(* Variant: the first record, bonded or not.                                  *)
FirstActiveRecord(s) == IF s = <<>> THEN None ELSE Head(s).peer
(* first_active of the daemon's start.                                        *)
FirstActive(s) ==
    LET i == SelectInSeq(s, LAMBDA b : b.st = "bonded")
    IN  IF i = 0 THEN None ELSE s[i].peer

(* outcome_reason_to_pam and to_pam_code.                                     *)
(* Variant: only what is known to be a failure fails.                         *)
CodeOfOpen(reason) ==
    CASE reason \in {"response-timeout", "busy", "unknown-peer", "transport-error",
                     "no bonds configured", "no bonded peer"} -> "PAM_AUTHINFO_UNAVAIL"
      [] reason = "bad-signature" -> "PAM_AUTH_ERR"
      [] OTHER -> "PAM_SUCCESS"
CodeOf(reason) ==
    CASE reason = "ok" -> "PAM_SUCCESS"
      [] reason \in {"response-timeout", "busy", "unknown-peer", "transport-error",
                     "no bonds configured", "no bonded peer"} -> "PAM_AUTHINFO_UNAVAIL"
      [] OTHER -> "PAM_AUTH_ERR"

-----------------------------------------------------------------------------
(* Cold start: the first bonded record, if its key loads.                     *)
ColdStart == {FirstActive(bonds)} \cap keys

Init ==
    /\ client = [c \in Calls |-> Client0]
    /\ conn = [c \in Calls |-> Conn0]
    /\ backlog = <<>>
    /\ held = None
    /\ slotq = [p \in Peers |-> <<>>]
    /\ up = FALSE /\ orch = FALSE /\ auditing = FALSE
    /\ live = {}
    /\ \E s \in [1..Cardinality(Peers) -> Peers], n \in 0..Cardinality(Peers) :
          /\ \A p \in Peers : \E i \in DOMAIN s : s[i] = p
          /\ bonds = [i \in 1..n |-> [peer |-> s[i], st |-> "bonded"]]
    /\ keys = BondedPeers(bonds)
    /\ fresh = FALSE
    /\ edits = 0 /\ faults = 0
    /\ unlogged = {}
    /\ LogInit

Fault(kind) ==
    /\ kind \in Faults
    /\ faults < MaxFaults
    /\ faults' = faults + 1
NoFault == UNCHANGED faults

-----------------------------------------------------------------------------
(* The calling processes.                                                     *)

Step(c, step) == client' = [client EXCEPT ![c].pc = step]

(* Every failure before the answer is the same to the caller: PAM logs it and *)
(* falls through, a probe prints the daemon as down.                          *)
GiveUp(c, reason) ==
    client' = [client EXCEPT ![c].reason = reason, ![c].budget = 0, ![c].peer = None,
                             ![c].pc = IF c \in PamCalls THEN "log" ELSE "done"]

(* pam_sm_authenticate: resolve_peer_id reads bonds.toml.                     *)
ResolvePeer(c) ==
    /\ c \in PamCalls /\ client[c].pc = "idle"
    /\ FirstBonded(bonds) # None
    /\ client' = [client EXCEPT ![c].pc = "connect", ![c].peer = FirstBonded(bonds)]
    /\ UNCHANGED <<serverVars, daemonVars, envVars>>

ResolveNobody(c) ==
    /\ c \in PamCalls /\ client[c].pc = "idle"
    /\ \/ FirstBonded(bonds) = None /\ GiveUp(c, "no bonded peer") /\ NoFault
       \/ Fault("io") /\ GiveUp(c, "no bonds configured")
    /\ UNCHANGED <<serverVars, daemonVars, bondVars, unlogged, logVars>>

(* probe_daemon of status and doctor.                                         *)
ProbeStart(c) ==
    /\ c \in Probes /\ client[c].pc = "idle"
    /\ Step(c, "connect")
    /\ UNCHANGED <<serverVars, daemonVars, envVars>>

(* connect(2): the kernel queues the connection without the daemon.           *)
Connect(c) ==
    /\ client[c].pc = "connect"
    /\ up
    /\ Step(c, "write")
    /\ conn' = [conn EXCEPT ![c].pc = "queued"]
    /\ backlog' = Append(backlog, c)
    /\ UNCHANGED <<held, slotq, daemonVars, envVars>>

(* No daemon, or no random bytes for the request's nonce.                     *)
ConnectFails(c) ==
    /\ client[c].pc = "connect"
    /\ \/ ~up /\ NoFault
       \/ c \in PamCalls /\ Fault("io")
    /\ GiveUp(c, "transport-error")
    /\ UNCHANGED <<serverVars, daemonVars, bondVars, unlogged, logVars>>

(* The request is written; the read timeout starts.                           *)
WriteRequest(c) ==
    /\ client[c].pc = "write"
    /\ conn[c].pc # "closed"
    /\ client' = [client EXCEPT ![c].pc = "read", ![c].sent = TRUE, ![c].peer = None,
                     ![c].budget = IF c \in PamCalls THEN AuthTimeout ELSE ProbeTimeout]
    /\ conn' = [conn EXCEPT ![c].peer = client[c].peer]
    /\ UNCHANGED <<backlog, held, slotq, daemonVars, envVars>>

(* The daemon has gone: the write, or the read, fails.                        *)
ConnectionLost(c) ==
    /\ client[c].pc \in {"write", "read"}
    /\ conn[c].pc = "closed" /\ ~conn[c].replied
    /\ GiveUp(c, "transport-error")
    /\ UNCHANGED <<serverVars, daemonVars, envVars>>

ReadTimesOut(c) ==
    /\ client[c].pc = "read"
    /\ client[c].budget = 0
    /\ GiveUp(c, "transport-error")
    /\ UNCHANGED <<serverVars, daemonVars, envVars>>

ReadAnswer(c) ==
    /\ client[c].pc = "read"
    /\ conn[c].replied
    /\ GiveUp(c, conn[c].out)
    /\ UNCHANGED <<serverVars, daemonVars, envVars>>

(* authenticate: last.log, best effort, and then the return code.             *)
LogAndReturn(c) ==
    /\ client[c].pc = "log"
    /\ client' = [client EXCEPT ![c].pc = "done", ![c].code = CodeOf(client[c].reason)]
    /\ \/ LogAppendPam(c, IF client[c].reason = "ok" THEN "success" ELSE "failure") /\ NoFault
       \/ Fault("io") /\ UNCHANGED logVars
    /\ UNCHANGED <<serverVars, daemonVars, bondVars, unlogged>>

(* run_entry catches a panic of any step.                                     *)
Panic(c) ==
    /\ Fault("panic")
    /\ c \in PamCalls /\ client[c].pc \notin {"idle", "done", "killed"}
    /\ client' = [client EXCEPT ![c].pc = "done", ![c].reason = "panic",
                                ![c].budget = 0, ![c].peer = None, ![c].code = "PAM_AUTH_ERR"]
    /\ UNCHANGED <<serverVars, daemonVars, bondVars, unlogged, logVars>>

(* sudo is interrupted; the kernel closes the stream.                         *)
Kill(c) ==
    /\ Fault("kill")
    /\ client[c].pc \notin {"idle", "done", "killed"}
    /\ client' = [client EXCEPT ![c].pc = "killed", ![c].budget = 0]
    /\ UNCHANGED <<serverVars, daemonVars, bondVars, unlogged, logVars>>

Begin(c) == ResolvePeer(c) \/ ResolveNobody(c) \/ ProbeStart(c)
ClientStep(c) ==
    \/ Connect(c) \/ ConnectFails(c) \/ WriteRequest(c) \/ ConnectionLost(c)
    \/ ReadTimesOut(c) \/ ReadAnswer(c) \/ LogAndReturn(c)

-----------------------------------------------------------------------------
(* The daemon's side: serve, handle_connection, dispatch.                     *)

Gone(c) == client[c].pc \in {"log", "done", "killed"}

(* The accept loop takes one connection and holds it until there is a permit. *)
Accept ==
    /\ up /\ held = None /\ backlog # <<>>
    /\ held' = Head(backlog)
    /\ backlog' = Tail(backlog)
    /\ conn' = [conn EXCEPT ![Head(backlog)].pc = "held"]
    /\ UNCHANGED <<client, slotq, daemonVars, envVars>>

Spawn ==
    /\ held # None
    /\ Cardinality({c \in Calls : conn[c].pc \in Serving}) < CONCURRENT_ACCEPT_CAP
    /\ conn' = [conn EXCEPT ![held].pc = "reading"]
    /\ held' = None
    /\ UNCHANGED <<client, backlog, slotq, daemonVars, envVars>>

(* read_frame finds the stream closed before a request came.                  *)
ReadEof(c) ==
    /\ conn[c].pc = "reading"
    /\ ~client[c].sent /\ Gone(c)
    /\ conn' = [conn EXCEPT ![c].pc = "closed"]
    /\ UNCHANGED <<client, backlog, held, slotq, daemonVars, envVars>>

(* Requests that do not reach the orchestrator: Status, and a Challenge when  *)
(* there is none.  The answer is not audited.                                 *)
DispatchDirect(c) ==
    /\ conn[c].pc = "reading" /\ client[c].sent
    /\ c \in Probes \/ ~orch
    /\ conn' = [conn EXCEPT ![c].pc = "answer",
                   ![c].out = IF c \in Probes THEN "status" ELSE "not-implemented"]
    /\ UNCHANGED <<client, backlog, held, slotq, daemonVars, envVars>>

Conclude(c, reason) == conn' = [conn EXCEPT ![c].pc = "audit", ![c].out = reason,
                                            ![c].timer = 0]

(* issue_challenge: lookup_peer, then acquire_challenge_slot.                 *)
DispatchUnknown(c) ==
    /\ conn[c].pc = "reading" /\ client[c].sent
    /\ c \in PamCalls /\ orch /\ conn[c].peer \notin live
    /\ Conclude(c, "unknown-peer")
    /\ UNCHANGED <<client, backlog, held, slotq, daemonVars, envVars>>

DispatchChallenge(c) ==
    /\ conn[c].pc = "reading" /\ client[c].sent
    /\ c \in PamCalls /\ orch /\ conn[c].peer \in live
    /\ slotq' = [slotq EXCEPT ![conn[c].peer] = Append(@, c)]
    /\ conn' = [conn EXCEPT ![c].pc = "queue", ![c].timer = BusyDeadline]
    /\ UNCHANGED <<client, backlog, held, daemonVars, envVars>>

Holds(c) == Head(slotq[conn[c].peer]) = c

Admit(c) ==
    /\ conn[c].pc = "queue" /\ Holds(c)
    /\ conn' = [conn EXCEPT ![c].pc = "notify", ![c].timer = 0]
    /\ UNCHANGED <<client, backlog, held, slotq, daemonVars, envVars>>

(* The queue deadline: the acquisition is polled before the timer.            *)
Busy(c) ==
    /\ conn[c].pc = "queue" /\ ~Holds(c)
    /\ conn[c].timer = 0
    /\ Conclude(c, "busy")
    /\ UNCHANGED <<client, backlog, held, slotq, daemonVars, envVars>>

(* notify_challenge, and the wait for the phone with its own deadline.        *)
Notified(c) ==
    /\ conn[c].pc = "notify"
    /\ \/ conn' = [conn EXCEPT ![c].pc = "wait", ![c].timer = AuthTimeout]
       \/ \E r \in Verdicts \cap {"transport-error", "unknown-peer"} : Conclude(c, r)
    /\ UNCHANGED <<client, backlog, held, slotq, daemonVars, envVars>>

PhoneResponds(c) ==
    /\ conn[c].pc = "wait"
    /\ \E r \in Verdicts \ {"unknown-peer"} : Conclude(c, r)
    /\ UNCHANGED <<client, backlog, held, slotq, daemonVars, envVars>>

(* Variant: the wait has no deadline.                                         *)
WaitTimesOutNever(c) ==
    /\ conn[c].pc = "wait"
    /\ conn[c].timer = 0
    /\ conn' = [conn EXCEPT ![c].timer = AuthTimeout]
    /\ UNCHANGED <<client, backlog, held, slotq, daemonVars, envVars>>
WaitTimesOut(c) ==
    /\ conn[c].pc = "wait"
    /\ conn[c].timer = 0
    /\ Conclude(c, "response-timeout")
    /\ UNCHANGED <<client, backlog, held, slotq, daemonVars, envVars>>

(* Variant: the permit is not released.                                       *)
LeaveSlotNot(c) == UNCHANGED slotq
(* The permit, or the place in the queue, is dropped.                         *)
LeaveSlot(c) ==
    slotq' = [p \in Peers |-> RemoveFirst(slotq[p], c)]

(* audit_at, best effort, and the return from issue_challenge.                *)
(* Variant: the answer goes out before the line.                              *)
AuditAndReleaseNot(c) ==
    /\ conn[c].pc = "audit"
    /\ conn' = [conn EXCEPT ![c].pc = "answer"]
    /\ LeaveSlot(c)
    /\ UNCHANGED <<client, backlog, held, daemonVars, envVars>>
AuditAndRelease(c) ==
    /\ conn[c].pc = "audit"
    /\ conn' = [conn EXCEPT ![c].pc = "answer"]
    /\ LeaveSlot(c)
    /\ \/ auditing /\ LogAppend(c, conn[c].out) /\ NoFault /\ UNCHANGED unlogged
       \/ auditing /\ LogAppendUnsynced(c, conn[c].out) /\ Fault("io") /\ UNCHANGED unlogged
       \/ /\ \/ ~auditing /\ NoFault
             \/ auditing /\ Fault("io")
          /\ unlogged' = unlogged \cup {c}
          /\ UNCHANGED logVars
    /\ UNCHANGED <<client, backlog, held, daemonVars, bondVars>>

(* write_frame, and the end of the handler: it fails when the caller left.    *)
WriteAnswer(c) ==
    /\ conn[c].pc = "answer"
    /\ conn' = [conn EXCEPT ![c].pc = "closed", ![c].peer = None, ![c].replied = ~Gone(c)]
    /\ UNCHANGED <<client, backlog, held, slotq, daemonVars, envVars>>

ServerStep(c) ==
    \/ ReadEof(c) \/ DispatchDirect(c) \/ DispatchUnknown(c) \/ DispatchChallenge(c)
    \/ Admit(c) \/ Busy(c) \/ Notified(c) \/ WaitTimesOut(c)
    \/ AuditAndRelease(c) \/ WriteAnswer(c)

-----------------------------------------------------------------------------
(* The daemon's life, the bonds, and the clock.                               *)

(* maybe_spawn_orchestrator gives up without an adapter, and seeds the first  *)
(* bonded peer, or nobody when its key does not load; the log may not open.   *)
DaemonStart ==
    /\ ~up /\ opens < MaxOpens
    /\ up' = TRUE
    /\ \/ NoFault /\ orch' = TRUE /\ live' = ColdStart /\ auditing' = TRUE
       \/ Fault("io") /\ orch' = FALSE /\ live' = {} /\ auditing' = FALSE
       \/ Fault("io") /\ orch' = TRUE /\ live' = {} /\ auditing' = TRUE
       \/ Fault("io") /\ orch' = TRUE /\ live' = ColdStart /\ auditing' = FALSE
    /\ fresh' = (orch' /\ live' = ColdStart)
    /\ LogOpen
    /\ UNCHANGED <<client, serverVars, bondVars, unlogged>>

(* The daemon is killed or shuts down: every stream is closed.                *)
Down ==
    /\ up' = FALSE /\ orch' = FALSE /\ auditing' = FALSE
    /\ live' = {} /\ fresh' = FALSE
    /\ conn' = [c \in Calls |-> IF conn[c].pc \in {"none", "closed"} THEN conn[c]
                                ELSE [conn[c] EXCEPT !.pc = "closed", !.peer = None, !.timer = 0]]
    /\ backlog' = <<>> /\ held' = None
    /\ slotq' = [p \in Peers |-> <<>>]

DaemonStop ==
    /\ Fault("crash") /\ up
    /\ Down
    /\ UNCHANGED <<client, bondVars, unlogged, logVars>>

PowerLoss ==
    /\ Fault("power") /\ log # <<>>
    /\ Down
    /\ LogPowerLoss
    /\ client' = [c \in Calls |-> IF client[c].pc \in {"idle", "done", "killed"} THEN client[c]
                                  ELSE [client[c] EXCEPT !.pc = "killed", !.budget = 0]]
    /\ UNCHANGED <<bondVars, unlogged>>

(* `syauth revoke`; the key file stays.                                       *)
Revoke(p) ==
    /\ edits < MaxEdits
    /\ p \in BondedPeers(bonds)
    /\ bonds' = [i \in DOMAIN bonds |-> IF bonds[i].peer = p THEN [bonds[i] EXCEPT !.st = "revoked"]
                                        ELSE bonds[i]]
    /\ edits' = edits + 1
    /\ fresh' = FALSE
    /\ UNCHANGED <<client, serverVars, up, orch, auditing, live, keys, faults, unlogged,
                   logVars>>

Recorded == {b.peer : b \in ToSet(bonds)}

(* A pairing with a new phone: the daemon has written the key file before the *)
(* record is saved, the CLI writes it after (WriteKey), or dies in between.   *)
Pair(p) ==
    /\ edits < MaxEdits
    /\ p \notin Recorded
    /\ bonds' = Append(bonds, [peer |-> p, st |-> "bonded"])
    /\ keys' \in {keys, keys \cup {p}}
    /\ edits' = edits + 1
    /\ fresh' = FALSE
    /\ UNCHANGED <<client, serverVars, up, orch, auditing, live, faults, unlogged, logVars>>

(* Pairing again: the key file is opened, which truncates it, and is then     *)
(* written.                                                                   *)
OpenKey(p) ==
    /\ edits < MaxEdits
    /\ p \in keys
    /\ keys' = keys \ {p}
    /\ edits' = edits + 1
    /\ fresh' = FALSE
    /\ UNCHANGED <<client, serverVars, up, orch, auditing, live, bonds, faults, unlogged,
                   logVars>>

WriteKey(p) ==
    /\ p \in Recorded \ keys
    /\ keys' = keys \cup {p}
    /\ fresh' = FALSE
    /\ UNCHANGED <<client, serverVars, up, orch, auditing, live, bonds, edits, faults,
                   unlogged, logVars>>

Edit(p) == Revoke(p) \/ Pair(p) \/ OpenKey(p) \/ WriteKey(p)

(* compute_new_set: the bonded records whose key loads.                       *)
NewSet == BondedPeers(bonds) \cap keys

(* reload: the orchestrator's peers become those.  One whose add_peer or      *)
(* remove_peer fails stays as it was.                                         *)
Reload ==
    /\ up /\ orch
    /\ \/ NoFault /\ live' = NewSet /\ fresh' = TRUE
       \/ /\ Fault("io")
          /\ \E failed \in SUBSET ((NewSet \ live) \cup (live \ NewSet)) :
                /\ failed # {}
                /\ live' = (NewSet \ failed) \cup (live \cap failed)
          /\ fresh' = FALSE
    /\ <<live', fresh'>> # <<live, fresh>>
    /\ UNCHANGED <<client, serverVars, up, orch, auditing, bondVars, unlogged, logVars>>

(* Time passes only while no timer is due.                                    *)
Waiting(c) == conn[c].pc \in {"queue", "wait"}
Tick ==
    /\ \E c \in Calls : client[c].pc = "read" \/ Waiting(c)
    /\ \A c \in Calls : /\ client[c].pc = "read" => client[c].budget > 0
                        /\ Waiting(c) => conn[c].timer > 0
    /\ client' = [c \in Calls |-> IF client[c].pc = "read" THEN [client[c] EXCEPT !.budget = @ - 1]
                                  ELSE client[c]]
    /\ conn' = [c \in Calls |-> IF Waiting(c) THEN [conn[c] EXCEPT !.timer = @ - 1]
                                ELSE conn[c]]
    /\ UNCHANGED <<backlog, held, slotq, daemonVars, envVars>>

Next ==
    \/ \E c \in Calls : Begin(c) \/ ClientStep(c) \/ ServerStep(c) \/ PhoneResponds(c)
                        \/ Panic(c) \/ Kill(c)
    \/ Accept \/ Spawn
    \/ DaemonStart \/ DaemonStop \/ PowerLoss
    \/ \E p \in Peers : Edit(p)
    \/ Reload \/ Tick

(* Processes that can run do run, and time goes on.  Nothing is assumed of    *)
(* the phone, of the operator or of the daemon being started again.           *)
Fairness ==
    /\ \A c \in Calls : WF_vars(ClientStep(c)) /\ WF_vars(ServerStep(c))
    /\ WF_vars(Accept) /\ WF_vars(Spawn) /\ WF_vars(Tick)

Spec == Init /\ [][Next]_vars /\ Fairness

-----------------------------------------------------------------------------
(* Properties.                                                                *)

TypeOK ==
    /\ client \in [Calls -> Client]
    /\ conn \in [Calls -> Conn]
    /\ backlog \in Seq(Calls)
    /\ held \in Calls \cup {None}
    /\ slotq \in [Peers -> Seq(PamCalls)]
    /\ {up, orch, auditing, fresh} \subseteq BOOLEAN
    /\ live \subseteq Peers /\ keys \subseteq Peers
    /\ bonds \in Seq([peer : Peers, st : {"bonded", "revoked"}])
    /\ edits \in 0..MaxEdits /\ faults \in 0..MaxFaults
    /\ unlogged \subseteq PamCalls
    /\ LogTypeOK

(* PAM lets the user in only on the outcome of this call's own transaction,   *)
(* and the two never contradict each other: an approval that was verified is  *)
(* never turned into a denial, whatever timed out, crashed or was revoked in  *)
(* between (a panic of the module itself excepted).  The stack is stopped     *)
(* (PAM_AUTH_ERR) only on a verdict about the phone's response: being         *)
(* offline, busy, unknown, late or restarted falls through to the next        *)
(* factor.  A daemon without orchestrator is the exception.                   *)
VerdictAgrees ==
    \A c \in PamCalls :
        /\ client[c].code = "PAM_SUCCESS" => conn[c].out = "ok"
        /\ client[c].code = "PAM_AUTH_ERR" /\ client[c].reason # "panic" => conn[c].out # "ok"
        /\ client[c].code = "PAM_AUTH_ERR" =>
              client[c].reason \in {"bad-signature", "replay", "panic", "not-implemented"}

(* Besides the types: a permit is never lost.  Whoever is at the head of a    *)
(* peer's slot is running or about to, also when its caller timed out, was    *)
(* killed or panicked, and nobody holds a place after leaving.                *)
SlotAlwaysMoves ==
    /\ TypeOK
    /\ \A p \in Peers : \A i \in DOMAIN slotq[p] :
          LET c == slotq[p][i]
          IN  conn[c].pc \in IF i = 1 THEN {"queue", "notify", "wait", "audit"}
                                      ELSE {"queue", "audit"}

(* PAM and the daemon agree on the peer: once the daemon has started or       *)
(* reloaded with nothing failing, and no file has changed since, the peer PAM *)
(* will ask for is one the daemon serves, if its key loads.  A reload that    *)
(* comes between a pairing's record and its key leaves the peer out, and      *)
(* nothing is promised of it until the next one.                              *)
PamPeerIsServed ==
    up /\ fresh /\ FirstBonded(bonds) \in keys => FirstBonded(bonds) \in live

(* The daemon's record of an approval comes before the success PAM logs.      *)
OkLine(c) == [src |-> "daemon", call |-> c, res |-> "ok"]
SuccessAfterOk ==
    \A i \in DOMAIN log :
        log[i].src = "pam" /\ log[i].res = "success" /\ log[i].call \notin unlogged =>
            \E j \in 1..(i - 1) : log[j] = OkLine(log[i].call)

(* An unlock that PAM logged as a success has the daemon's own record of the  *)
(* same transaction before it in last.log, and keeps it through a power       *)
(* failure; best-effort appends and a log that did not open excepted.  And a  *)
(* power failure takes few of the daemon's records (UnsyncedBounded).         *)
SuccessIsAudited == UnsyncedBounded /\ SuccessAfterOk

-----------------------------------------------------------------------------
(* The inductive invariant behind the theorems of PamUnlockProofs.            *)

(* A reason a caller has is its own, or what the daemon answered it with.     *)
OwnReasons == {"none", "transport-error", "no bonds configured", "no bonded peer", "panic"}
Answers == ChallengeReasons \cup {"not-implemented"}

(* The two ends of one connection.                                            *)
CallOK(c) ==
    /\ client[c].pc \in {"idle", "connect"} => conn[c].pc = "none"
    /\ client[c].pc \in {"idle", "connect", "write"} => ~client[c].sent
    /\ client[c].pc = "log" => c \in PamCalls /\ client[c].reason \notin {"none", "panic"}
    /\ client[c].reason \in OwnReasons \/ (client[c].reason = conn[c].out /\ conn[c].replied)
    /\ client[c].code # "none" =>
          /\ c \in PamCalls /\ client[c].pc = "done" /\ client[c].reason # "none"
          /\ client[c].code = CodeOf(client[c].reason)
    /\ conn[c].pc \in {"none", "queued", "held", "reading", "queue", "notify", "wait"} =>
          conn[c].out = "none"
    /\ conn[c].pc \in {"queue", "notify", "wait", "audit"} => c \in PamCalls
    /\ conn[c].pc \in {"queue", "notify", "wait", "audit", "answer"} => client[c].sent
    /\ conn[c].pc = "audit" => conn[c].out \in ChallengeReasons
    /\ conn[c].replied => conn[c].pc = "closed"
    /\ c \in PamCalls /\ (conn[c].pc = "answer" \/ conn[c].replied) => conn[c].out \in Answers

CallInv == \A c \in Calls : CallOK(c)

(* A connection is in one place between connect and its handler.              *)
AcceptInv ==
    /\ \A i \in DOMAIN backlog : conn[backlog[i]].pc = "queued"
    /\ \A i, j \in DOMAIN backlog : backlog[i] = backlog[j] => i = j
    /\ held # None => conn[held].pc = "held"

(* A handler is in its own peer's queue, once, from when it asks for the slot *)
(* until it has its audit line; only the first is past the queue.             *)
SlotInv ==
    /\ \A p \in Peers : \A i \in DOMAIN slotq[p] :
          /\ conn[slotq[p][i]].peer = p
          /\ conn[slotq[p][i]].pc \in IF i = 1 THEN {"queue", "notify", "wait", "audit"}
                                               ELSE {"queue", "audit"}
    /\ \A p \in Peers : \A i, j \in DOMAIN slotq[p] : slotq[p][i] = slotq[p][j] => i = j
    /\ \A c \in Calls : conn[c].pc = "queue" =>
          conn[c].peer \in Peers /\ \E i \in DOMAIN slotq[conn[c].peer] : slotq[conn[c].peer][i] = c

(* While a caller may still log a success, the daemon's line is there.        *)
LineInv ==
    \A c \in PamCalls :
        /\ client[c].pc \in {"write", "read", "log"}
        /\ conn[c].pc = "answer" \/ conn[c].replied
        /\ conn[c].out = "ok" /\ c \notin unlogged
        => \E j \in 1..Len(log) : log[j] = OkLine(c)

(* What the running daemon has not synced, on top of what its predecessors    *)
(* may have left.                                                             *)
SyncInv ==
    /\ up => opens > 0
    /\ auditing => up
    /\ opens = 0 => Unsynced = {} /\ appended = 0
    /\ ~syncFailed /\ opens > 0 =>
          Cardinality(Unsynced) <=
              (opens - 1) * (AUDIT_FSYNC_EVERY - 1) + (appended % AUDIT_FSYNC_EVERY)

IInv == TypeOK /\ CallInv /\ AcceptInv /\ SlotInv /\ LineInv /\ SuccessAfterOk
        /\ SyncInv /\ PamPeerIsServed

-----------------------------------------------------------------------------
(* Every call returns, and every connection, with the slot it may hold, is    *)
(* given back, with or without the daemon, the phone or the caller.           *)
NobodyWaitsForever ==
    \A c \in Calls :
        /\ client[c].pc # "idle" ~> client[c].pc \in {"done", "killed"}
        /\ conn[c].pc # "none" ~> conn[c].pc = "closed"
================================================================================

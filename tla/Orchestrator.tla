----------------------------- MODULE Orchestrator -----------------------------
(* Orchestrator (crates/syauth-presenced/src/orchestrator.rs): the map of     *)
(* live peers, the challenge transaction each PAM request drives through the  *)
(* peripheral, the reload that reconciles the map with bonds.toml, and the    *)
(* rotation of the advertisement.                                             *)
(* A PeerEntry is reached through Arcs: a transaction keeps using the entry   *)
(* it looked up after a reload took the peer out of the map.  Entries are     *)
(* therefore named by generation, the generation of the characteristic set    *)
(* that was created with them.                                                *)
EXTENDS Peripheral

CONSTANTS
    Keys,       \* bond keys
    CacheCap    \* NONCE_LRU_CAP

ASSUME OrchestratorAssumption ==
    /\ CacheCap \in Nat \ {0}
    /\ None \notin Keys

VARIABLES
    live,       \* Orchestrator.peers: peer id -> generation of its PeerEntry, 0 = none
    ekey,       \* PeerEntry.bond_key per generation
    cache,      \* PeerEntry.nonce_cache per generation
    slot,       \* PeerEntry.challenge_slot per generation: the permit's holder, or None
    adv,        \* what set_session_uuids last published: on/off, <<peer, bond key>> in the union
    pc,         \* where each transaction stands
    txPeer,     \* peer each transaction is about, None before it begins
    txGen,      \* PeerEntry it looked up, 0 = none
    txChan,     \* characteristic set it cloned or waits on, 0 = none
    txNonce,    \* nonce it drew, None before that
    txResp,     \* response it received and has not judged yet, or None
    out,        \* outcome of each transaction
    audit,      \* lines each transaction has in the audit log: <<nonce, outcome>>
    unlogged,   \* transactions whose audit line was not written (history)
    granted,    \* nonces accepted through each entry, in order (history)
    rpc,        \* where the reload stands
    rcur,       \* peer the reload is adding or removing
    rnew,       \* new_set of the reload: peer id -> bond key, None = not in it
    rdel,       \* to_remove, what is left of it
    radd        \* to_add, what is left of it

entryVars == <<live, ekey, cache, slot, granted>>
captured == <<txPeer, txGen, txChan, txNonce>>
auditVars == <<audit, unlogged>>
txVars == <<pc, captured, txResp, out, auditVars>>
reloadVars == <<rpc, rcur, rnew, rdel, radd>>
orchVars == <<entryVars, adv, txVars, reloadVars>>

Outcomes == {"ok", "replay", "bad-signature", "response-timeout",
             "unknown-peer", "busy", "transport-error"}
TxPCs == {"idle", "queue", "notify", "send", "wait", "recv", "judge", "return", "done"}
ReloadPCs == {"idle", "remove", "forget", "add", "register", "insert", "record"}

EntryTypeOK ==
    /\ live \in [Peers -> 0..MaxGen]
    /\ ekey \in [Gens -> Keys \cup {None}]
    /\ cache \in [Gens -> Seq(Nonces)]
    /\ slot \in [Gens -> Requests \cup {None}]
    /\ granted \in [Gens -> Seq(Nonces)]

TxTypeOK ==
    /\ pc \in [Requests -> TxPCs]
    /\ txPeer \in [Requests -> Peers \cup {None}]
    /\ txGen \in [Requests -> 0..MaxGen]
    /\ txChan \in [Requests -> 0..MaxGen]
    /\ txNonce \in [Requests -> Nonces \cup {None}]
    /\ txResp \in [Requests -> Response \cup {None}]
    /\ out \in [Requests -> Outcomes \cup {"none"}]
    /\ audit \in [Requests -> Seq((Nonces \cup {None}) \X Outcomes)]
    /\ unlogged \in SUBSET Requests

ReloadTypeOK ==
    /\ adv \in [on : BOOLEAN, keys : SUBSET (Peers \X (Keys \cup {None}))]
    /\ rpc \in ReloadPCs
    /\ rcur \in Peers \cup {None}
    /\ rnew \in [Peers -> Keys \cup {None}]
    /\ rdel \in SUBSET Peers
    /\ radd \in SUBSET Peers

OrchestratorTypeOK == EntryTypeOK /\ TxTypeOK /\ ReloadTypeOK

(* with_peers_and_audit over the seed peer, if there is one, with its key.    *)
OrchestratorNew(seed, key) ==
    /\ live = [p \in Peers |-> IF p \in seed THEN 1 ELSE 0]
    /\ ekey = [g \in Gens |-> IF g = 1 /\ seed # {} THEN key ELSE None]
    /\ cache = [g \in Gens |-> <<>>]
    /\ slot = [g \in Gens |-> None]
    /\ adv = [on |-> FALSE, keys |-> {}]
    /\ pc = [r \in Requests |-> "idle"]
    /\ txPeer = [r \in Requests |-> None]
    /\ txGen = [r \in Requests |-> 0]
    /\ txChan = [r \in Requests |-> 0]
    /\ txNonce = [r \in Requests |-> None]
    /\ txResp = [r \in Requests |-> None]
    /\ out = [r \in Requests |-> "none"]
    /\ audit = [r \in Requests |-> <<>>]
    /\ unlogged = {}
    /\ granted = [g \in Gens |-> <<>>]
    /\ rpc = "idle"
    /\ rcur = None
    /\ rnew = [p \in Peers |-> None]
    /\ rdel = {}
    /\ radd = {}

-----------------------------------------------------------------------------
(* NonceCache                                                                 *)

Contains(c, n) == \E i \in 1..Len(c) : c[i] = n

(* Variant: evicts one entry too early.                                       *)
InsertOffByOne(c, n) ==
    LET d == Append(c, n)
    IN  IF Len(d) >= CacheCap THEN Tail(d) ELSE d

Insert(c, n) ==
    LET d == Append(c, n)
    IN  IF Len(d) > CacheCap THEN Tail(d) ELSE d

-----------------------------------------------------------------------------
(* issue_challenge.  Every return path writes its own line to the audit log,  *)
(* then returns its outcome; the permit, if there is one, is dropped last.    *)

(* audit_at (and audit_outcome): best effort.  The append may fail, or there  *)
(* may be no log; the outcome is returned all the same.                       *)
AuditAt(r, nonce, reason) ==
    \/ /\ audit' = [audit EXCEPT ![r] = Append(@, <<nonce, reason>>)]
       /\ UNCHANGED unlogged
    \/ /\ "audit" \in Faults
       /\ unlogged' = unlogged \cup {r}
       /\ UNCHANGED audit

Conclude(r, reason) ==
    /\ pc' = [pc EXCEPT ![r] = "return"]
    /\ out' = [out EXCEPT ![r] = reason]

(* lookup_peer, the first thing issue_challenge does.                         *)
LookupUnknown(r, p) ==
    /\ pc[r] = "idle"
    /\ live[p] = 0
    /\ txPeer' = [txPeer EXCEPT ![r] = p]
    /\ AuditAt(r, None, "unknown-peer")
    /\ Conclude(r, "unknown-peer")
    /\ UNCHANGED <<perVars, entryVars, adv, txGen, txChan, txNonce, txResp, reloadVars>>

LookupPeer(r, p) ==
    /\ pc[r] = "idle"
    /\ live[p] # 0
    /\ txPeer' = [txPeer EXCEPT ![r] = p]
    /\ txGen' = [txGen EXCEPT ![r] = live[p]]
    /\ pc' = [pc EXCEPT ![r] = "queue"]
    /\ UNCHANGED <<perVars, entryVars, adv, txChan, txNonce, txResp, out, auditVars,
                   reloadVars>>

(* Variant: nobody waits for the permit.                                      *)
AcquireSlotUnchecked(r, n) ==
    /\ pc[r] = "queue"
    /\ slot' = [slot EXCEPT ![txGen[r]] = r]
    /\ txNonce' = [txNonce EXCEPT ![r] = n]
    /\ pc' = [pc EXCEPT ![r] = "notify"]
    /\ UNCHANGED <<perVars, live, ekey, cache, granted, adv, txPeer, txGen, txChan,
                   txResp, out, auditVars, reloadVars>>

(* acquire_challenge_slot, then a fresh nonce.                                *)
AcquireSlot(r, n) ==
    /\ pc[r] = "queue"
    /\ slot[txGen[r]] = None
    /\ slot' = [slot EXCEPT ![txGen[r]] = r]
    /\ txNonce' = [txNonce EXCEPT ![r] = n]
    /\ pc' = [pc EXCEPT ![r] = "notify"]
    /\ UNCHANGED <<perVars, live, ekey, cache, granted, adv, txPeer, txGen, txChan,
                   txResp, out, auditVars, reloadVars>>

AcquireSlotNoNonce(r) ==
    /\ "nonce" \in Faults
    /\ pc[r] = "queue"
    /\ slot[txGen[r]] = None
    /\ slot' = [slot EXCEPT ![txGen[r]] = r]
    /\ AuditAt(r, None, "transport-error")
    /\ Conclude(r, "transport-error")
    /\ UNCHANGED <<perVars, live, ekey, cache, granted, adv, captured, txResp, reloadVars>>

(* BUSY_QUEUE_DEADLINE elapses: only while somebody else has the permit.      *)
SlotBusy(r) ==
    /\ pc[r] = "queue"
    /\ slot[txGen[r]] # None
    /\ AuditAt(r, None, "busy")
    /\ Conclude(r, "busy")
    /\ UNCHANGED <<perVars, entryVars, adv, captured, txResp, reloadVars>>

(* run_challenge                                                              *)
ChallengeUnknown(r) ==
    /\ pc[r] = "notify"
    /\ NotifyUnknown(txPeer[r])
    /\ AuditAt(r, txNonce[r], "unknown-peer")
    /\ Conclude(r, "unknown-peer")
    /\ UNCHANGED <<entryVars, adv, captured, txResp, reloadVars>>

ChallengeDrain(r) ==
    /\ pc[r] = "notify"
    /\ NotifyDrain(txPeer[r])
    /\ txChan' = [txChan EXCEPT ![r] = chars[txPeer[r]]]
    /\ pc' = [pc EXCEPT ![r] = "send"]
    /\ UNCHANGED <<entryVars, adv, txPeer, txGen, txNonce, txResp, out, auditVars,
                   reloadVars>>

ChallengeSend(r) ==
    /\ pc[r] = "send"
    /\ SessionSend(txChan[r])
    /\ pc' = [pc EXCEPT ![r] = "wait"]
    /\ UNCHANGED <<entryVars, adv, captured, txResp, out, auditVars, reloadVars>>

(* Variant: a failed notification is tried again with another nonce.          *)
ChallengeSendRetried(r) ==
    /\ pc[r] = "send"
    /\ SessionSendFails(txChan[r])
    /\ slot' = [slot EXCEPT ![txGen[r]] = None]
    /\ txNonce' = [txNonce EXCEPT ![r] = None]
    /\ pc' = [pc EXCEPT ![r] = "queue"]
    /\ UNCHANGED <<live, ekey, cache, granted, adv, txPeer, txGen, txChan, txResp, out,
                   auditVars, reloadVars>>

ChallengeSendFails(r) ==
    /\ pc[r] = "send"
    /\ SessionSendFails(txChan[r])
    /\ AuditAt(r, txNonce[r], "transport-error")
    /\ Conclude(r, "transport-error")
    /\ UNCHANGED <<entryVars, adv, captured, txResp, reloadVars>>

AwaitUnknown(r) ==
    /\ pc[r] = "wait"
    /\ WaitUnknown(txPeer[r])
    /\ AuditAt(r, txNonce[r], "unknown-peer")
    /\ Conclude(r, "unknown-peer")
    /\ UNCHANGED <<entryVars, adv, captured, txResp, reloadVars>>

AwaitResponse(r) ==
    /\ pc[r] = "wait"
    /\ WaitBegin(r, txPeer[r])
    /\ txChan' = [txChan EXCEPT ![r] = chars[txPeer[r]]]
    /\ pc' = [pc EXCEPT ![r] = "recv"]
    /\ UNCHANGED <<entryVars, adv, txPeer, txGen, txNonce, txResp, out, auditVars,
                   reloadVars>>

(* Variant: gives up only when the phone has closed its session.              *)
AwaitTimeoutOnClose(r) ==
    /\ pc[r] = "recv"
    /\ ~sub
    /\ WaitTimeout(r, txChan[r])
    /\ AuditAt(r, txNonce[r], "response-timeout")
    /\ Conclude(r, "response-timeout")
    /\ UNCHANGED <<entryVars, adv, captured, txResp, reloadVars>>

(* Variant: this early return has no audit call.                              *)
AwaitTimeoutUnaudited(r) ==
    /\ pc[r] = "recv"
    /\ WaitTimeout(r, txChan[r])
    /\ Conclude(r, "response-timeout")
    /\ UNCHANGED <<entryVars, adv, captured, txResp, auditVars, reloadVars>>

AwaitTimeout(r) ==
    /\ pc[r] = "recv"
    /\ WaitTimeout(r, txChan[r])
    /\ AuditAt(r, txNonce[r], "response-timeout")
    /\ Conclude(r, "response-timeout")
    /\ UNCHANGED <<entryVars, adv, captured, txResp, reloadVars>>

(* wait_for_response returns the bytes, and with it the guard of the          *)
(* peripheral's map is gone: reloads go on while the response is judged.      *)
ReceiveResponse(r) ==
    /\ pc[r] = "recv"
    /\ WaitReceive(r, txChan[r])
    /\ txResp' = [txResp EXCEPT ![r] = Head(rx[txChan[r]])]
    /\ pc' = [pc EXCEPT ![r] = "judge"]
    /\ UNCHANGED <<entryVars, adv, captured, out, auditVars, reloadVars>>

(* Variant: the signature is checked under whichever phone's key fits.        *)
VerifiedAnyPhone(r, x) == x[2] = txNonce[r]

(* verify_frame under the pinned public key: the signature is this phone's    *)
(* and is over this transaction's nonce.                                      *)
Verified(r, x) == x = <<txPeer[r], txNonce[r]>>

(* The verdict over the response, which is a local of run_challenge.          *)
Judge(r, reason) ==
    /\ txResp' = [txResp EXCEPT ![r] = None]
    /\ AuditAt(r, txNonce[r], reason)
    /\ Conclude(r, reason)
    /\ UNCHANGED <<perVars, live, ekey, slot, adv, captured, reloadVars>>

JudgeBad(r) ==
    /\ pc[r] = "judge"
    /\ ~Verified(r, txResp[r])
    /\ Judge(r, "bad-signature")
    /\ UNCHANGED <<cache, granted>>

(* The look into the nonce cache and the insertion are one step under the     *)
(* cache's own lock.                                                          *)
JudgeReplay(r) ==
    /\ pc[r] = "judge"
    /\ Verified(r, txResp[r])
    /\ Contains(cache[txGen[r]], txNonce[r])
    /\ Judge(r, "replay")
    /\ UNCHANGED <<cache, granted>>

JudgeOk(r) ==
    /\ pc[r] = "judge"
    /\ Verified(r, txResp[r])
    /\ ~Contains(cache[txGen[r]], txNonce[r])
    /\ cache' = [cache EXCEPT ![txGen[r]] = Insert(@, txNonce[r])]
    /\ granted' = [granted EXCEPT ![txGen[r]] = Append(@, txNonce[r])]
    /\ Judge(r, "ok")

(* drop(permit) for a transaction that holds one, and the answer.             *)
HasPermit(r) == txGen[r] # 0 /\ slot[txGen[r]] = r

Return(r) ==
    /\ pc[r] = "return"
    /\ slot' = IF HasPermit(r) THEN [slot EXCEPT ![txGen[r]] = None] ELSE slot
    /\ pc' = [pc EXCEPT ![r] = "done"]
    /\ UNCHANGED <<perVars, live, ekey, cache, granted, adv, captured, txResp, out,
                   auditVars, reloadVars>>

-----------------------------------------------------------------------------
(* run_reload, for a bond store that loaded; newSet is compute_new_set of it. *)

LivePeers == {p \in Peers : live[p] # 0}
LiveKeys == {<<p, ekey[live[p]]>> : p \in LivePeers}

(* Variant: the diff has no removals.                                         *)
ReloadBeginAddOnly(newSet) ==
    /\ rpc = "idle"
    /\ rnew' = newSet
    /\ rdel' = {}
    /\ radd' = {p \in Peers : live[p] = 0 /\ newSet[p] # None}
    /\ rpc' = "remove"
    /\ UNCHANGED <<perVars, entryVars, adv, txVars, rcur>>

(* compute_diff compares peer ids only.                                       *)
ReloadBegin(newSet) ==
    /\ rpc = "idle"
    /\ rnew' = newSet
    /\ rdel' = {p \in Peers : live[p] # 0 /\ newSet[p] = None}
    /\ radd' = {p \in Peers : live[p] = 0 /\ newSet[p] # None}
    /\ rpc' = "remove"
    /\ UNCHANGED <<perVars, entryVars, adv, txVars, rcur>>

(* do_remove_peer; the peer stays in the map when the peripheral refuses.      *)
ReloadRemove(p) ==
    /\ rpc = "remove" /\ p \in rdel
    /\ rdel' = rdel \ {p}
    /\ IF chars[p] = 0
       THEN RemovePeerUnknown(p) /\ UNCHANGED <<rcur, rpc>>
       ELSE RemovePeer(p) /\ rcur' = p /\ rpc' = "forget"
    /\ UNCHANGED <<entryVars, adv, txVars, rnew, radd>>

(* Variant: the peripheral forgets the peer, the orchestrator does not.       *)
ReloadForgetSkipped ==
    /\ rpc = "forget"
    /\ rcur' = None
    /\ rpc' = "remove"
    /\ UNCHANGED <<perVars, entryVars, adv, txVars, rnew, rdel, radd>>

ReloadForget ==
    /\ rpc = "forget"
    /\ live' = [live EXCEPT ![rcur] = 0]
    /\ rcur' = None
    /\ rpc' = "remove"
    /\ UNCHANGED <<perVars, ekey, cache, slot, granted, adv, txVars, rnew, rdel, radd>>

ReloadRemoved ==
    /\ rpc = "remove" /\ rdel = {}
    /\ rpc' = "add"
    /\ UNCHANGED <<perVars, entryVars, adv, txVars, rcur, rnew, rdel, radd>>

(* do_add_peer, up to the registration; a refusal skips the peer.             *)
ReloadAdd(p) ==
    /\ rpc = "add" /\ p \in radd
    /\ radd' = radd \ {p}
    /\ IF chars[p] # 0
       THEN AddPeerDuplicate(p) /\ UNCHANGED <<rcur, rpc>>
       ELSE AddPeerBegin(p) /\ rcur' = p /\ rpc' = "register"
    /\ UNCHANGED <<entryVars, adv, txVars, rnew, rdel>>

ReloadRegisterFails ==
    /\ rpc = "register"
    /\ RegisterPeerFails
    /\ rcur' = None
    /\ rpc' = "add"
    /\ UNCHANGED <<entryVars, adv, txVars, rnew, rdel, radd>>

ReloadRegister ==
    /\ rpc = "register"
    /\ RegisterPeer
    /\ rpc' = "insert"
    /\ UNCHANGED <<entryVars, adv, txVars, rcur, rnew, rdel, radd>>

ReloadInsert ==
    /\ rpc = "insert"
    /\ AddPeerInsert(rcur)
    /\ rpc' = "record"
    /\ UNCHANGED <<entryVars, adv, txVars, rcur, rnew, rdel, radd>>

(* PeerEntry::new: an empty nonce cache and an unused permit.                 *)
ReloadRecord ==
    /\ rpc = "record"
    /\ live' = [live EXCEPT ![rcur] = chars[rcur]]
    /\ ekey' = [ekey EXCEPT ![chars[rcur]] = rnew[rcur]]
    /\ rcur' = None
    /\ rpc' = "add"
    /\ UNCHANGED <<perVars, cache, slot, granted, adv, txVars, rnew, rdel, radd>>

(* rotate_once: the old advertisement is taken down before the new one is     *)
(* requested, so a refusal leaves none.                                       *)
Rotate ==
    \/ adv' = [on |-> TRUE, keys |-> LiveKeys]
    \/ "advertise" \in Faults /\ adv' = [on |-> FALSE, keys |-> {}]

(* Variant: the next rotation is left to the minute tick.                     *)
ReloadFinishNoRotate ==
    /\ rpc = "add" /\ radd = {}
    /\ rpc' = "idle"
    /\ UNCHANGED <<perVars, entryVars, adv, txVars, rcur, rnew, rdel, radd>>

ReloadFinish ==
    /\ rpc = "add" /\ radd = {}
    /\ Rotate
    /\ rpc' = "idle"
    /\ UNCHANGED <<perVars, entryVars, txVars, rcur, rnew, rdel, radd>>

(* The minute tick, and the rotation run() starts with.                       *)
MinuteTick ==
    /\ rpc = "idle"
    /\ Rotate
    /\ UNCHANGED <<perVars, entryVars, txVars, reloadVars>>
=============================================================================

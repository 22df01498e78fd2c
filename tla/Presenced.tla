------------------------------- MODULE Presenced -------------------------------
(* The syauth-presenced daemon with its surroundings: the bond files on disk  *)
(* and their writers (the CLI and the daemon's own pair_event_consumer), the  *)
(* reload triggers, the orchestrator over the peripheral, and the phones.     *)
EXTENDS Orchestrator

CONSTANTS
    HostKey,    \* bond key a pairing with this daemon process derives
    ReloadCap,  \* RELOAD_CHANNEL_CAPACITY
    MaxEdits    \* bound: pairings and revocations in one run

ASSUME PresencedAssumption ==
    /\ HostKey \in Keys
    /\ ReloadCap \in Nat \ {0}
    /\ MaxEdits \in Nat

VARIABLES
    bonds,      \* bonds.toml: status of each peer
    keyFile,    \* keys/<peer_id>.bin of each peer, None = missing
    edits,      \* pairings and revocations so far
    dirty,      \* an inotify event on bonds.toml waits for the watcher
    queue,      \* ReloadCommands in the mpsc channel
    synced,     \* the last reload loaded bonds.toml
    con,        \* pair_event_consumer: step, peer, bond key
    cli,        \* `syauth pair`: step, peer, bond key
    inbox,      \* nonces of the challenges a phone shows its user
    approved    \* <<phone, nonce>> the users have approved and the phones signed

diskVars == <<bonds, keyFile, edits, con, cli>>
triggerVars == <<dirty, queue, synced>>
phoneVars == <<inbox, approved>>
vars == <<perVars, orchVars, diskVars, triggerVars, phoneVars>>

WriterIdle == [pc |-> "idle", peer |-> None, key |-> None]
Writer == [pc : {"idle", "key", "record", "signal"}, peer : Peers \cup {None},
           key : Keys \cup {None}]

DiskTypeOK ==
    /\ bonds \in [Peers -> {"absent", "bonded", "revoked"}]
    /\ keyFile \in [Peers -> Keys \cup {None}]
    /\ edits \in 0..MaxEdits
    /\ con \in Writer
    /\ cli \in Writer

TriggerTypeOK ==
    /\ dirty \in BOOLEAN
    /\ queue \in 0..ReloadCap
    /\ synced \in BOOLEAN

PhoneTypeOK ==
    /\ inbox \in [Peers -> SUBSET Nonces]
    /\ approved \in SUBSET (Peers \X Nonces)

EnvTypeOK == DiskTypeOK /\ TriggerTypeOK /\ PhoneTypeOK
TypeOK == PeripheralTypeOK /\ OrchestratorTypeOK /\ EnvTypeOK

(* A fresh process.  maybe_spawn_orchestrator looks at the first bonded       *)
(* record only: that peer becomes the seed if its key file can be read.       *)
Init ==
    /\ \E B \in SUBSET Peers, k \in [Peers -> Keys \cup {None}], first \in Peers :
        /\ B = {} \/ first \in B
        /\ \A p \in Peers \ B : k[p] = None
        /\ bonds = [p \in Peers |-> IF p \in B THEN "bonded" ELSE "absent"]
        /\ keyFile = k
        /\ LET seed == IF k[first] = None THEN {} ELSE {first}
           IN  PeripheralNew(seed) /\ OrchestratorNew(seed, k[first])
    /\ edits = 0
    /\ dirty = FALSE
    /\ queue = 0
    /\ synced = FALSE
    /\ con = WriterIdle
    /\ cli = WriterIdle
    /\ inbox = [p \in Peers |-> {}]
    /\ approved = {}

-----------------------------------------------------------------------------
(* Writers of the bond files.                                                 *)

(* A phone writes its public key to the pair service (which must be           *)
(* registered): the pair watcher hands it to pair_event_consumer.             *)
PairOverAir(p) ==
    /\ appPair
    /\ con.pc = "idle"
    /\ edits < MaxEdits
    /\ edits' = edits + 1
    /\ con' = [pc |-> "key", peer |-> p, key |-> HostKey]
    /\ UNCHANGED <<perVars, orchVars, bonds, keyFile, cli, triggerVars, phoneVars>>

(* persist_pair_bond_key *)
ConsumerKey ==
    /\ con.pc = "key"
    /\ keyFile' = [keyFile EXCEPT ![con.peer] = con.key]
    /\ con' = [pc |-> "record", peer |-> con.peer, key |-> con.key]
    /\ UNCHANGED <<perVars, orchVars, bonds, edits, cli, triggerVars, phoneVars>>

(* persist_pair_bond_record: any record of the peer is replaced.              *)
ConsumerRecord ==
    /\ con.pc = "record"
    /\ bonds' = [bonds EXCEPT ![con.peer] = "bonded"]
    /\ dirty' = TRUE
    /\ con' = [pc |-> "signal", peer |-> con.peer, key |-> con.key]
    /\ UNCHANGED <<perVars, orchVars, keyFile, edits, cli, queue, synced, phoneVars>>

(* reload_tx.send(Pair).await: waits for room in the channel.                 *)
ConsumerSignal ==
    /\ con.pc = "signal"
    /\ queue < ReloadCap
    /\ queue' = queue + 1
    /\ con' = WriterIdle
    /\ UNCHANGED <<perVars, orchVars, bonds, keyFile, edits, cli, dirty, synced, phoneVars>>

ConsumerFails ==
    /\ "persist" \in Faults
    /\ con.pc \in {"key", "record"}
    /\ con' = WriterIdle
    /\ UNCHANGED <<perVars, orchVars, bonds, keyFile, edits, cli, triggerVars, phoneVars>>

(* `syauth pair` (with --force if the peer has a record): the record is saved *)
(* first, the key file is written after it.                                   *)
CliPair(p, k) ==
    /\ cli.pc = "idle"
    /\ edits < MaxEdits
    /\ edits' = edits + 1
    /\ bonds' = [bonds EXCEPT ![p] = "bonded"]
    /\ dirty' = TRUE
    /\ cli' = [pc |-> "key", peer |-> p, key |-> k]
    /\ UNCHANGED <<perVars, orchVars, keyFile, con, queue, synced, phoneVars>>

CliWriteKey ==
    /\ cli.pc = "key"
    /\ keyFile' = [keyFile EXCEPT ![cli.peer] = cli.key]
    /\ cli' = WriterIdle
    /\ UNCHANGED <<perVars, orchVars, bonds, edits, con, triggerVars, phoneVars>>

CliWriteKeyFails ==
    /\ "persist" \in Faults
    /\ cli.pc = "key"
    /\ cli' = WriterIdle
    /\ UNCHANGED <<perVars, orchVars, bonds, keyFile, edits, con, triggerVars, phoneVars>>

(* `syauth revoke`: marks the record, leaves the key file.                    *)
CliRevoke(p) ==
    /\ bonds[p] = "bonded"
    /\ edits < MaxEdits
    /\ edits' = edits + 1
    /\ bonds' = [bonds EXCEPT ![p] = "revoked"]
    /\ dirty' = TRUE
    /\ UNCHANGED <<perVars, orchVars, keyFile, con, cli, queue, synced, phoneVars>>

-----------------------------------------------------------------------------
(* Reload triggers.                                                           *)

(* spawn_inotify_watcher: debounce, drain the events, push one command.       *)
InotifyReload ==
    /\ dirty
    /\ queue < ReloadCap
    /\ dirty' = FALSE
    /\ queue' = queue + 1
    /\ UNCHANGED <<perVars, orchVars, diskVars, synced, phoneVars>>

(* SIGHUP (wait_for_reason) or Request::Reload (dispatch_reload).             *)
OperatorReload ==
    /\ queue < ReloadCap
    /\ queue' = queue + 1
    /\ UNCHANGED <<perVars, orchVars, diskVars, dirty, synced, phoneVars>>

(* Variant: revoked bonds with a key file stay in the set.                    *)
NewSetWithRevoked == [p \in Peers |-> IF bonds[p] # "absent" THEN keyFile[p] ELSE None]

(* compute_new_set: bonds that are not revoked and whose key file loads.      *)
NewSet == [p \in Peers |-> IF bonds[p] = "bonded" THEN keyFile[p] ELSE None]

TakeReload ==
    /\ queue > 0
    /\ queue' = queue - 1
    /\ ReloadBegin(NewSet)
    /\ synced' = TRUE
    /\ UNCHANGED <<diskVars, dirty, phoneVars>>

(* BondStore::load fails: the command is used up and nothing else happens.    *)
TakeReloadSkipped ==
    /\ "load" \in Faults
    /\ rpc = "idle"
    /\ queue > 0
    /\ queue' = queue - 1
    /\ synced' = FALSE
    /\ UNCHANGED <<perVars, orchVars, diskVars, dirty, phoneVars>>

-----------------------------------------------------------------------------
(* Phones.  A notification is for whoever is subscribed: it reaches any of    *)
(* the phones, several or none.  The app shows whatever bytes it is notified  *)
(* of (the handler strips the tag and opens the approval screen; no check of  *)
(* the MAC is ever called); its user answers when he likes, long after the    *)
(* daemon has given up if need be.                                            *)
SendDelivered(r, to) ==
    /\ ChallengeSend(r)
    /\ inbox' = [p \in Peers |-> IF p \in to THEN inbox[p] \cup {txNonce[r]} ELSE inbox[p]]
    /\ UNCHANGED <<diskVars, triggerVars, approved>>

PhoneApprove(p, n) ==
    /\ n \in inbox[p]
    /\ ResponseWritten(<<p, n>>)
    /\ inbox' = [inbox EXCEPT ![p] = @ \ {n}]
    /\ approved' = approved \cup {<<p, n>>}
    /\ UNCHANGED <<orchVars, diskVars, triggerVars>>

PhoneDeny(p, n) ==
    /\ "deny" \in Faults
    /\ n \in inbox[p]
    /\ ResponseWritten(<<p, Deny>>)
    /\ inbox' = [inbox EXCEPT ![p] = @ \ {n}]
    /\ UNCHANGED <<orchVars, diskVars, triggerVars, approved>>

-----------------------------------------------------------------------------
envVars == <<diskVars, triggerVars, phoneVars>>

(* Steps of one transaction, other than a successful notification.            *)
TxStep(r) ==
    /\ \/ \E n \in Nonces : AcquireSlot(r, n)
       \/ AcquireSlotNoNonce(r)
       \/ SlotBusy(r)
       \/ ChallengeUnknown(r)
       \/ ChallengeDrain(r)
       \/ ChallengeSendFails(r)
       \/ AwaitUnknown(r)
       \/ AwaitResponse(r)
       \/ AwaitTimeout(r)
       \/ ReceiveResponse(r)
       \/ JudgeBad(r)
       \/ JudgeReplay(r)
       \/ JudgeOk(r)
       \/ Return(r)
    /\ UNCHANGED envVars

SendStep(r) == \E to \in SUBSET Peers : SendDelivered(r, to)

TxBegin(r, p) ==
    /\ LookupUnknown(r, p) \/ LookupPeer(r, p)
    /\ UNCHANGED envVars

(* Steps of the orchestrator's run() once it has taken a reload command.      *)
ReloadStep ==
    /\ \/ \E p \in Peers : ReloadRemove(p) \/ ReloadAdd(p)
       \/ ReloadForget
       \/ ReloadRemoved
       \/ ReloadRegisterFails
       \/ ReloadRegister
       \/ ReloadInsert
       \/ ReloadRecord
       \/ ReloadFinish
    /\ UNCHANGED envVars

LinkStep ==
    /\ Subscribe \/ SessionClosed \/ ResponseForward
    /\ UNCHANGED <<orchVars, envVars>>

Tick == MinuteTick /\ UNCHANGED envVars

WriterStep ==
    \/ ConsumerKey \/ ConsumerRecord \/ ConsumerSignal \/ ConsumerFails
    \/ CliWriteKey \/ CliWriteKeyFails

Next ==
    \/ \E r \in Requests : TxStep(r) \/ SendStep(r)
    \/ \E r \in Requests, p \in Peers : TxBegin(r, p)
    \/ ReloadStep \/ Tick \/ TakeReload \/ TakeReloadSkipped
    \/ InotifyReload \/ OperatorReload
    \/ LinkStep
    \/ \E p \in Peers, n \in Nonces : PhoneApprove(p, n) \/ PhoneDeny(p, n)
    \/ \E p \in Peers : PairOverAir(p) \/ CliRevoke(p)
    \/ \E p \in Peers, k \in Keys : CliPair(p, k)
    \/ WriterStep

Spec == Init /\ [][Next]_vars

-----------------------------------------------------------------------------
(* Properties.                                                                *)

(* A transaction that holds its entry's permit and has a challenge out.       *)
InFlight(r) == pc[r] \in {"notify", "send", "wait", "recv", "judge"}

(* issue_challenge answers "ok" only for a nonce that the phone of the peer   *)
(* it was asked about has signed: a response that was meant for another       *)
(* challenge, arrived late, or came from another phone after the GATT         *)
(* application was swapped, is never taken for an approval.                   *)
OkIsApproved ==
    \A r \in Requests :
        out[r] = "ok" => <<txPeer[r], txNonce[r]>> \in approved

(* The per-entry semaphore admits one transaction at a time, from the nonce   *)
(* to the verdict, whatever reloads do to the map in the meantime.            *)
PermitExclusive ==
    \A r, s \in Requests :
        InFlight(r) /\ InFlight(s) /\ txGen[r] = txGen[s] => r = s

(* NonceCache: through one PeerEntry a nonce is accepted again only after     *)
(* CacheCap other nonces have been accepted since.                            *)
SingleUse ==
    \A g \in Gens : \A i, j \in 1..Len(granted[g]) :
        i < j /\ j - i <= CacheCap => granted[g][i] # granted[g][j]

(* "Every outcome appends one line to the audit log ... best-effort": none    *)
(* before the outcome is decided; then, on every path on which                *)
(* issue_challenge returns, exactly one, which records the outcome that is    *)
(* returned and the nonce that was drawn (no nonce where none was), unless    *)
(* this very append failed or there is no log.                                *)
AuditedOnce ==
    \A r \in Requests :
        audit[r] = IF pc[r] \in {"return", "done"} /\ r \notin unlogged
                   THEN <<<<txNonce[r], out[r]>>>>
                   ELSE <<>>

(* The orchestrator's map and the peripheral's map name the same peers and    *)
(* the same generations, except for the peer a reload is in the middle of     *)
(* adding or removing.                                                        *)
MapsAgree ==
    \A p \in Peers :
        live[p] = chars[p] \/ (p = rcur /\ rpc \in {"forget", "record"})

(* The characteristic set a transaction receives from stays in the map for    *)
(* as long as it waits: wait_for_response keeps the map's mutex.              *)
ResponsePinned ==
    \A r \in Requests :
        pc[r] = "recv" => chars[txPeer[r]] # 0 /\ txChan[r] = chars[txPeer[r]]

(* After a reload or a tick the advertisement, if there is one, carries the   *)
(* UUIDs of exactly the live peers.                                           *)
AdvertisesLive ==
    rpc = "idle" /\ adv.on => adv.keys = LiveKeys

(* Nothing is under way that would still change the live peers.               *)
Quiet == rpc = "idle" /\ queue = 0 /\ ~dirty /\ con.pc = "idle" /\ cli.pc = "idle"

(* The application that is registered between reloads belongs to a peer that  *)
(* is still in the map: adding and removing peers replaces the whole          *)
(* application, and no characteristic of a removed peer is left in it.        *)
ServesOnlyMapped ==
    rpc = "idle" /\ appGen # 0 => \E p \in Peers : chars[p] = appGen

(* A revoked bond is out of the live set once the reload its revocation       *)
(* triggered has run, also when files change while a reload is running.       *)
RevokedNotLive ==
    Quiet /\ synced => \A p \in Peers : live[p] # 0 => bonds[p] = "bonded"

(* An unlock rests on a response that was taken while its peer was            *)
(* registered: once remove_peer has returned for a revoked peer, of the       *)
(* transactions that looked the peer up before only those that already have   *)
(* their response can still say "ok" (the guard of the map is released        *)
(* before the signature is checked), all others cannot, until it is paired    *)
(* again.                                                                     *)
TakenWhileRegistered ==
    [][\A r \in Requests :
          /\ pc[r] # "judge" /\ pc'[r] = "judge" => chars[txPeer[r]] # 0
          /\ out[r] # "ok" /\ out'[r] = "ok" => pc[r] = "judge"]_vars

-----------------------------------------------------------------------------
(* The inductive invariant behind the theorems of PresencedProofs.            *)

(* A transaction knows its peer once it has begun, its entry until it has its *)
(* outcome, and while it is in flight it holds that entry's permit and has    *)
(* drawn its nonce.                                                           *)
TxOK(r) ==
    /\ pc[r] # "idle" => txPeer[r] \in Peers
    /\ pc[r] \in {"queue", "notify", "send", "wait", "recv", "judge"} =>
          txGen[r] \in Gens /\ out[r] = "none"
    /\ InFlight(r) => slot[txGen[r]] = r /\ txNonce[r] \in Nonces
    /\ pc[r] \in {"idle", "queue"} => txNonce[r] = None
    /\ pc[r] = "idle" => txPeer[r] = None /\ out[r] = "none"
    /\ pc[r] \in {"return", "done"} => out[r] \in Outcomes

TxInv == \A r \in Requests : TxOK(r)

(* The mutex of the peripheral's map is held across an await by exactly the   *)
(* transaction that waits for its response.                                   *)
LockInv == \A r \in Requests : pc[r] = "recv" <=> peersLock = r

(* The peer a reload works on, and what it has left to do, fit the maps.      *)
ReloadInv ==
    /\ rpc \in {"forget", "register", "insert", "record"} => rcur \in Peers
    /\ rpc \in {"idle", "remove", "add"} => rcur = None
    /\ rpc = "forget" => chars[rcur] = 0
    /\ rpc \in {"register", "insert"} => chars[rcur] = 0
    /\ rpc = "insert" => appGen # 0
    /\ \A p \in rdel : live[p] # 0
    /\ \A p \in radd : live[p] = 0
    /\ rpc \in {"add", "register", "insert", "record"} => rdel = {}
    /\ rcur \in Peers => rcur \notin rdel /\ rcur \notin radd

(* Whatever is on its way from a phone to a transaction is a denial or was    *)
(* approved by the phone's user.                                              *)
Honest == approved \cup (Peers \X {Deny})
ResponseInv ==
    /\ rx \in [Gens -> Seq(Honest)]
    /\ air \in Seq(Honest)
    /\ \A r \in Requests : pc[r] = "judge" => txResp[r] \in Honest

(* A phone shows its user only nonces that some transaction drew, though not  *)
(* necessarily one that is about this phone.                                  *)
InboxInv ==
    \A p \in Peers : \A n \in inbox[p] : \E r \in Requests : txNonce[r] = n

(* A PeerEntry's cache holds the latest nonces accepted through it: all of    *)
(* them, or the last CacheCap.                                                *)
CacheInv ==
    \A g \in Gens :
        LET c == Len(cache[g])
            a == Len(granted[g])
        IN  /\ c <= a /\ c <= CacheCap
            /\ c = a \/ c = CacheCap
            /\ \A i \in 1..c : cache[g][i] = granted[g][a - c + i]

(* The registered application is that of a mapped peer, or of the peer that   *)
(* add_peer is about to insert.                                               *)
AppInv == appGen # 0 /\ rpc # "insert" => \E p \in Peers : chars[p] = appGen

(* The bonds.toml a reload has read lags behind the file only while a command *)
(* or an inotify event is on its way, and the live set lags behind what was   *)
(* read only by the peers the reload still has to remove.                     *)
SyncInv ==
    /\ synced /\ ~dirty /\ queue = 0 =>
          \A p \in Peers : rnew[p] # None => bonds[p] = "bonded"
    /\ synced =>
          \A p \in Peers : live[p] # 0 =>
              rnew[p] # None \/ p \in rdel \/ (rpc = "forget" /\ p = rcur)
    /\ \A p \in radd : rnew[p] # None
    /\ rpc \in {"register", "insert", "record"} => rnew[rcur] # None
    /\ rpc = "idle" => rdel = {}

(* A permit is out only to a transaction that took it on this entry and has   *)
(* not returned: no return path keeps it.                                     *)
PermitInv ==
    \A g \in Gens : slot[g] # None =>
        /\ txGen[slot[g]] = g
        /\ pc[slot[g]] \in {"notify", "send", "wait", "recv", "judge", "return"}

(* What a transaction relies on.                                              *)
CoreInv == TypeOK /\ TxInv /\ LockInv /\ ReloadInv /\ MapsAgree /\ ResponsePinned
           /\ ResponseInv /\ InboxInv /\ OkIsApproved

(* Only a transaction that has its outcome can have failed to log it.         *)
LoggedInv == \A r \in Requests : r \in unlogged => pc[r] \in {"return", "done"}

IInv == CoreInv /\ LoggedInv /\ AuditedOnce /\ CacheInv /\ SingleUse
        /\ AppInv /\ SyncInv /\ AdvertisesLive /\ PermitInv

-----------------------------------------------------------------------------
(* The transactions implement UnlockService.                                  *)
TxState(r) ==
    IF pc[r] = "idle" THEN "idle" ELSE IF out[r] = "none" THEN "open" ELSE "closed"

Svc == INSTANCE UnlockService WITH
    state <- [r \in Requests |-> TxState(r)],
    who <- [r \in Requests |-> txPeer[r]],
    asked <- [r \in Requests |-> txNonce[r]],
    answer <- out,
    signed <- approved

(* Every step of the daemon, the disk and the phones is a step of the unlock  *)
(* service or leaves it unchanged: in particular nothing is signed that no    *)
(* transaction asked, no request asks twice, "ok" needs the signature of the  *)
(* very phone over the very question, and no verdict is ever revised.         *)
ImplementsUnlockService == Svc!SvcSpec

-----------------------------------------------------------------------------
(* Liveness.  tokio polls every ready task, its timers fire and its mutexes   *)
(* are fair; nothing is assumed of phones, operators or the link.             *)
Fairness ==
    /\ \A r \in Requests : WF_vars(TxStep(r) \/ SendStep(r))
    /\ WF_vars(ReloadStep)
    /\ WF_vars(TakeReload)
    /\ WF_vars(InotifyReload)

FairSpec == Spec /\ Fairness

(* Every request gets its answer: no transaction waits for ever on the        *)
(* permit, on the peripheral's mutex or on a phone that stays silent.         *)
TxTerminates == \A r \in Requests : pc[r] # "idle" ~> pc[r] = "done"

(* A reload that has begun ends, although it needs the mutex that             *)
(* transactions keep while they wait for a phone.                             *)
ReloadEnds == rpc # "idle" ~> rpc = "idle"

(* A revocation by the CLI, which does not signal the daemon, takes the peer  *)
(* out of the live set, unless the peer is paired again first.                *)
RevocationTakesEffect ==
    \A p \in Peers : bonds[p] = "revoked" ~> (live[p] = 0 \/ bonds[p] = "bonded")

-----------------------------------------------------------------------------
(* Why they end: the part of the termination argument that needs no fairness. *)

Stage == [idle |-> 0, queue |-> 1, notify |-> 2, send |-> 3, wait |-> 4, recv |-> 5,
          judge |-> 6, return |-> 7, done |-> 8]

(* A transaction never goes back: what issue_challenge has done it does not   *)
(* do again, whatever reloads and other transactions do.                      *)
TxForward ==
    [][\A r \in Requests : pc'[r] # pc[r] => Stage[pc[r]] < Stage[pc'[r]]]_vars

(* r waits for s to give back a permit, or to release the peripheral's map.   *)
WaitsFor(r, s) ==
    \/ pc[r] = "queue" /\ slot[txGen[r]] = s
    \/ pc[r] \in {"notify", "wait"} /\ peersLock = s

(* Nobody waits in a circle: whoever is waited for is further on and has not  *)
(* returned, so a chain of waits ends, and it ends at one who waits for       *)
(* nobody.  The mutex that reloads need too is kept only by a transaction     *)
(* that gets its response or times out without any other lock.                *)
NoCircularWait ==
    /\ \A r, s \in Requests :
          WaitsFor(r, s) => Stage[pc[r]] < Stage[pc[s]] /\ pc[s] # "done"
    /\ \A r \in Requests : pc[r] = "queue" => slot[txGen[r]] \in Requests \cup {None}
    /\ peersLock # None => /\ pc[peersLock] = "recv"
                           /\ \A s \in Requests : ~WaitsFor(peersLock, s)

ReloadStage == [forget |-> 0, remove |-> 1, register |-> 2, insert |-> 3, record |-> 4,
                add |-> 5, idle |-> 6]

(* A reload that has begun has less and less to do: each step takes a peer    *)
(* off its two lists or brings the peer it is at closer to its end, and       *)
(* nothing that happens meanwhile adds to its work.                           *)
ReloadForward ==
    [][rpc # "idle" =>
          \/ UNCHANGED reloadVars
          \/ rdel' \cup radd' \subseteq rdel \cup radd /\ rdel' \cup radd' # rdel \cup radd
          \/ UNCHANGED <<rdel, radd>> /\ ReloadStage[rpc] < ReloadStage[rpc']]_vars
=============================================================================

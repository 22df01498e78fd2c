----------------------------- MODULE ReloadProofs -----------------------------
(* Theorems about Presenced that span transactions and reloads: the audit     *)
(* lines, the nonce caches of the entries, the advertisement, the registered  *)
(* application and the revocations.  They build on CoreInv, which             *)
(* PresencedProofs shows to be inductive.                                     *)
EXTENDS PresencedProofs

USE PeripheralAssumption, OrchestratorAssumption, PresencedAssumption
DEF Gens, PeripheralAssumption, OrchestratorAssumption, PresencedAssumption

(* The audit log.                                                             *)

LEMMA AppendToEmpty ==
    ASSUME NEW S, NEW x \in S
    PROVE  Append(<<>>, x) = <<x>>
OBVIOUS

(* One line of one transaction.                                               *)
Audited(s) ==
    audit[s] = IF pc[s] \in {"return", "done"} /\ s \notin unlogged
               THEN <<<<txNonce[s], out[s]>>>>
               ELSE <<>>

(* A return path audits itself: from no line to one, or to none for good.     *)
LEMMA ConcludedIsAudited ==
    ASSUME TypeOK, NEW r \in Requests, NEW o \in Outcomes, NEW n \in Nonces \cup {None},
           AuditAt(r, n, o), Conclude(r, o), txNonce'[r] = n, audit[r] = <<>>,
           r \notin unlogged
    PROVE  Audited(r)'
<1> USE DEF TypeOK, OrchestratorTypeOK, TxTypeOK
<1>1. pc'[r] = "return" /\ out'[r] = o
  BY DEF Conclude
<1>2. CASE audit' = [audit EXCEPT ![r] = Append(@, <<n, o>>)] /\ UNCHANGED unlogged
  <2>1. audit'[r] = <<<<n, o>>>>
    BY <1>2, AppendToEmpty
  <2> QED
    BY <1>1, <1>2, <2>1 DEF Audited
<1>3. CASE unlogged' = unlogged \cup {r} /\ UNCHANGED audit
  BY <1>1, <1>3 DEF Audited
<1> QED
  BY <1>2, <1>3 DEF AuditAt

LEMMA NextAudited ==
    ASSUME TypeOK, TxInv, LoggedInv, AuditedOnce, [Next]_vars
    PROVE  AuditedOnce' /\ LoggedInv'
<1> USE DEF TypeOK, OrchestratorTypeOK, TxTypeOK
<1>0. \A s \in Requests : Audited(s) /\ TxOK(s)
  BY DEF AuditedOnce, Audited, TxInv
<1> SUFFICES ASSUME NEW s \in Requests
             PROVE  Audited(s)' /\ (s \in unlogged' => pc'[s] \in {"return", "done"})
  BY DEF AuditedOnce, Audited, LoggedInv
<1> DEFINE Goal == Audited(s)' /\ (s \in unlogged' => pc'[s] \in {"return", "done"})
<1> HIDE DEF Goal
<1>1. ASSUME pc'[s] \in {"return", "done"} <=> pc[s] \in {"return", "done"},
             audit'[s] = audit[s], s \in unlogged' <=> s \in unlogged,
             pc[s] \in {"return", "done"} => txNonce'[s] = txNonce[s] /\ out'[s] = out[s]
      PROVE  Goal
  BY <1>0, <1>1 DEF Audited, LoggedInv, Goal
<1>2. ASSUME NEW r \in Requests, NEW o \in Outcomes, NEW n \in Nonces \cup {None},
             AuditAt(r, n, o), Conclude(r, o), pc[r] \notin {"return", "done"},
             txNonce' = txNonce, txNonce[r] = n
      PROVE  Goal
  <2>1. audit[r] = <<>> /\ r \notin unlogged
    BY <1>0, <1>2 DEF Audited, LoggedInv
  <2>2. CASE s = r
    <3>1. Audited(r)'
      BY <1>2, <2>1, ConcludedIsAudited
    <3>2. pc'[r] = "return"
      BY <1>2 DEF Conclude
    <3> QED
      BY <2>2, <3>1, <3>2 DEF Goal
  <2>3. CASE s # r
    <3>1. /\ pc'[s] = pc[s] /\ out'[s] = out[s] /\ audit'[s] = audit[s]
          /\ s \in unlogged' <=> s \in unlogged
      BY <1>2, <2>3 DEF Conclude, AuditAt
    <3> QED
      BY <1>1, <1>2, <3>1
  <2> QED
    BY <2>2, <2>3
<1>3. ASSUME NEW r \in Requests, NEW n \in Nonces, AcquireSlot(r, n) PROVE Goal
  BY <1>1, <1>3 DEF AcquireSlot, auditVars
<1>4. ASSUME NEW r \in Requests, NEW o \in Outcomes, Concluded(r, o) PROVE Goal
  BY <1>2, <1>4 DEF Concluded, captured
<1>5. ASSUME NEW r \in Requests,
             ChallengeDrain(r) \/ AwaitResponse(r) \/ ReceiveResponse(r) \/ Return(r)
      PROVE  Goal
  BY <1>1, <1>5 DEF ChallengeDrain, AwaitResponse, ReceiveResponse, Return, captured, auditVars
<1>6. ASSUME NEW r \in Requests, TxStep(r) PROVE Goal
  <2>1. "transport-error" \in Outcomes
    BY DEF Outcomes
  <2> QED
    BY <1>3, <1>4, <1>5, <1>6, <2>1, TxStepKinds
<1>7. ASSUME NEW r \in Requests, SendStep(r) PROVE Goal
  BY <1>1, <1>7 DEF SendStep, SendDelivered, ChallengeSend, captured, auditVars
<1>8. ASSUME NEW r \in Requests, NEW p \in Peers, TxBegin(r, p) PROVE Goal
  <2>1. CASE LookupUnknown(r, p)
    <3>1. txNonce[r] = None /\ "unknown-peer" \in Outcomes
      BY <1>0, <2>1 DEF LookupUnknown, TxOK, Outcomes
    <3> QED
      BY <1>2, <2>1, <3>1 DEF LookupUnknown
  <2>2. CASE LookupPeer(r, p)
    BY <1>1, <2>2 DEF LookupPeer, auditVars
  <2> QED
    BY <1>8, <2>1, <2>2 DEF TxBegin
<1>9. ASSUME OtherStep PROVE Goal
  BY <1>1, <1>9, OtherStepFrame DEF txVars, captured, auditVars
<1> QED
  BY <1>6, <1>7, <1>8, <1>9, StepKinds DEF Goal

-----------------------------------------------------------------------------
(* The nonce caches.                                                          *)

(* Entries are written by an acceptance and by nothing else.                  *)
LEMMA EntryFrame ==
    ASSUME [Next]_vars
    PROVE  \/ UNCHANGED <<cache, granted>>
           \/ \E r \in Requests : JudgeOk(r)
<1>1. ASSUME NEW r \in Requests, TxStep(r), ~JudgeOk(r) PROVE UNCHANGED <<cache, granted>>
  BY <1>1 DEF TxStep, AcquireSlot, AcquireSlotNoNonce, SlotBusy, ChallengeUnknown,
     ChallengeDrain, ChallengeSendFails, AwaitUnknown, AwaitResponse, AwaitTimeout,
     ReceiveResponse, JudgeBad, JudgeReplay, Judge, Return, entryVars
<1>2. ASSUME NEW r \in Requests, SendStep(r)
      PROVE  UNCHANGED <<cache, granted>>
  BY <1>2 DEF SendStep, SendDelivered, ChallengeSend, entryVars
<1>3. ASSUME NEW r \in Requests, NEW p \in Peers, TxBegin(r, p)
      PROVE  UNCHANGED <<cache, granted>>
  BY <1>3 DEF TxBegin, LookupUnknown, LookupPeer, entryVars
<1> QED
  BY <1>1, <1>2, <1>3, OtherStepFrame, StepKinds

(* c is the end of a, and the whole of it unless it is full.                  *)
Recent(c, a) ==
    /\ Len(c) <= Len(a) /\ Len(c) <= CacheCap
    /\ Len(c) = Len(a) \/ Len(c) = CacheCap
    /\ \A i \in 1..Len(c) : c[i] = a[Len(a) - Len(c) + i]

Spaced(a) ==
    \A i, j \in 1..Len(a) : i < j /\ j - i <= CacheCap => a[i] # a[j]

LEMMA RecentEntries == CacheInv <=> \A g \in Gens : Recent(cache[g], granted[g])
BY DEF CacheInv, Recent

LEMMA SpacedEntries == SingleUse <=> \A g \in Gens : Spaced(granted[g])
BY DEF SingleUse, Spaced

(* NonceCache::insert keeps the most recent nonces.                           *)
LEMMA InsertKeepsRecent ==
    ASSUME NEW c \in Seq(Nonces), NEW a \in Seq(Nonces), NEW n \in Nonces, Recent(c, a)
    PROVE  Recent(Insert(c, n), Append(a, n))
<1> DEFINE b == Append(a, n)
           d == Append(c, n)
<1>1. /\ Len(a) \in Nat /\ Len(b) = Len(a) + 1 /\ b[Len(a) + 1] = n
      /\ \A i \in 1..Len(a) : b[i] = a[i]
  OBVIOUS
<1>2. /\ Len(c) \in Nat /\ Len(d) = Len(c) + 1 /\ d[Len(c) + 1] = n
      /\ \A i \in 1..Len(c) : d[i] = c[i]
      /\ d \in Seq(Nonces)
  OBVIOUS
<1>0. Insert(c, n) = IF Len(d) > CacheCap THEN Tail(d) ELSE d
  BY DEF Insert
<1> HIDE DEF b, d
<1>3. \A i \in 1..Len(d) : d[i] = b[Len(b) - Len(d) + i]
  <2> SUFFICES ASSUME NEW i \in 1..Len(d) PROVE d[i] = b[Len(b) - Len(d) + i]
    OBVIOUS
  <2>0. Len(a) \in Nat /\ Len(c) \in Nat /\ Len(b) - Len(d) = Len(a) - Len(c)
    BY <1>1, <1>2
  <2>1. CASE i = Len(c) + 1
    BY <1>1, <1>2, <2>0, <2>1 DEF Recent
  <2>2. CASE i \in 1..Len(c)
    <3>1. Len(a) - Len(c) + i \in 1..Len(a)
      BY <2>0, <2>2 DEF Recent
    <3> QED
      BY <1>1, <1>2, <2>0, <2>2, <3>1 DEF Recent
  <2> QED
    BY <1>2, <2>0, <2>1, <2>2
<1>4. CASE Len(d) > CacheCap
  <2>1. Insert(c, n) = Tail(d)
    BY <1>0, <1>4
  <2>2. Len(c) = CacheCap /\ Len(Tail(d)) = CacheCap
    BY <1>2, <1>4 DEF Recent
  <2>3. \A i \in 1..CacheCap : Tail(d)[i] = d[i + 1]
    BY <1>2, <2>2
  <2>4. \A i \in 1..CacheCap : d[i + 1] = b[Len(b) - CacheCap + i]
    BY <1>1, <1>2, <1>3, <2>2
  <2> QED
    <3>1. CacheCap <= Len(b)
      BY <1>1, <2>2 DEF Recent
    <3>2. Recent(Tail(d), b)
      BY <1>1, <2>2, <2>3, <2>4, <3>1 DEF Recent
    <3> QED
      BY <2>1, <3>2 DEF b
<1>5. CASE ~(Len(d) > CacheCap)
  <2>1. Insert(c, n) = d
    BY <1>0, <1>5
  <2>2. Len(c) = Len(a)
    BY <1>2, <1>5 DEF Recent
  <2> QED
    BY <1>1, <1>2, <1>3, <1>5, <2>1, <2>2 DEF Recent, b
<1> QED
  BY <1>4, <1>5

(* A nonce the cache does not hold is not among the last CacheCap accepted.   *)
LEMMA FreshIsSpaced ==
    ASSUME NEW c \in Seq(Nonces), NEW a \in Seq(Nonces), NEW n \in Nonces,
           Recent(c, a), Spaced(a), ~Contains(c, n)
    PROVE  Spaced(Append(a, n))
<1> DEFINE b == Append(a, n)
<1>1. /\ Len(a) \in Nat /\ Len(b) = Len(a) + 1 /\ b[Len(a) + 1] = n
      /\ \A i \in 1..Len(a) : b[i] = a[i]
  OBVIOUS
<1> SUFFICES ASSUME NEW i \in 1..Len(b), NEW j \in 1..Len(b), i < j, j - i <= CacheCap
             PROVE  b[i] # b[j]
  BY DEF Spaced
<1> HIDE DEF b
<1>2. i \in 1..Len(a) /\ b[i] = a[i]
  BY <1>1
<1>3. CASE j \in 1..Len(a)
  BY <1>1, <1>2, <1>3 DEF Spaced
<1>4. CASE j = Len(a) + 1
  <2>1. i > Len(a) - Len(c) /\ Len(c) \in Nat
    BY <1>1, <1>2, <1>4 DEF Recent
  <2>2. i - (Len(a) - Len(c)) \in 1..Len(c)
    BY <1>1, <1>2, <2>1 DEF Recent
  <2>3. c[i - (Len(a) - Len(c))] = a[i]
    BY <1>1, <1>2, <2>1, <2>2 DEF Recent
  <2> QED
    BY <1>1, <1>2, <1>4, <2>2, <2>3 DEF Contains
<1>5. j \in 1..Len(a) \/ j = Len(a) + 1
  BY <1>1
<1> QED
  BY <1>3, <1>4, <1>5

LEMMA NextCache ==
    ASSUME TypeOK, TxInv, CacheInv, SingleUse, [Next]_vars
    PROVE  CacheInv' /\ SingleUse'
<1> SUFFICES \A h \in Gens : Recent(cache'[h], granted'[h]) /\ Spaced(granted'[h])
  BY DEF CacheInv, SingleUse, Recent, Spaced
<1>1. CASE UNCHANGED <<cache, granted>>
  BY <1>1, RecentEntries, SpacedEntries
<1>2. ASSUME NEW r \in Requests, JudgeOk(r)
      PROVE  \A h \in Gens : Recent(cache'[h], granted'[h]) /\ Spaced(granted'[h])
  <2> DEFINE g == txGen[r]
             n == txNonce[r]
  <2>1. g \in Gens /\ n \in Nonces
    BY <1>2 DEF JudgeOk, TxInv, TxOK, InFlight
  <2>2. cache \in [Gens -> Seq(Nonces)] /\ granted \in [Gens -> Seq(Nonces)]
    BY DEF TypeOK, OrchestratorTypeOK, EntryTypeOK
  <2>3. /\ cache' = [cache EXCEPT ![g] = Insert(cache[g], n)]
        /\ granted' = [granted EXCEPT ![g] = Append(granted[g], n)]
        /\ ~Contains(cache[g], n)
    BY <1>2 DEF JudgeOk
  <2>4. Recent(Insert(cache[g], n), Append(granted[g], n))
    BY <2>1, <2>2, RecentEntries, InsertKeepsRecent
  <2>5. Spaced(Append(granted[g], n))
    BY <2>1, <2>2, <2>3, RecentEntries, SpacedEntries, FreshIsSpaced
  <2>6. \A h \in Gens : Recent(cache'[h], granted'[h])
    BY <2>1, <2>2, <2>3, <2>4, RecentEntries
  <2>7. \A h \in Gens : Spaced(granted'[h])
    BY <2>1, <2>2, <2>3, <2>5, SpacedEntries
  <2> QED
    BY <2>6, <2>7
<1> QED
  BY <1>1, <1>2, EntryFrame

-----------------------------------------------------------------------------
(* Reloads.                                                                   *)

(* The advertisement changes when a reload ends or the minute ticks, the keys *)
(* of the entries when a reload records a peer.                               *)
LEMMA AdvFrame ==
    ASSUME [Next]_vars, ~ReloadStep, ~TakeReload
    PROVE  UNCHANGED ekey /\ (UNCHANGED adv \/ Tick)
<1>1. ASSUME NEW r \in Requests, SendStep(r)
      PROVE  UNCHANGED <<ekey, adv>>
  BY <1>1 DEF SendStep, SendDelivered, ChallengeSend, entryVars
<1>2. ASSUME NEW r \in Requests, NEW p \in Peers, TxBegin(r, p)
      PROVE  UNCHANGED <<ekey, adv>>
  BY <1>2 DEF TxBegin, LookupUnknown, LookupPeer, entryVars
<1>3. CASE OtherStep
  BY <1>3, LinkStepFrame, WriterStepFrame
  DEF OtherStep, Tick, MinuteTick, TakeReloadSkipped, InotifyReload, OperatorReload,
      PhoneApprove, PhoneDeny, PairOverAir, CliRevoke, CliPair, vars, orchVars, entryVars
<1> QED
  BY <1>1, <1>2, <1>3, TxStepFrame, StepKinds

LEMMA NextAdvertises ==
    ASSUME AdvertisesLive, [Next]_vars
    PROVE  AdvertisesLive'
<1>1. CASE ~ReloadStep /\ ~TakeReload /\ ~Tick
  BY <1>1, AdvFrame, MapFrame DEF AdvertisesLive, LiveKeys, LivePeers, reloadVars
<1>2. CASE TakeReload
  BY <1>2 DEF TakeReload, ReloadBegin, AdvertisesLive
<1>3. CASE ReloadFinish \/ Tick
  <2>1. UNCHANGED <<live, ekey>> /\ Rotate
    BY <1>3 DEF ReloadFinish, Tick, MinuteTick, entryVars
  <2>2. LiveKeys' = LiveKeys
    BY <2>1 DEF LiveKeys, LivePeers
  <2> QED
    BY <2>1, <2>2 DEF Rotate, AdvertisesLive
<1>4. CASE ReloadStep /\ ~ReloadFinish
  <2>1. rpc # "idle" /\ rpc' # "idle"
    BY <1>4 DEF ReloadStep, ReloadRemove, ReloadAdd, ReloadForget, ReloadRemoved,
       ReloadRegisterFails, ReloadRegister, ReloadInsert, ReloadRecord
  <2> QED
    BY <2>1 DEF AdvertisesLive
<1> QED
  BY <1>1, <1>2, <1>3, <1>4

LEMMA NextApp ==
    ASSUME TypeOK, ReloadInv, AppInv, [Next]_vars
    PROVE  AppInv'
<1> USE DEF TypeOK, PeripheralTypeOK, AppInv
<1>1. CASE ~ReloadStep /\ ~TakeReload
  BY <1>1, MapFrame DEF reloadVars
<1>2. CASE TakeReload
  BY <1>2 DEF TakeReload, ReloadBegin, perVars
<1>3. ASSUME NEW p \in Peers, ReloadRemove(p) \/ ReloadAdd(p) PROVE AppInv'
  BY <1>3 DEF ReloadRemove, ReloadAdd, RemovePeerUnknown, RemovePeer, AddPeerDuplicate,
     AddPeerBegin, DropApplication, perVars
<1>4. CASE ReloadRegister
  BY <1>4 DEF ReloadRegister
<1>5. CASE ReloadInsert
  <2>1. rcur \in Peers /\ chars' = [chars EXCEPT ![rcur] = appGen] /\ appGen' = appGen
    BY <1>5 DEF ReloadInsert, AddPeerInsert, ReloadInv
  <2> QED
    BY <2>1
<1>6. CASE ReloadForget \/ ReloadRemoved \/ ReloadRegisterFails \/ ReloadRecord \/ ReloadFinish
  BY <1>6 DEF ReloadForget, ReloadRemoved, ReloadRegisterFails, RegisterPeerFails,
     ReloadRecord, ReloadFinish, perVars
<1> QED
  BY <1>1, <1>2, <1>3, <1>4, <1>5, <1>6 DEF ReloadStep

(* A change of bonds.toml leaves an event for the watcher, and a command is   *)
(* used up by a reload or by one that fails to load the file.                 *)
LEMMA TriggerFrame ==
    ASSUME TypeOK, [Next]_vars, ~TakeReload, ~TakeReloadSkipped
    PROVE  /\ synced' = synced
           /\ ~dirty' /\ queue' = 0 => ~dirty /\ queue = 0 /\ bonds' = bonds
<1> USE DEF TypeOK, EnvTypeOK, TriggerTypeOK
<1>1. CASE UNCHANGED envVars
  BY <1>1 DEF envVars, triggerVars, diskVars
<1>2. ASSUME NEW r \in Requests, SendStep(r)
      PROVE  UNCHANGED <<diskVars, triggerVars>>
  BY <1>2 DEF SendStep, SendDelivered
<1>3. CASE InotifyReload \/ OperatorReload
  BY <1>3 DEF InotifyReload, OperatorReload
<1>4. ASSUME NEW p \in Peers, NEW n \in Nonces, PhoneApprove(p, n) \/ PhoneDeny(p, n)
      PROVE  UNCHANGED <<diskVars, triggerVars>>
  BY <1>4 DEF PhoneApprove, PhoneDeny
<1>5. ASSUME NEW p \in Peers, PairOverAir(p) \/ CliRevoke(p) \/ (\E k \in Keys : CliPair(p, k))
      PROVE  /\ synced' = synced
             /\ ~dirty' /\ queue' = 0 => ~dirty /\ queue = 0 /\ bonds' = bonds
  BY <1>5 DEF PairOverAir, CliRevoke, CliPair, triggerVars
<1>6. ASSUME WriterStep
      PROVE  /\ synced' = synced
             /\ ~dirty' /\ queue' = 0 => ~dirty /\ queue = 0 /\ bonds' = bonds
  BY <1>6 DEF WriterStep, ConsumerKey, ConsumerRecord, ConsumerSignal, ConsumerFails,
     CliWriteKey, CliWriteKeyFails, triggerVars
<1> QED
  BY <1>1, <1>2, <1>3, <1>4, <1>5, <1>6
  DEF Next, TxStep, TxBegin, ReloadStep, Tick, LinkStep, vars, envVars, diskVars, triggerVars

LEMMA NextSync ==
    ASSUME TypeOK, ReloadInv, MapsAgree, SyncInv, [Next]_vars
    PROVE  SyncInv'
<1> USE DEF TypeOK, PeripheralTypeOK, OrchestratorTypeOK, EntryTypeOK, ReloadTypeOK
<1>1. CASE ~ReloadStep /\ ~TakeReload /\ ~TakeReloadSkipped
  <2>1. UNCHANGED <<live, rpc, rcur, rnew, rdel, radd>>
    BY <1>1, MapFrame DEF reloadVars
  <2>2. /\ synced' = synced
        /\ ~dirty' /\ queue' = 0 => ~dirty /\ queue = 0 /\ bonds' = bonds
    BY <1>1, TriggerFrame
  <2> QED
    BY <2>1, <2>2 DEF SyncInv
<1>2. CASE TakeReloadSkipped
  BY <1>2 DEF TakeReloadSkipped, SyncInv, orchVars, reloadVars, entryVars
<1>3. CASE TakeReload
  <2>1. /\ rnew' = NewSet /\ rpc' = "remove" /\ UNCHANGED <<live, bonds>>
        /\ rdel' = {p \in Peers : live[p] # 0 /\ NewSet[p] = None}
        /\ radd' = {p \in Peers : live[p] = 0 /\ NewSet[p] # None}
    BY <1>3 DEF TakeReload, ReloadBegin, entryVars, diskVars
  <2>2. \A p \in Peers : NewSet[p] # None => bonds[p] = "bonded"
    BY DEF NewSet
  <2> QED
    BY <2>1, <2>2 DEF SyncInv
<1>4. CASE ReloadStep
  <2>0. UNCHANGED <<synced, dirty, queue, bonds, rnew>>
    BY <1>4 DEF ReloadStep, ReloadRemove, ReloadAdd, ReloadForget, ReloadRemoved,
       ReloadRegisterFails, ReloadRegister, ReloadInsert, ReloadRecord, ReloadFinish,
       envVars, triggerVars, diskVars
  <2>1. ASSUME NEW p \in Peers, ReloadRemove(p) PROVE SyncInv'
    <3>1. /\ rpc = "remove" /\ rdel' = rdel \ {p} /\ rcur = None
          /\ UNCHANGED <<live, radd>>
      BY <2>1 DEF ReloadRemove, entryVars, ReloadInv
    <3>2. live[p] = chars[p]
      BY <3>1 DEF MapsAgree
    <3>3. CASE chars[p] = 0
      BY <2>0, <2>1, <3>1, <3>2, <3>3 DEF ReloadRemove, SyncInv
    <3>4. CASE chars[p] # 0
      <4>1. rcur' = p /\ rpc' = "forget"
        BY <2>1, <3>4 DEF ReloadRemove
      <4> QED
        BY <2>0, <3>1, <4>1 DEF SyncInv
    <3> QED
      BY <3>3, <3>4
  <2>2. ASSUME NEW p \in Peers, ReloadAdd(p) PROVE SyncInv'
    BY <2>0, <2>2 DEF ReloadAdd, SyncInv, entryVars
  <2>3. CASE ReloadForget
    BY <2>0, <2>3 DEF ReloadForget, SyncInv, ReloadInv
  <2>4. CASE ReloadRemoved \/ ReloadFinish \/ ReloadRegisterFails \/ ReloadRegister \/ ReloadInsert
    BY <2>0, <2>4 DEF ReloadRemoved, ReloadFinish, ReloadRegisterFails, ReloadRegister,
       ReloadInsert, SyncInv, ReloadInv, entryVars
  <2>5. CASE ReloadRecord
    BY <2>0, <2>5 DEF ReloadRecord, SyncInv, ReloadInv
  <2> QED
    BY <1>4, <2>1, <2>2, <2>3, <2>4, <2>5 DEF ReloadStep
<1> QED
  BY <1>1, <1>2, <1>3, <1>4

-----------------------------------------------------------------------------
(* A permit is out only with its transaction, which still has to return.      *)
LEMMA NextPermits ==
    ASSUME TypeOK, PermitInv, [Next]_vars
    PROVE  PermitInv'
<1> DEFINE Out == {"notify", "send", "wait", "recv", "judge", "return"}
<1>a. /\ slot \in [Gens -> Requests \cup {None}] /\ pc \in [Requests -> TxPCs]
      /\ txGen \in [Requests -> 0..MaxGen] /\ None \notin Requests
  BY PeripheralAssumption
  DEF TypeOK, OrchestratorTypeOK, TxTypeOK, EntryTypeOK, PeripheralAssumption
<1>b. ASSUME NEW g \in Gens, slot[g] # None
      PROVE  slot[g] \in Requests /\ txGen[slot[g]] = g /\ pc[slot[g]] \in Out
  <2>1. slot[g] \in Requests
    BY <1>a, <1>b
  <2> QED
    BY <1>b, <2>1 DEF PermitInv
<1>c. SUFFICES ASSUME NEW g \in Gens, slot'[g] # None
               PROVE  txGen'[slot'[g]] = g /\ pc'[slot'[g]] \in Out
  BY DEF PermitInv
<1>d. ASSUME NEW s \in Requests, slot'[g] = slot[g], UNCHANGED txGen,
             NEW c \in Out, pc' = [pc EXCEPT ![s] = c]
      PROVE  txGen'[slot'[g]] = g /\ pc'[slot'[g]] \in Out
  <2>1. slot[g] \in Requests /\ txGen[slot[g]] = g /\ pc[slot[g]] \in Out
    BY <1>b, <1>c, <1>d
  <2> QED
    BY <1>a, <1>d, <2>1
<1>1. ASSUME NEW r \in Requests, NEW p \in Peers, TxBegin(r, p)
      PROVE  txGen'[slot'[g]] = g /\ pc'[slot'[g]] \in Out
  <2>1. /\ slot' = slot /\ pc[r] = "idle"
        /\ \A s \in Requests : s # r => pc'[s] = pc[s] /\ txGen'[s] = txGen[s]
    BY <1>a, <1>1 DEF TxBegin, LookupUnknown, LookupPeer, Conclude, entryVars
  <2>2. slot[g] \in Requests /\ txGen[slot[g]] = g /\ pc[slot[g]] \in Out
    BY <1>b, <1>c, <2>1
  <2>3. slot[g] # r
    BY <2>1, <2>2
  <2> QED
    BY <2>1, <2>2, <2>3
<1>2. ASSUME NEW r \in Requests, SendStep(r)
      PROVE  txGen'[slot'[g]] = g /\ pc'[slot'[g]] \in Out
  <2>1. UNCHANGED <<slot, txGen>> /\ pc' = [pc EXCEPT ![r] = "wait"]
    BY <1>2 DEF SendStep, SendDelivered, ChallengeSend, captured, entryVars
  <2> QED
    BY <1>d, <2>1
<1>3. ASSUME OtherStep PROVE txGen'[slot'[g]] = g /\ pc'[slot'[g]] \in Out
  <2>1. UNCHANGED <<slot, txGen, pc>>
    BY <1>3, OtherStepFrame DEF txVars, captured
  <2> QED
    BY <1>b, <1>c, <2>1
<1>4. ASSUME NEW r \in Requests, TxStep(r)
      PROVE  txGen'[slot'[g]] = g /\ pc'[slot'[g]] \in Out
  <2>0. UNCHANGED txGen
    BY <1>4 DEF TxStep, AcquireSlot, AcquireSlotNoNonce, SlotBusy, ChallengeUnknown,
       ChallengeDrain, ChallengeSendFails, AwaitUnknown, AwaitResponse, AwaitTimeout,
       ReceiveResponse, JudgeBad, JudgeReplay, JudgeOk, Judge, Return, captured
  <2>1. ASSUME NEW c \in Out, slot' = [slot EXCEPT ![txGen[r]] = r],
               pc' = [pc EXCEPT ![r] = c]
        PROVE  txGen'[slot'[g]] = g /\ pc'[slot'[g]] \in Out
    <3>1. CASE txGen[r] = g
      <4>1. slot'[g] = r /\ pc'[r] = c
        BY <1>a, <2>1, <3>1
      <4> QED
        BY <2>0, <3>1, <4>1
    <3>2. CASE txGen[r] # g
      <4>1. slot'[g] = slot[g]
        BY <1>a, <2>1, <3>2
      <4> QED
        BY <1>d, <2>0, <2>1, <4>1
    <3> QED
      BY <3>1, <3>2
  <2>2. ASSUME \/ \E n \in Nonces : AcquireSlot(r, n)
               \/ AcquireSlotNoNonce(r)
        PROVE  /\ slot' = [slot EXCEPT ![txGen[r]] = r]
               /\ \E c \in Out : pc' = [pc EXCEPT ![r] = c]
    BY <2>2 DEF AcquireSlot, AcquireSlotNoNonce, Conclude
  <2>3. ASSUME \/ SlotBusy(r) \/ ChallengeUnknown(r) \/ ChallengeDrain(r)
               \/ ChallengeSendFails(r) \/ AwaitUnknown(r) \/ AwaitResponse(r)
               \/ AwaitTimeout(r) \/ ReceiveResponse(r) \/ JudgeBad(r) \/ JudgeReplay(r) \/ JudgeOk(r)
        PROVE  slot' = slot /\ \E c \in Out : pc' = [pc EXCEPT ![r] = c]
    BY <2>3
    DEF SlotBusy, ChallengeUnknown, ChallengeDrain, ChallengeSendFails, AwaitUnknown,
        AwaitResponse, AwaitTimeout, ReceiveResponse, JudgeBad, JudgeReplay, JudgeOk, Judge, Conclude, entryVars
  <2>4. ASSUME Return(r) PROVE txGen'[slot'[g]] = g /\ pc'[slot'[g]] \in Out
    <3>1. /\ pc' = [pc EXCEPT ![r] = "done"]
          /\ slot' = IF HasPermit(r) THEN [slot EXCEPT ![txGen[r]] = None] ELSE slot
      BY <2>4 DEF Return
    <3>2. slot'[g] = slot[g]
      BY <1>a, <1>c, <3>1
    <3>3. slot[g] \in Requests /\ txGen[slot[g]] = g /\ pc[slot[g]] \in Out
      BY <1>b, <1>c, <3>2
    <3>4. slot[g] # r
      <4>1. SUFFICES ASSUME slot[g] = r PROVE FALSE
        OBVIOUS
      <4>2. txGen[r] = g /\ g # 0
        BY <3>3, <4>1 DEF Gens
      <4>3. HasPermit(r)
        BY <4>1, <4>2 DEF HasPermit
      <4>4. slot'[g] = None
        BY <1>a, <3>1, <4>2, <4>3
      <4> QED
        BY <1>c, <4>4
    <3> QED
      BY <1>a, <2>0, <3>1, <3>2, <3>3, <3>4
  <2>5. CASE \/ \E n \in Nonces : AcquireSlot(r, n)
             \/ AcquireSlotNoNonce(r)
    BY <2>1, <2>2, <2>5
  <2>6. CASE \/ SlotBusy(r) \/ ChallengeUnknown(r) \/ ChallengeDrain(r)
             \/ ChallengeSendFails(r) \/ AwaitUnknown(r) \/ AwaitResponse(r)
             \/ AwaitTimeout(r) \/ ReceiveResponse(r) \/ JudgeBad(r) \/ JudgeReplay(r) \/ JudgeOk(r)
    <3>1. slot' = slot /\ \E c \in Out : pc' = [pc EXCEPT ![r] = c]
      BY <2>3, <2>6
    <3> QED
      BY <1>d, <2>0, <3>1
  <2> QED
    BY <1>4, <2>4, <2>5, <2>6 DEF TxStep
<1> QED
  BY <1>1, <1>2, <1>3, <1>4, StepKinds

-----------------------------------------------------------------------------
(* The inductive invariant.                                                   *)

LEMMA InitIInv == Init => IInv
<1> SUFFICES ASSUME Init PROVE IInv
  OBVIOUS
<1>1. CoreInv
  BY InitCoreInv
<1>2. PICK seed \in SUBSET Peers, key \in Keys \cup {None} :
        PeripheralNew(seed) /\ OrchestratorNew(seed, key)
  BY DEF Init
<1>3. AuditedOnce /\ LoggedInv /\ AdvertisesLive
  BY <1>2 DEF OrchestratorNew, AuditedOnce, LoggedInv, AdvertisesLive
<1>4. CacheInv /\ SingleUse
  BY <1>2 DEF OrchestratorNew, CacheInv, SingleUse
<1>5. AppInv
  BY <1>2 DEF PeripheralNew, AppInv
<1>6. SyncInv
  BY <1>2 DEF Init, OrchestratorNew, SyncInv
<1>7. PermitInv
  BY <1>2 DEF OrchestratorNew, PermitInv
<1> QED
  BY <1>1, <1>3, <1>4, <1>5, <1>6, <1>7 DEF IInv

(* Init establishes IInv and every step keeps it.                             *)
THEOREM Inductive == Spec => []IInv
<1>1. ASSUME CoreInv, IInv, [Next]_vars, CoreInv' PROVE IInv'
  BY <1>1, NextAudited, NextCache, NextApp, NextSync, NextAdvertises, NextPermits
     DEF IInv, CoreInv
<1> QED
  BY <1>1, InitIInv, CoreInductive, PTL DEF Spec

(* Whichever path issue_challenge takes, it leaves one audit line, with its   *)
(* own nonce and the outcome it returns, or none if that append failed.       *)
THEOREM OneAuditLine == Spec => []AuditedOnce
<1>1. IInv => AuditedOnce
  BY DEF IInv
<1> QED
  BY <1>1, Inductive, PTL

(* No nonce is accepted twice within CacheCap acceptances of one entry.       *)
THEOREM NoncesAreSingleUse == Spec => []SingleUse
<1>1. IInv => SingleUse
  BY DEF IInv
<1> QED
  BY <1>1, Inductive, PTL

(* Between reloads an advertisement names exactly the live peers.             *)
THEOREM AdvertisementIsCurrent == Spec => []AdvertisesLive
<1>1. IInv => AdvertisesLive
  BY DEF IInv
<1> QED
  BY <1>1, Inductive, PTL

(* Between reloads the registered application belongs to a mapped peer.       *)
THEOREM ApplicationIsMapped == Spec => []ServesOnlyMapped
<1>1. IInv => ServesOnlyMapped
  BY DEF IInv, AppInv, ServesOnlyMapped
<1> QED
  BY <1>1, Inductive, PTL

(* Once nothing is under way, a revoked bond is not in the live set.          *)
THEOREM RevocationsHold == Spec => []RevokedNotLive
<1>1. IInv => RevokedNotLive
  BY DEF IInv, SyncInv, RevokedNotLive, Quiet
<1> QED
  BY <1>1, Inductive, PTL

-----------------------------------------------------------------------------
(* Why transactions and reloads end.                                          *)

(* The stage of one transaction only grows.                                   *)
LEMMA StageGrows ==
    ASSUME TypeOK, [Next]_vars, NEW s \in Requests, pc'[s] # pc[s]
    PROVE  Stage[pc[s]] < Stage[pc'[s]]
<1> USE DEF TypeOK, OrchestratorTypeOK, TxTypeOK, Stage
<1>1. ASSUME NEW r \in Requests, NEW p \in Peers, TxBegin(r, p)
      PROVE  pc[r] = "idle" /\ \E c \in {"queue", "return"} : pc' = [pc EXCEPT ![r] = c]
  BY <1>1 DEF TxBegin, LookupUnknown, LookupPeer, Conclude
<1>2. ASSUME NEW r \in Requests, SendStep(r)
      PROVE  pc[r] = "send" /\ pc' = [pc EXCEPT ![r] = "wait"]
  BY <1>2 DEF SendStep, SendDelivered, ChallengeSend
<1>3. ASSUME NEW r \in Requests, TxStep(r)
      PROVE  \/ pc[r] = "queue" /\ pc' = [pc EXCEPT ![r] = "notify"]
             \/ pc[r] = "notify" /\ pc' = [pc EXCEPT ![r] = "send"]
             \/ pc[r] = "wait" /\ pc' = [pc EXCEPT ![r] = "recv"]
             \/ pc[r] = "recv" /\ pc' = [pc EXCEPT ![r] = "judge"]
             \/ pc[r] = "return" /\ pc' = [pc EXCEPT ![r] = "done"]
             \/ /\ pc[r] \in {"queue", "notify", "send", "wait", "recv", "judge"}
                /\ pc' = [pc EXCEPT ![r] = "return"]
  BY <1>3 DEF TxStep, AcquireSlot, AcquireSlotNoNonce, SlotBusy, ChallengeUnknown,
     ChallengeDrain, ChallengeSendFails, AwaitUnknown, AwaitResponse, AwaitTimeout,
     ReceiveResponse, JudgeBad, JudgeReplay, JudgeOk, Judge, Return, Conclude
<1>4. OtherStep => pc' = pc
  BY OtherStepFrame DEF txVars
<1>5. ASSUME NEW r \in Requests, NEW c, pc' = [pc EXCEPT ![r] = c]
      PROVE  s = r /\ pc'[s] = c
  BY <1>5
<1> QED
  <2>1. ASSUME NEW r \in Requests, NEW p \in Peers, TxBegin(r, p)
        PROVE  Stage[pc[s]] < Stage[pc'[s]]
    <3>1. PICK c \in {"queue", "return"} : pc[r] = "idle" /\ pc' = [pc EXCEPT ![r] = c]
      BY <1>1, <2>1
    <3>2. pc[s] = "idle" /\ pc'[s] \in {"queue", "return"}
      BY <1>5, <3>1
    <3> QED
      BY <3>2
  <2>2. CASE \E r \in Requests : SendStep(r)
    BY <1>2, <1>5, <2>2
  <2>3. ASSUME NEW r \in Requests, TxStep(r) PROVE Stage[pc[s]] < Stage[pc'[s]]
    <3>1. s = r
      BY <1>3, <1>5, <2>3
    <3>2. \/ pc[s] = "queue" /\ pc'[s] = "notify"
          \/ pc[s] = "notify" /\ pc'[s] = "send"
          \/ pc[s] = "wait" /\ pc'[s] = "recv"
          \/ pc[s] = "recv" /\ pc'[s] = "judge"
          \/ pc[s] = "return" /\ pc'[s] = "done"
          \/ pc[s] \in {"queue", "notify", "send", "wait", "recv", "judge"} /\ pc'[s] = "return"
      BY <1>3, <2>3, <3>1
    <3> QED
      BY <3>2
  <2> QED
    BY <1>4, <2>1, <2>2, <2>3, StepKinds

(* issue_challenge never goes back to an earlier step.                        *)
THEOREM TransactionsGoForward == Spec => TxForward
<1>1. ASSUME TypeOK, [Next]_vars
      PROVE  [\A r \in Requests : pc'[r] # pc[r] => Stage[pc[r]] < Stage[pc'[r]]]_vars
  BY <1>1, StageGrows
<1> QED
  BY <1>1, TypeCorrect, PTL DEF Spec, TxForward

(* Waiting for a permit or for the peripheral's mutex ends in a transaction   *)
(* that waits for nobody, with any number of transactions and reloads.        *)
THEOREM WaitsHaveAnEnd == Spec => []NoCircularWait
<1>1. ASSUME IInv PROVE NoCircularWait
  <2> USE PeripheralAssumption DEF PeripheralAssumption
  <2>1. TypeOK /\ TxInv /\ LockInv /\ PermitInv
    BY <1>1 DEF IInv, CoreInv
  <2>2. /\ slot \in [Gens -> Requests \cup {None}] /\ peersLock \in Requests \cup {None}
        /\ pc \in [Requests -> TxPCs]
    BY <2>1 DEF TypeOK, OrchestratorTypeOK, EntryTypeOK, TxTypeOK, PeripheralTypeOK
  <2>3. \A r \in Requests : pc[r] = "queue" => txGen[r] \in Gens
    BY <2>1 DEF TxInv, TxOK
  <2>4. ASSUME NEW r \in Requests, NEW s \in Requests, WaitsFor(r, s)
        PROVE  Stage[pc[r]] < Stage[pc[s]] /\ pc[s] # "done"
    <3>1. CASE pc[r] = "queue" /\ slot[txGen[r]] = s
      <4>1. pc[s] \in {"notify", "send", "wait", "recv", "judge", "return"}
        BY <2>1, <2>3, <3>1 DEF PermitInv
      <4> QED
        BY <3>1, <4>1 DEF Stage
    <3>2. CASE pc[r] \in {"notify", "wait"} /\ peersLock = s
      <4>1. pc[s] = "recv"
        BY <2>1, <3>2 DEF LockInv
      <4> QED
        BY <3>2, <4>1 DEF Stage
    <3> QED
      BY <2>4, <3>1, <3>2 DEF WaitsFor
  <2>5. ASSUME peersLock # None
        PROVE  pc[peersLock] = "recv" /\ \A s \in Requests : ~WaitsFor(peersLock, s)
    <3>1. pc[peersLock] = "recv"
      BY <2>1, <2>2, <2>5 DEF LockInv
    <3> QED
      BY <3>1 DEF WaitsFor
  <2> QED
    BY <2>2, <2>3, <2>4, <2>5 DEF NoCircularWait
<1> QED
  BY <1>1, Inductive, PTL

(* Each step of a reload leaves it less to do, for any number of peers.       *)
THEOREM ReloadsGoForward == Spec => ReloadForward
<1> DEFINE Less == rdel' \cup radd' \subseteq rdel \cup radd /\ rdel' \cup radd' # rdel \cup radd
           Later == UNCHANGED <<rdel, radd>> /\ ReloadStage[rpc] < ReloadStage[rpc']
<1>1. ASSUME ReloadInv, [Next]_vars, rpc # "idle"
      PROVE  UNCHANGED reloadVars \/ Less \/ Later
  <2>1. CASE ~ReloadStep /\ ~TakeReload
    BY <1>1, <2>1, MapFrame
  <2>2. CASE TakeReload
    BY <1>1, <2>2 DEF TakeReload, ReloadBegin
  <2>3. CASE ReloadStep
    <3>1. ASSUME NEW p \in Peers, ReloadRemove(p) PROVE Less
      <4>1. p \in rdel /\ p \notin radd /\ rdel' = rdel \ {p} /\ radd' = radd
        BY <1>1, <3>1 DEF ReloadRemove, ReloadInv
      <4> QED
        BY <4>1
    <3>2. ASSUME NEW p \in Peers, ReloadAdd(p) PROVE Less
      <4>1. p \in radd /\ p \notin rdel /\ radd' = radd \ {p} /\ rdel' = rdel
        BY <1>1, <3>2 DEF ReloadAdd, ReloadInv
      <4> QED
        BY <4>1
    <3>3. ASSUME \/ ReloadForget \/ ReloadRemoved \/ ReloadRegisterFails \/ ReloadRegister
                 \/ ReloadInsert \/ ReloadRecord \/ ReloadFinish
          PROVE  Later
      BY <3>3 DEF ReloadForget, ReloadRemoved, ReloadRegisterFails, ReloadRegister,
         ReloadInsert, ReloadRecord, ReloadFinish, ReloadStage
    <3> QED
      BY <2>3, <3>1, <3>2, <3>3 DEF ReloadStep
  <2> QED
    BY <2>1, <2>2, <2>3
<1>2. ASSUME CoreInv, [Next]_vars
      PROVE  [rpc # "idle" => UNCHANGED reloadVars \/ Less \/ Later]_vars
  BY <1>1, <1>2 DEF CoreInv
<1> QED
  BY <1>2, CoreInductive, PTL DEF Spec, ReloadForward
=============================================================================

--------------------------- MODULE PresencedProofs ---------------------------
(* Theorems about Presenced, for every set of peers, requests, nonces and     *)
(* keys and every value of the bounds.                                        *)
EXTENDS Presenced, TLAPS

USE PeripheralAssumption, OrchestratorAssumption, PresencedAssumption
DEF Gens, PeripheralAssumption, OrchestratorAssumption, PresencedAssumption

(* Frame lemmas: what the groups of steps leave alone.                        *)

LEMMA ReloadStepFrame ==
    ReloadStep => UNCHANGED <<cache, slot, granted, txVars, peersLock, envVars>>
BY DEF ReloadStep, ReloadRemove, ReloadAdd, ReloadForget, ReloadRemoved,
       ReloadRegisterFails, ReloadRegister, ReloadInsert, ReloadRecord,
       ReloadFinish, RemovePeerUnknown, RemovePeer, AddPeerDuplicate,
       AddPeerBegin, RegisterPeerFails, RegisterPeer, AddPeerInsert,
       perVars, entryVars, txVars

LEMMA LinkStepFrame ==
    LinkStep => UNCHANGED <<orchVars, envVars, chars, peersLock, appPair, appGen, nextGen>>
BY DEF LinkStep, Subscribe, SessionClosed, ResponseForward

LEMMA WriterStepFrame ==
    WriterStep => UNCHANGED <<perVars, orchVars, phoneVars, edits, synced>>
BY DEF WriterStep, ConsumerKey, ConsumerRecord, ConsumerSignal, ConsumerFails,
       CliWriteKey, CliWriteKeyFails, triggerVars

LEMMA TxStepFrame ==
    ASSUME NEW r \in Requests, TxStep(r)
    PROVE  UNCHANGED <<chars, appPair, appGen, air, nextGen, live, ekey, adv, reloadVars, envVars>>
BY DEF TxStep, AcquireSlot, AcquireSlotNoNonce, SlotBusy, ChallengeUnknown,
       ChallengeDrain, ChallengeSendFails, AwaitUnknown, AwaitResponse,
       AwaitTimeout, ReceiveResponse, JudgeBad, JudgeReplay, JudgeOk, Judge, Return,
       NotifyUnknown, NotifyDrain, SessionSendFails, WaitUnknown, WaitBegin,
       WaitReceive, WaitTimeout, perVars, entryVars

(* A component whose variables do not change keeps its type.                  *)
LEMMA PerSame == PeripheralTypeOK /\ UNCHANGED perVars => PeripheralTypeOK'
BY DEF PeripheralTypeOK, perVars

LEMMA EntrySame == EntryTypeOK /\ UNCHANGED entryVars => EntryTypeOK'
BY DEF EntryTypeOK, entryVars

LEMMA TxSame == TxTypeOK /\ UNCHANGED txVars => TxTypeOK'
BY DEF TxTypeOK, txVars, captured, auditVars

LEMMA ReloadSame == ReloadTypeOK /\ UNCHANGED <<adv, reloadVars>> => ReloadTypeOK'
BY DEF ReloadTypeOK, reloadVars

LEMMA EnvSame == EnvTypeOK /\ UNCHANGED envVars => EnvTypeOK'
BY DEF EnvTypeOK, DiskTypeOK, TriggerTypeOK, PhoneTypeOK,
       envVars, diskVars, triggerVars, phoneVars

-----------------------------------------------------------------------------
(* Type correctness, component by component.                                  *)

LEMMA EmptyResponses == <<>> \in Seq(Response)
OBVIOUS

(* Adding and removing a peer's characteristic set.                           *)
LEMMA RegistryTypes ==
    ASSUME PeripheralTypeOK, NEW p \in Peers,
           AddPeerBegin(p) \/ RegisterPeer \/ AddPeerInsert(p) \/ RemovePeer(p)
    PROVE  PeripheralTypeOK'
<1> USE DEF PeripheralTypeOK
<1>1. CASE AddPeerBegin(p)
  BY <1>1, EmptyResponses DEF AddPeerBegin, DropApplication
<1>2. CASE RegisterPeer
  <2>1. (appPair \in BOOLEAN /\ sub \in BOOLEAN)'
    BY <1>2 DEF RegisterPeer
  <2> QED
    BY <1>2, <2>1, EmptyResponses DEF RegisterPeer
<1>3. CASE AddPeerInsert(p)
  BY <1>3 DEF AddPeerInsert
<1>4. CASE RemovePeer(p)
  <2> USE <1>4 DEF RemovePeer, DropApplication
  <2>1. (appPair \in BOOLEAN /\ sub \in BOOLEAN)'
    OBVIOUS
  <2>2. (appGen \in 0..MaxGen)'
    OBVIOUS
  <2>3. (rx \in [Gens -> Seq(Response)])'
    BY EmptyResponses
  <2> QED
    BY <2>1, <2>2, <2>3, EmptyResponses
<1> QED
  BY <1>1, <1>2, <1>3, <1>4

(* notify_challenge and wait_for_response.                                    *)
LEMMA ExchangeTypes ==
    ASSUME PeripheralTypeOK, NEW p \in Peers, NEW r \in Requests, NEW g \in 0..MaxGen,
           \/ NotifyDrain(p) \/ SessionSendFails(g)
           \/ WaitBegin(r, p) \/ WaitReceive(r, g) \/ WaitTimeout(r, g)
    PROVE  PeripheralTypeOK'
<1> USE DEF PeripheralTypeOK
<1>1. CASE NotifyDrain(p)
  BY <1>1, EmptyResponses DEF NotifyDrain
<1>2. CASE SessionSendFails(g)
  <2>1. (sub \in BOOLEAN)'
    BY <1>2 DEF SessionSendFails
  <2>2. UNCHANGED <<chars, peersLock, appPair, appGen, rx, air, nextGen>>
    BY <1>2 DEF SessionSendFails
  <2> QED
    BY <2>1, <2>2
<1>3. CASE WaitBegin(r, p)
  BY <1>3 DEF WaitBegin
<1>4. CASE WaitReceive(r, g)
  <2>1. g \in Gens => Tail(rx[g]) \in Seq(Response)
    BY <1>4 DEF WaitReceive
  <2>2. (rx \in [Gens -> Seq(Response)])'
    BY <1>4, <2>1 DEF WaitReceive
  <2> QED
    BY <1>4, <2>2 DEF WaitReceive
<1>5. CASE WaitTimeout(r, g)
  BY <1>5 DEF WaitTimeout
<1> QED
  BY <1>1, <1>2, <1>3, <1>4, <1>5

(* The control loop of the registered service.                                *)
LEMMA LinkTypes ==
    ASSUME PeripheralTypeOK, Subscribe \/ SessionClosed \/ ResponseForward
    PROVE  PeripheralTypeOK'
<1> USE DEF PeripheralTypeOK
<1>1. CASE Subscribe \/ SessionClosed
  BY <1>1 DEF Subscribe, SessionClosed
<1>2. CASE ResponseForward
  <2>1. Append(rx[appGen], Head(air)) \in Seq(Response) /\ Tail(air) \in Seq(Response)
    BY <1>2 DEF ResponseForward
  <2> QED
    BY <1>2, <2>1 DEF ResponseForward
<1> QED
  BY <1>1, <1>2

LEMMA WrittenTypes ==
    ASSUME PeripheralTypeOK, NEW x \in Response, ResponseWritten(x)
    PROVE  PeripheralTypeOK'
<1>1. air' \in Seq(Response)
  <2>1. Append(air, x) \in Seq(Response)
    BY DEF PeripheralTypeOK
  <2> QED
    BY <2>1 DEF PeripheralTypeOK, ResponseWritten
<1> QED
  BY <1>1 DEF PeripheralTypeOK, ResponseWritten

(* NonceCache::insert keeps a sequence of nonces.                             *)
LEMMA InsertType ==
    ASSUME NEW c \in Seq(Nonces), NEW n \in Nonces
    PROVE  Insert(c, n) \in Seq(Nonces)
BY DEF Insert

(* The history of accepted nonces grows by a nonce.                           *)
LEMMA AppendNonce ==
    ASSUME NEW c \in Seq(Nonces), NEW n \in Nonces
    PROVE  Append(c, n) \in Seq(Nonces)
OBVIOUS

(* An audit line, written or not.                                             *)
LEMMA AuditTypes ==
    ASSUME TxTypeOK, NEW r \in Requests, NEW n \in Nonces \cup {None}, NEW o \in Outcomes,
           AuditAt(r, n, o)
    PROVE  /\ audit' \in [Requests -> Seq((Nonces \cup {None}) \X Outcomes)]
           /\ unlogged' \in SUBSET Requests
<1>1. Append(audit[r], <<n, o>>) \in Seq((Nonces \cup {None}) \X Outcomes)
  <2>1. audit[r] \in Seq((Nonces \cup {None}) \X Outcomes)
    BY DEF TxTypeOK
  <2>2. <<n, o>> \in (Nonces \cup {None}) \X Outcomes
    OBVIOUS
  <2> HIDE DEF Outcomes
  <2> QED
    BY <2>1, <2>2
<1>2. CASE audit' = [audit EXCEPT ![r] = Append(@, <<n, o>>)] /\ UNCHANGED unlogged
  BY <1>1, <1>2 DEF TxTypeOK
<1>3. CASE unlogged' = unlogged \cup {r} /\ UNCHANGED audit
  BY <1>3 DEF TxTypeOK
<1> QED
  BY <1>2, <1>3 DEF AuditAt

(* A return path: its audit line, and its outcome.                            *)
Concluded(r, o) ==
    /\ pc[r] \in {"queue", "notify", "send", "wait", "recv", "judge"}
    /\ AuditAt(r, txNonce[r], o)
    /\ Conclude(r, o)
    /\ UNCHANGED captured
    /\ UNCHANGED txResp \/ txResp' = [txResp EXCEPT ![r] = None]

(* What the steps of a transaction have in common.                            *)
LEMMA TxStepKinds ==
    ASSUME TxInv, NEW r \in Requests, TxStep(r)
    PROVE  \/ \E n \in Nonces : AcquireSlot(r, n)
           \/ AcquireSlotNoNonce(r) /\ Concluded(r, "transport-error")
           \/ UNCHANGED slot /\ \E o \in Outcomes : Concluded(r, o) /\ (o = "ok" => JudgeOk(r))
           \/ ChallengeDrain(r) \/ AwaitResponse(r) \/ ReceiveResponse(r) \/ Return(r)
<1>0. pc[r] = "queue" => txNonce[r] = None
  BY DEF TxInv, TxOK
<1>1. CASE AcquireSlotNoNonce(r)
  BY <1>0, <1>1 DEF AcquireSlotNoNonce, Concluded
<1>2. CASE SlotBusy(r)
  BY <1>0, <1>2 DEF SlotBusy, Concluded, Outcomes, entryVars
<1>3. CASE ChallengeUnknown(r) \/ ChallengeSendFails(r) \/ AwaitUnknown(r) \/ AwaitTimeout(r)
  BY <1>3 DEF ChallengeUnknown, ChallengeSendFails, AwaitUnknown, AwaitTimeout, Concluded,
     Outcomes, entryVars
<1>4. CASE JudgeBad(r) \/ JudgeReplay(r) \/ JudgeOk(r)
  BY <1>4 DEF JudgeBad, JudgeReplay, JudgeOk, Judge, Concluded, Outcomes
<1> QED
  BY <1>1, <1>2, <1>3, <1>4 DEF TxStep

(* The steps of a transaction that has begun.                                 *)
LEMMA TxStepTypes ==
    ASSUME TypeOK, TxInv, ResponsePinned, NEW r \in Requests, TxStep(r)
    PROVE  TypeOK'
<1> USE DEF TypeOK, OrchestratorTypeOK
<1>0. /\ pc[r] # "idle" => txPeer[r] \in Peers
      /\ txGen[r] \in 0..MaxGen /\ txChan[r] \in 0..MaxGen
      /\ pc[r] = "judge" => txNonce[r] \in Nonces
  BY DEF TxInv, TxOK, InFlight, TxTypeOK
<1>1. PeripheralTypeOK'
  <2>1. CASE UNCHANGED perVars
    BY <2>1, PerSame
  <2>2. CASE ~UNCHANGED perVars
    <3>1. \/ NotifyDrain(txPeer[r]) \/ SessionSendFails(txChan[r])
          \/ WaitBegin(r, txPeer[r]) \/ WaitReceive(r, txChan[r])
          \/ WaitTimeout(r, txChan[r])
      BY <2>2 DEF TxStep, AcquireSlot, AcquireSlotNoNonce, SlotBusy,
         ChallengeUnknown, ChallengeDrain, ChallengeSendFails, AwaitUnknown,
         AwaitResponse, AwaitTimeout, ReceiveResponse, JudgeBad, JudgeReplay, JudgeOk, Judge, Return,
         NotifyUnknown, WaitUnknown
    <3>2. pc[r] # "idle"
      BY DEF TxStep, AcquireSlot, AcquireSlotNoNonce, SlotBusy,
         ChallengeUnknown, ChallengeDrain, ChallengeSendFails, AwaitUnknown,
         AwaitResponse, AwaitTimeout, ReceiveResponse, JudgeBad, JudgeReplay, JudgeOk, Judge, Return
    <3> QED
      BY <1>0, <3>1, <3>2, ExchangeTypes
  <2> QED
    BY <2>1, <2>2
<1>2. EntryTypeOK'
  <2>1. CASE UNCHANGED entryVars
    BY <2>1, EntrySame
  <2>2. ASSUME UNCHANGED <<live, ekey, cache, granted>>,
               NEW h \in Requests \cup {None}, slot' = [slot EXCEPT ![txGen[r]] = h]
        PROVE  EntryTypeOK'
    BY <2>2 DEF EntryTypeOK
  <2>3. CASE JudgeOk(r)
    <3>1. txNonce[r] \in Nonces
      BY <1>0, <2>3 DEF JudgeOk
    <3>2. \A g \in Gens : Insert(cache[g], txNonce[r]) \in Seq(Nonces)
      BY <3>1, InsertType DEF EntryTypeOK
    <3>3. (cache \in [Gens -> Seq(Nonces)])'
      BY <2>3, <3>2 DEF JudgeOk, EntryTypeOK
    <3>4. \A g \in Gens : granted[g] \in Seq(Nonces)
      BY DEF EntryTypeOK
    <3>5. \A g \in Gens : Append(granted[g], txNonce[r]) \in Seq(Nonces)
      BY <3>1, <3>4, AppendNonce
    <3>6. (granted \in [Gens -> Seq(Nonces)])'
      BY <2>3, <3>5 DEF JudgeOk, EntryTypeOK
    <3> QED
      BY <2>3, <3>3, <3>6 DEF JudgeOk, Judge, EntryTypeOK
  <2> QED
    BY <2>1, <2>2, <2>3 DEF TxStep, AcquireSlot, AcquireSlotNoNonce, SlotBusy,
       ChallengeUnknown, ChallengeDrain, ChallengeSendFails, AwaitUnknown,
       AwaitResponse, AwaitTimeout, ReceiveResponse, JudgeBad, JudgeReplay, Judge, Return, entryVars
<1>3. TxTypeOK'
  <2> USE DEF TxTypeOK, TxPCs
  <2>1. ASSUME NEW n \in Nonces, AcquireSlot(r, n) PROVE TxTypeOK'
    BY <2>1 DEF AcquireSlot, auditVars
  <2>2. ASSUME NEW o \in Outcomes, Concluded(r, o) PROVE TxTypeOK'
    <3>1. /\ (audit \in [Requests -> Seq((Nonces \cup {None}) \X Outcomes)])'
          /\ (unlogged \in SUBSET Requests)'
      BY <2>2, AuditTypes DEF Concluded
    <3>2. (pc \in [Requests -> TxPCs] /\ out \in [Requests -> Outcomes \cup {"none"}])'
      BY <2>2 DEF Concluded, Conclude
    <3>3. (txResp \in [Requests -> Response \cup {None}])'
      BY <2>2 DEF Concluded
    <3> QED
      BY <2>2, <3>1, <3>2, <3>3 DEF Concluded, captured
  <2>3. CASE ChallengeDrain(r) \/ AwaitResponse(r)
    <3>1. txPeer[r] \in Peers
      BY <1>0, <2>3 DEF ChallengeDrain, AwaitResponse
    <3>2. chars[txPeer[r]] \in 0..MaxGen
      BY <3>1 DEF PeripheralTypeOK
    <3> QED
      BY <2>3, <3>2 DEF ChallengeDrain, AwaitResponse, auditVars
  <2>4. CASE Return(r)
    BY <2>4 DEF Return, captured, auditVars
  <2>5. CASE ReceiveResponse(r)
    <3>1. txChan[r] \in Gens /\ rx[txChan[r]] # <<>>
      BY <1>0, <2>5 DEF ReceiveResponse, WaitReceive, ResponsePinned, PeripheralTypeOK
    <3>2. Head(rx[txChan[r]]) \in Response
      BY <3>1 DEF PeripheralTypeOK
    <3> QED
      BY <2>5, <3>2 DEF ReceiveResponse, captured, auditVars
  <2>6. "transport-error" \in Outcomes
    BY DEF Outcomes
  <2> QED
    BY <2>1, <2>2, <2>3, <2>4, <2>5, <2>6, TxStepKinds
<1>4. ReloadTypeOK' /\ EnvTypeOK'
  BY TxStepFrame, ReloadSame, EnvSame
<1> QED
  BY <1>1, <1>2, <1>3, <1>4

LEMMA RotateType ==
    ASSUME EntryTypeOK, Rotate
    PROVE  adv' \in [on : BOOLEAN, keys : SUBSET (Peers \X (Keys \cup {None}))]
<1>1. LiveKeys \in SUBSET (Peers \X (Keys \cup {None}))
  BY DEF LiveKeys, LivePeers, EntryTypeOK
<1>2. CASE adv' = [on |-> TRUE, keys |-> LiveKeys]
  BY <1>1, <1>2
<1>3. CASE adv' = [on |-> FALSE, keys |-> {}]
  BY <1>3
<1> QED
  BY <1>2, <1>3 DEF Rotate

(* The steps of a reload.                                                     *)
LEMMA ReloadStepTypes ==
    ASSUME TypeOK, ReloadInv, ReloadStep
    PROVE  TypeOK'
<1> USE DEF TypeOK, OrchestratorTypeOK
<1>1. PeripheralTypeOK'
  <2>1. CASE UNCHANGED perVars
    BY <2>1, PerSame
  <2>2. CASE ~UNCHANGED perVars
    <3>1. \E p \in Peers : \/ RemovePeer(p) \/ AddPeerBegin(p) \/ AddPeerInsert(p)
                           \/ RegisterPeer
      BY <2>2 DEF ReloadStep, ReloadRemove, ReloadAdd, ReloadForget, ReloadRemoved,
         ReloadRegisterFails, ReloadRegister, ReloadInsert, ReloadRecord,
         ReloadFinish, RemovePeerUnknown, AddPeerDuplicate, RegisterPeerFails, ReloadInv
    <3> QED
      BY <3>1, RegistryTypes
  <2> QED
    BY <2>1, <2>2
<1>2. EntryTypeOK'
  <2> USE DEF EntryTypeOK
  <2>1. CASE UNCHANGED entryVars
    BY <2>1, EntrySame
  <2>2. CASE ReloadForget
    BY <2>2 DEF ReloadForget, ReloadInv
  <2>3. CASE ReloadRecord
    BY <2>3 DEF ReloadRecord, ReloadInv, PeripheralTypeOK, ReloadTypeOK
  <2> QED
    BY <2>1, <2>2, <2>3 DEF ReloadStep, ReloadRemove, ReloadAdd, ReloadRemoved,
       ReloadRegisterFails, ReloadRegister, ReloadInsert, ReloadFinish
<1>3. ReloadTypeOK'
  <2> USE DEF ReloadTypeOK, ReloadPCs
  <2>1. ASSUME NEW p \in Peers, ReloadRemove(p) \/ ReloadAdd(p) PROVE ReloadTypeOK'
    BY <2>1 DEF ReloadRemove, ReloadAdd
  <2>2. CASE \/ ReloadForget \/ ReloadRemoved \/ ReloadRegisterFails
             \/ ReloadRegister \/ ReloadInsert \/ ReloadRecord
    BY <2>2 DEF ReloadForget, ReloadRemoved, ReloadRegisterFails, ReloadRegister,
       ReloadInsert, ReloadRecord
  <2>3. CASE ReloadFinish
    BY <2>3, RotateType DEF ReloadFinish
  <2> QED
    BY <2>1, <2>2, <2>3 DEF ReloadStep
<1>4. TxTypeOK' /\ EnvTypeOK'
  BY ReloadStepFrame, TxSame, EnvSame
<1> QED
  BY <1>1, <1>2, <1>3, <1>4

LEMMA OrchSame == OrchestratorTypeOK /\ UNCHANGED orchVars => OrchestratorTypeOK'
BY EntrySame, TxSame, ReloadSame DEF OrchestratorTypeOK, orchVars

LEMMA DiskSame == DiskTypeOK /\ UNCHANGED diskVars => DiskTypeOK'
BY DEF DiskTypeOK, diskVars

LEMMA TriggerSame == TriggerTypeOK /\ UNCHANGED triggerVars => TriggerTypeOK'
BY DEF TriggerTypeOK, triggerVars

LEMMA PhoneSame == PhoneTypeOK /\ UNCHANGED phoneVars => PhoneTypeOK'
BY DEF PhoneTypeOK, phoneVars

(* A writer's record, field by field.                                         *)
LEMMA WriterType ==
    ASSUME NEW c \in {"idle", "key", "record", "signal"},
           NEW p \in Peers \cup {None}, NEW k \in Keys \cup {None}
    PROVE  [pc |-> c, peer |-> p, key |-> k] \in Writer
BY Zenon DEF Writer

LEMMA WriterFields ==
    ASSUME NEW w \in Writer
    PROVE  w.peer \in Peers \cup {None} /\ w.key \in Keys \cup {None}
BY DEF Writer

(* The daemon's consumer and the CLI.                                         *)
LEMMA WriterStepTypes ==
    ASSUME TypeOK, WriterStep
    PROVE  TypeOK'
<1> USE DEF TypeOK, EnvTypeOK
<1>0. WriterIdle \in Writer
  BY WriterType DEF WriterIdle
<1>1. DiskTypeOK'
  <2> USE WriterType, WriterFields, <1>0 DEF DiskTypeOK
  <2>1. CASE ConsumerKey
    BY <2>1 DEF ConsumerKey
  <2>2. CASE ConsumerRecord
    BY <2>2 DEF ConsumerRecord
  <2>3. CASE ConsumerSignal \/ ConsumerFails
    BY <2>3 DEF ConsumerSignal, ConsumerFails
  <2>4. CASE CliWriteKey
    BY <2>4 DEF CliWriteKey
  <2>5. CASE CliWriteKeyFails
    BY <2>5 DEF CliWriteKeyFails
  <2> QED
    BY <2>1, <2>2, <2>3, <2>4, <2>5 DEF WriterStep
<1>2. TriggerTypeOK'
  <2>1. CASE UNCHANGED triggerVars
    BY <2>1, TriggerSame
  <2>2. CASE ConsumerRecord
    BY <2>2 DEF ConsumerRecord, TriggerTypeOK
  <2>3. CASE ConsumerSignal
    BY <2>3 DEF ConsumerSignal, TriggerTypeOK
  <2> QED
    BY <2>1, <2>2, <2>3
    DEF WriterStep, ConsumerKey, ConsumerFails, CliWriteKey, CliWriteKeyFails
<1>3. PeripheralTypeOK' /\ OrchestratorTypeOK' /\ PhoneTypeOK'
  BY WriterStepFrame, PerSame, OrchSame, PhoneSame
<1> QED
  BY <1>1, <1>2, <1>3

(* Pairings and revocations.                                                  *)
LEMMA EditTypes ==
    ASSUME TypeOK, NEW p \in Peers, NEW k \in Keys,
           PairOverAir(p) \/ CliPair(p, k) \/ CliRevoke(p)
    PROVE  TypeOK'
<1> USE DEF TypeOK, EnvTypeOK
<1>1. DiskTypeOK'
  <2> USE WriterType DEF DiskTypeOK
  <2>1. CASE PairOverAir(p)
    BY <2>1 DEF PairOverAir
  <2>2. CASE CliPair(p, k)
    BY <2>2 DEF CliPair
  <2>3. CASE CliRevoke(p)
    BY <2>3 DEF CliRevoke
  <2> QED
    BY <2>1, <2>2, <2>3
<1>2. TriggerTypeOK'
  BY DEF PairOverAir, CliPair, CliRevoke, TriggerTypeOK, triggerVars
<1>3. PhoneTypeOK'
  BY DEF PairOverAir, CliPair, CliRevoke, PhoneTypeOK, phoneVars
<1>4. PeripheralTypeOK' /\ OrchestratorTypeOK'
  BY PerSame, OrchSame DEF PairOverAir, CliPair, CliRevoke
<1> QED
  BY <1>1, <1>2, <1>3, <1>4

(* Reload triggers, and the start of a reload.                                *)
LEMMA TriggerTypes ==
    ASSUME TypeOK, InotifyReload \/ OperatorReload \/ TakeReload \/ TakeReloadSkipped
    PROVE  TypeOK'
<1> USE DEF TypeOK, EnvTypeOK
<1>1. TriggerTypeOK'
  <2> USE DEF TriggerTypeOK, InotifyReload, OperatorReload, TakeReload, TakeReloadSkipped
  <2>1. (queue \in 0..ReloadCap)'
    OBVIOUS
  <2>2. (dirty \in BOOLEAN /\ synced \in BOOLEAN)'
    BY Zenon
  <2> QED
    BY <2>1, <2>2
<1>2. DiskTypeOK' /\ PhoneTypeOK'
  BY DiskSame, PhoneSame DEF InotifyReload, OperatorReload, TakeReload, TakeReloadSkipped
<1>3. PeripheralTypeOK' /\ OrchestratorTypeOK'
  <2>1. CASE TakeReload
    <3>1. NewSet \in [Peers -> Keys \cup {None}]
      BY DEF NewSet, DiskTypeOK
    <3>2. ReloadTypeOK'
      BY <2>1, <3>1 DEF TakeReload, ReloadBegin, OrchestratorTypeOK, ReloadTypeOK, ReloadPCs
    <3> QED
      BY <2>1, <3>2, PerSame, EntrySame, TxSame
      DEF TakeReload, ReloadBegin, OrchestratorTypeOK
  <2>2. CASE UNCHANGED <<perVars, orchVars>>
    BY <2>2, PerSame, OrchSame
  <2> QED
    BY <2>1, <2>2 DEF InotifyReload, OperatorReload, TakeReloadSkipped
<1> QED
  BY <1>1, <1>2, <1>3

(* A transaction begins.                                                      *)
LEMMA BeginTypes ==
    ASSUME TypeOK, NEW r \in Requests, NEW p \in Peers, TxBegin(r, p)
    PROVE  TypeOK'
<1> USE DEF TypeOK, OrchestratorTypeOK
<1>1. TxTypeOK'
  <2> USE DEF TxTypeOK, TxPCs
  <2>1. CASE LookupUnknown(r, p)
    <3>1. "unknown-peer" \in Outcomes
      BY DEF Outcomes
    <3> QED
      BY <2>1, <3>1, AuditTypes DEF LookupUnknown, Conclude
  <2>2. CASE LookupPeer(r, p)
    BY <2>2 DEF LookupPeer, EntryTypeOK, auditVars
  <2> QED
    BY <2>1, <2>2 DEF TxBegin
<1> QED
  BY <1>1, PerSame, EntrySame, ReloadSame, EnvSame DEF TxBegin, LookupUnknown, LookupPeer

(* A notification goes out; the phones; the radio link; the minute tick.      *)
LEMMA SendTypes ==
    ASSUME TypeOK, TxInv, NEW r \in Requests, SendStep(r)
    PROVE  TypeOK'
<1> USE DEF TypeOK, OrchestratorTypeOK
<1>1. ChallengeSend(r) /\ pc[r] = "send"
  BY DEF SendStep, SendDelivered, ChallengeSend
<1>2. TxTypeOK'
  BY <1>1 DEF ChallengeSend, TxTypeOK, TxPCs, captured, auditVars
<1>3. PhoneTypeOK'
  <2>1. txNonce[r] \in Nonces
    BY <1>1 DEF TxInv, TxOK, InFlight
  <2> QED
    BY <2>1 DEF SendStep, SendDelivered, PhoneTypeOK, EnvTypeOK
<1>4. DiskTypeOK' /\ TriggerTypeOK'
  BY DiskSame, TriggerSame DEF SendStep, SendDelivered, EnvTypeOK
<1>5. PeripheralTypeOK' /\ EntryTypeOK' /\ ReloadTypeOK'
  BY <1>1, PerSame, EntrySame, ReloadSame DEF ChallengeSend, SessionSend
<1> QED
  BY <1>2, <1>3, <1>4, <1>5 DEF EnvTypeOK

LEMMA PhoneTypes ==
    ASSUME TypeOK, NEW p \in Peers, NEW n \in Nonces, PhoneApprove(p, n) \/ PhoneDeny(p, n)
    PROVE  TypeOK'
<1> USE DEF TypeOK
<1>1. PeripheralTypeOK'
  <2>1. <<p, n>> \in Response /\ <<p, Deny>> \in Response
    BY DEF Response
  <2> QED
    BY <2>1, WrittenTypes DEF PhoneApprove, PhoneDeny
<1>2. PhoneTypeOK'
  BY DEF PhoneApprove, PhoneDeny, PhoneTypeOK, EnvTypeOK
<1> QED
  BY <1>1, <1>2, OrchSame, DiskSame, TriggerSame DEF PhoneApprove, PhoneDeny, EnvTypeOK

LEMMA LinkStepTypes ==
    ASSUME TypeOK, LinkStep
    PROVE  TypeOK'
BY LinkTypes, OrchSame, EnvSame DEF LinkStep, TypeOK

LEMMA TickTypes ==
    ASSUME TypeOK, Tick
    PROVE  TypeOK'
<1> USE DEF TypeOK, OrchestratorTypeOK
<1>1. ReloadTypeOK'
  BY RotateType DEF Tick, MinuteTick, ReloadTypeOK, reloadVars
<1> QED
  BY <1>1, PerSame, EntrySame, TxSame, EnvSame DEF Tick, MinuteTick

(* The three initial states of the components.                                *)
LEMMA InitTypes == Init => TypeOK
<1> SUFFICES ASSUME Init PROVE TypeOK
  OBVIOUS
<1>1. PICK B \in SUBSET Peers, k \in [Peers -> Keys \cup {None}], first \in Peers :
        /\ bonds = [p \in Peers |-> IF p \in B THEN "bonded" ELSE "absent"]
        /\ keyFile = k
        /\ LET seed == IF k[first] = None THEN {} ELSE {first}
           IN  PeripheralNew(seed) /\ OrchestratorNew(seed, k[first])
  BY DEF Init
<1> DEFINE seed == IF k[first] = None THEN {} ELSE {first}
<1>2. PeripheralNew(seed) /\ OrchestratorNew(seed, k[first])
  BY <1>1
<1> HIDE DEF seed
<1>3. PeripheralTypeOK
  <2> USE <1>2 DEF PeripheralNew
  <2>1. appPair \in BOOLEAN /\ sub \in BOOLEAN
    BY Zenon
  <2>2. chars \in [Peers -> 0..MaxGen] /\ appGen \in 0..MaxGen /\ nextGen \in 1..(MaxGen + 1)
    OBVIOUS
  <2>3. rx \in [Gens -> Seq(Response)] /\ air \in Seq(Response)
    BY EmptyResponses
  <2> QED
    BY <2>1, <2>2, <2>3 DEF PeripheralTypeOK
<1>4. EntryTypeOK /\ TxTypeOK /\ ReloadTypeOK
  <2> USE <1>2 DEF OrchestratorNew
  <2>1. <<>> \in Seq(Nonces) /\ <<>> \in Seq((Nonces \cup {None}) \X Outcomes)
    OBVIOUS
  <2>2. EntryTypeOK
    BY <1>1, <2>1 DEF EntryTypeOK
  <2>3. TxTypeOK
    BY <2>1 DEF TxTypeOK, TxPCs
  <2>4. adv \in [on : BOOLEAN, keys : SUBSET (Peers \X (Keys \cup {None}))]
    OBVIOUS
  <2>5. ReloadTypeOK
    BY <2>4 DEF ReloadTypeOK, ReloadPCs
  <2> QED
    BY <2>2, <2>3, <2>5
<1>5. DiskTypeOK
  <2>1. WriterIdle \in Writer
    BY WriterType DEF WriterIdle
  <2> QED
    BY <1>1, <2>1 DEF Init, DiskTypeOK
<1>6. TriggerTypeOK
  <2>1. queue \in 0..ReloadCap
    BY DEF Init
  <2>2. dirty \in BOOLEAN /\ synced \in BOOLEAN
    BY Zenon DEF Init
  <2> QED
    BY <2>1, <2>2 DEF TriggerTypeOK
<1>7. PhoneTypeOK
  BY <1>1 DEF Init, PhoneTypeOK
<1> QED
  BY <1>3, <1>4, <1>5, <1>6, <1>7 DEF TypeOK, OrchestratorTypeOK, EnvTypeOK

(* Every step keeps the types, given what the transactions and the reload     *)
(* know of their own state.                                                   *)
LEMMA NextTypes ==
    ASSUME TypeOK, TxInv, ReloadInv, ResponsePinned, [Next]_vars
    PROVE  TypeOK'
<1>1. CASE UNCHANGED vars
  BY <1>1, PerSame, OrchSame, EnvSame DEF vars, envVars, TypeOK
<1>2. CASE Next
  BY <1>2, TxStepTypes, SendTypes, BeginTypes, ReloadStepTypes, TickTypes,
     TriggerTypes, LinkStepTypes, PhoneTypes, EditTypes, WriterStepTypes
  DEF Next
<1> QED
  BY <1>1, <1>2

-----------------------------------------------------------------------------
(* The transactions.                                                          *)

(* Everything that is not a step of a transaction.                            *)
OtherStep ==
    \/ ReloadStep \/ Tick \/ TakeReload \/ TakeReloadSkipped
    \/ InotifyReload \/ OperatorReload \/ LinkStep
    \/ \E p \in Peers, n \in Nonces : PhoneApprove(p, n) \/ PhoneDeny(p, n)
    \/ \E p \in Peers : PairOverAir(p) \/ CliRevoke(p)
    \/ \E p \in Peers, k \in Keys : CliPair(p, k)
    \/ WriterStep
    \/ UNCHANGED vars

LEMMA OtherStepFrame ==
    OtherStep => UNCHANGED <<txVars, slot, cache, granted, peersLock>>
BY ReloadStepFrame, LinkStepFrame, WriterStepFrame
DEF OtherStep, Tick, MinuteTick, TakeReload, ReloadBegin, TakeReloadSkipped,
    InotifyReload, OperatorReload, PhoneApprove, PhoneDeny, ResponseWritten,
    PairOverAir, CliRevoke, CliPair, vars, orchVars, perVars, entryVars

LEMMA StepKinds ==
    [Next]_vars <=>
        \/ \E r \in Requests : TxStep(r) \/ SendStep(r)
        \/ \E r \in Requests, p \in Peers : TxBegin(r, p)
        \/ OtherStep
BY DEF Next, OtherStep

LEMMA TxStepInv ==
    ASSUME TypeOK, TxInv, NEW r \in Requests, TxStep(r)
    PROVE  TxInv'
<1> SUFFICES ASSUME NEW s \in Requests PROVE TxOK(s)'
  BY DEF TxInv
<1> USE DEF TypeOK, OrchestratorTypeOK, TxTypeOK, EntryTypeOK
<1>0. TxOK(r) /\ TxOK(s)
  BY DEF TxInv
<1>1. ASSUME NEW n \in Nonces, AcquireSlot(r, n) PROVE TxOK(s)'
  BY <1>0, <1>1 DEF TxOK, InFlight, AcquireSlot
<1>2. CASE AcquireSlotNoNonce(r)
  BY <1>0, <1>2 DEF TxOK, InFlight, AcquireSlotNoNonce, Conclude, captured, Outcomes
<1>3. ASSUME NEW o \in Outcomes, Concluded(r, o), UNCHANGED slot
      PROVE  TxOK(s)'
  BY <1>0, <1>3 DEF TxOK, InFlight, Concluded, Conclude, captured
<1>4. CASE ChallengeDrain(r)
  BY <1>0, <1>4 DEF TxOK, InFlight, ChallengeDrain, entryVars
<1>5. CASE AwaitResponse(r)
  BY <1>0, <1>5 DEF TxOK, InFlight, AwaitResponse, entryVars
<1>7. CASE ReceiveResponse(r)
  BY <1>0, <1>7 DEF TxOK, InFlight, ReceiveResponse, entryVars, captured
<1>6. CASE Return(r)
  BY <1>0, <1>6 DEF TxOK, InFlight, Return, HasPermit, captured
<1> QED
  BY <1>1, <1>2, <1>3, <1>4, <1>5, <1>6, <1>7, TxStepKinds

LEMMA NextTxInv ==
    ASSUME TypeOK, TxInv, [Next]_vars
    PROVE  TxInv'
<1> USE DEF TypeOK, OrchestratorTypeOK, TxTypeOK, EntryTypeOK
<1>1. ASSUME NEW r \in Requests, NEW p \in Peers, TxBegin(r, p) PROVE TxInv'
  <2> SUFFICES ASSUME NEW s \in Requests PROVE TxOK(s)'
    BY DEF TxInv
  <2>0. TxOK(r) /\ TxOK(s)
    BY DEF TxInv
  <2>1. CASE LookupUnknown(r, p)
    BY <2>0, <2>1 DEF TxOK, InFlight, LookupUnknown, Conclude, Outcomes, entryVars
  <2>2. CASE LookupPeer(r, p)
    BY <2>0, <2>2 DEF TxOK, InFlight, LookupPeer, entryVars
  <2> QED
    BY <1>1, <2>1, <2>2 DEF TxBegin
<1>2. ASSUME NEW r \in Requests, SendStep(r) PROVE TxInv'
  <2> SUFFICES ASSUME NEW s \in Requests PROVE TxOK(s)'
    BY DEF TxInv
  <2>1. TxOK(r) /\ TxOK(s) /\ ChallengeSend(r)
    BY <1>2 DEF TxInv, SendStep, SendDelivered
  <2> QED
    BY <2>1 DEF TxOK, InFlight, ChallengeSend, captured, entryVars
<1>3. CASE OtherStep
  BY <1>3, OtherStepFrame DEF TxInv, TxOK, InFlight, txVars, captured
<1> QED
  BY <1>1, <1>2, <1>3, TxStepInv, StepKinds

(* The permit makes transactions on one entry exclusive.                      *)
LEMMA TxInvPermit == TxInv => PermitExclusive
BY DEF TxInv, TxOK, PermitExclusive

(* The mutex of the peripheral's map.                                         *)
LEMMA NextLockInv ==
    ASSUME TypeOK, LockInv, [Next]_vars
    PROVE  LockInv'
<1> USE DEF TypeOK, OrchestratorTypeOK, TxTypeOK, PeripheralTypeOK, LockInv
<1>1. ASSUME NEW r \in Requests, TxStep(r) PROVE LockInv'
  <2>1. CASE AwaitResponse(r)
    BY <2>1 DEF AwaitResponse, WaitBegin
  <2>2. CASE AwaitTimeout(r) \/ ReceiveResponse(r)
    <3>1. /\ peersLock = r /\ peersLock' = None
          /\ \E c \in {"judge", "return"} : pc' = [pc EXCEPT ![r] = c]
      BY <2>2 DEF AwaitTimeout, ReceiveResponse, Conclude, WaitTimeout, WaitReceive
    <3> QED
      BY <3>1
  <2>3. ASSUME NEW c \in TxPCs \ {"recv"}, pc[r] # "recv",
               pc' = [pc EXCEPT ![r] = c], UNCHANGED peersLock
        PROVE  LockInv'
    BY <2>3
  <2> QED
    BY <1>1, <2>1, <2>2, <2>3
    DEF TxStep, TxPCs, Conclude, AcquireSlot, AcquireSlotNoNonce, SlotBusy,
        ChallengeUnknown, ChallengeDrain, ChallengeSendFails, AwaitUnknown, Return,
        JudgeBad, JudgeReplay, JudgeOk, Judge, NotifyUnknown, NotifyDrain, SessionSendFails, WaitUnknown, perVars
<1>2. ASSUME NEW r \in Requests, NEW p \in Peers, TxBegin(r, p) PROVE LockInv'
  BY <1>2 DEF TxBegin, LookupUnknown, LookupPeer, Conclude, perVars
<1>3. ASSUME NEW r \in Requests, SendStep(r) PROVE LockInv'
  BY <1>3 DEF SendStep, SendDelivered, ChallengeSend, SessionSend, perVars
<1>4. CASE OtherStep
  BY <1>4, OtherStepFrame DEF txVars
<1> QED
  BY <1>1, <1>2, <1>3, <1>4, StepKinds

-----------------------------------------------------------------------------
(* The two maps.                                                              *)

(* Steps that leave both maps and the reload alone.                           *)
LEMMA MapFrame ==
    ASSUME [Next]_vars, ~ReloadStep, ~TakeReload
    PROVE  UNCHANGED <<live, chars, appGen, reloadVars>>
<1>1. ASSUME NEW r \in Requests, SendStep(r)
      PROVE  UNCHANGED <<live, chars, appGen, reloadVars>>
  BY <1>1 DEF SendStep, SendDelivered, ChallengeSend, SessionSend, perVars, entryVars
<1>2. ASSUME NEW r \in Requests, NEW p \in Peers, TxBegin(r, p)
      PROVE  UNCHANGED <<live, chars, appGen, reloadVars>>
  BY <1>2 DEF TxBegin, LookupUnknown, LookupPeer, perVars, entryVars
<1>3. CASE OtherStep
  BY <1>3, LinkStepFrame, WriterStepFrame
  DEF OtherStep, Tick, MinuteTick, TakeReloadSkipped, InotifyReload, OperatorReload,
      PhoneApprove, PhoneDeny, ResponseWritten, PairOverAir, CliRevoke, CliPair,
      vars, orchVars, perVars, entryVars
<1> QED
  BY <1>1, <1>2, <1>3, TxStepFrame, StepKinds

LEMMA NextMaps ==
    ASSUME TypeOK, ReloadInv, MapsAgree, [Next]_vars
    PROVE  ReloadInv' /\ MapsAgree'
<1> USE DEF TypeOK, PeripheralTypeOK, OrchestratorTypeOK, EntryTypeOK, ReloadTypeOK
<1>1. CASE ~ReloadStep /\ ~TakeReload
  BY <1>1, MapFrame DEF ReloadInv, MapsAgree, reloadVars
<1>2. CASE TakeReload
  BY <1>2 DEF TakeReload, ReloadBegin, ReloadInv, MapsAgree, perVars, entryVars
<1>3. CASE ReloadStep
  <2> USE DEF ReloadInv, MapsAgree
  <2>1. ASSUME NEW p \in Peers, ReloadRemove(p) PROVE ReloadInv' /\ MapsAgree'
    <3>1. /\ rpc = "remove" /\ p \in rdel /\ rdel' = rdel \ {p} /\ rcur = None
          /\ UNCHANGED <<live, rnew, radd>>
      BY <2>1 DEF ReloadRemove, entryVars
    <3>2. CASE chars[p] = 0
      BY <2>1, <3>1, <3>2 DEF ReloadRemove, RemovePeerUnknown, perVars
    <3>3. CASE chars[p] # 0
      <4>1. chars' = [chars EXCEPT ![p] = 0] /\ rcur' = p /\ rpc' = "forget"
        BY <2>1, <3>3 DEF ReloadRemove, RemovePeer
      <4> QED
        BY <3>1, <4>1
    <3> QED
      BY <3>2, <3>3
  <2>2. ASSUME NEW p \in Peers, ReloadAdd(p) PROVE ReloadInv' /\ MapsAgree'
    BY <2>2 DEF ReloadAdd, AddPeerDuplicate, AddPeerBegin, DropApplication,
       perVars, entryVars
  <2>3. CASE ReloadForget
    BY <2>3 DEF ReloadForget, perVars
  <2>4. CASE ReloadRemoved \/ ReloadFinish
    BY <2>4 DEF ReloadRemoved, ReloadFinish, perVars, entryVars
  <2>5. CASE ReloadRegisterFails
    BY <2>5 DEF ReloadRegisterFails, RegisterPeerFails, perVars, entryVars
  <2>8. CASE ReloadRegister
    <3>1. /\ rpc = "register" /\ rpc' = "insert" /\ appGen' # 0
          /\ UNCHANGED <<live, chars, rcur, rnew, rdel, radd>>
      BY <2>8 DEF ReloadRegister, RegisterPeer, entryVars
    <3> QED
      BY <3>1
  <2>6. CASE ReloadInsert
    BY <2>6 DEF ReloadInsert, AddPeerInsert, entryVars
  <2>7. CASE ReloadRecord
    BY <2>7 DEF ReloadRecord, perVars
  <2> QED
    BY <1>3, <2>1, <2>2, <2>3, <2>4, <2>5, <2>6, <2>7, <2>8 DEF ReloadStep
<1> QED
  BY <1>1, <1>2, <1>3

(* A waiting transaction keeps the mutex, and every operation that changes    *)
(* the peripheral's map takes it.                                             *)
LEMMA NextPinned ==
    ASSUME TypeOK, TxInv, LockInv, ResponsePinned, [Next]_vars
    PROVE  ResponsePinned'
<1> USE DEF TypeOK, PeripheralTypeOK, OrchestratorTypeOK, TxTypeOK, ResponsePinned
<1>1. ASSUME NEW r \in Requests, TxStep(r) PROVE ResponsePinned'
  <2>0. UNCHANGED chars
    BY <1>1, TxStepFrame
  <2>1. CASE AwaitResponse(r)
    BY <2>0, <2>1 DEF AwaitResponse, WaitBegin
  <2>2. ASSUME NEW c \in TxPCs \ {"recv"}, pc' = [pc EXCEPT ![r] = c],
               UNCHANGED txPeer, \A s \in Requests \ {r} : txChan'[s] = txChan[s]
        PROVE  ResponsePinned'
    BY <2>0, <2>2
  <2> QED
    BY <1>1, <2>1, <2>2
    DEF TxStep, TxPCs, Conclude, captured, AcquireSlot, AcquireSlotNoNonce, SlotBusy,
        ChallengeUnknown, ChallengeDrain, ChallengeSendFails, AwaitUnknown,
        AwaitTimeout, ReceiveResponse, JudgeBad, JudgeReplay, JudgeOk, Judge, Return
<1>2. ASSUME NEW r \in Requests, NEW p \in Peers, TxBegin(r, p) PROVE ResponsePinned'
  <2>1. /\ UNCHANGED <<chars, txChan>> /\ txPeer' = [txPeer EXCEPT ![r] = p]
        /\ pc'[r] # "recv" /\ \A s \in Requests \ {r} : pc'[s] = pc[s]
    BY <1>2 DEF TxBegin, LookupUnknown, LookupPeer, Conclude, perVars
  <2> QED
    BY <2>1
<1>3. ASSUME NEW r \in Requests, SendStep(r) PROVE ResponsePinned'
  BY <1>3 DEF SendStep, SendDelivered, ChallengeSend, SessionSend, perVars, captured
<1>4. CASE OtherStep
  <2>1. UNCHANGED <<pc, txPeer, txChan>>
    BY <1>4, OtherStepFrame DEF txVars, captured
  <2>2. CASE UNCHANGED chars
    BY <2>1, <2>2
  <2>3. CASE peersLock = None
    BY <2>1, <2>3 DEF LockInv
  <2>4. ReloadStep => peersLock = None \/ UNCHANGED chars
    BY DEF ReloadStep, ReloadRemove, ReloadAdd, ReloadForget, ReloadRemoved,
       ReloadRegisterFails, ReloadRegister, ReloadInsert, ReloadRecord,
       ReloadFinish, RemovePeerUnknown, RemovePeer, AddPeerDuplicate,
       AddPeerBegin, RegisterPeerFails, RegisterPeer, AddPeerInsert, perVars
  <2>5. TakeReload => UNCHANGED chars
    BY DEF TakeReload, ReloadBegin, perVars
  <2> QED
    BY <2>2, <2>3, <2>4, <2>5, MapFrame
<1> QED
  BY <1>1, <1>2, <1>3, <1>4, StepKinds

-----------------------------------------------------------------------------
(* Responses on their way.                                                    *)

LEMMA SeqMonotone ==
    ASSUME NEW S, NEW T, S \subseteq T, NEW s \in Seq(S)
    PROVE  s \in Seq(T)
OBVIOUS

LEMMA EmptyHonest == <<>> \in Seq(Honest)
OBVIOUS

(* Only an approval on a phone makes a signature.                             *)
LEMMA ApprovedFrame ==
    ASSUME [Next]_vars
    PROVE  \/ UNCHANGED approved
           \/ \E p \in Peers, n \in Nonces : PhoneApprove(p, n)
<1>1. ASSUME NEW r \in Requests,
             SendStep(r) \/ TxStep(r) \/ \E p \in Peers : TxBegin(r, p)
      PROVE  UNCHANGED approved
  BY <1>1 DEF SendStep, SendDelivered, TxStep, TxBegin, envVars, phoneVars
<1>2. CASE OtherStep
  BY <1>2, WriterStepFrame
  DEF OtherStep, ReloadStep, LinkStep, Tick, TakeReload, TakeReloadSkipped, InotifyReload,
      OperatorReload, PhoneDeny, PairOverAir, CliRevoke, CliPair, vars, envVars, phoneVars
<1> QED
  BY <1>1, <1>2, StepKinds

(* What a step may do to the response channels.                               *)
LEMMA RxFrame ==
    ASSUME TypeOK, TxInv, [Next]_vars
    PROVE  \/ UNCHANGED rx
           \/ \E g \in 0..MaxGen : rx' = [rx EXCEPT ![g] = <<>>]
           \/ \E g \in 0..MaxGen : rx[g] # <<>> /\ rx' = [rx EXCEPT ![g] = Tail(@)]
           \/ ResponseForward
<1> USE DEF TypeOK, PeripheralTypeOK, OrchestratorTypeOK, TxTypeOK
<1>1. ASSUME NEW r \in Requests, TxStep(r)
      PROVE  \/ UNCHANGED rx
             \/ \E g \in 0..MaxGen : rx' = [rx EXCEPT ![g] = <<>>]
             \/ \E g \in 0..MaxGen : rx[g] # <<>> /\ rx' = [rx EXCEPT ![g] = Tail(@)]
  <2>1. CASE ChallengeDrain(r)
    <3>1. chars[txPeer[r]] \in 0..MaxGen
      BY <2>1 DEF ChallengeDrain, TxInv, TxOK
    <3> QED
      BY <2>1, <3>1 DEF ChallengeDrain, NotifyDrain
  <2>2. CASE ReceiveResponse(r)
    <3>1. txChan[r] \in 0..MaxGen
      OBVIOUS
    <3>2. rx[txChan[r]] # <<>> /\ rx' = [rx EXCEPT ![txChan[r]] = Tail(@)]
      BY <2>2 DEF ReceiveResponse, WaitReceive
    <3> QED
      BY <3>1, <3>2
  <2>3. \/ UNCHANGED rx
        \/ ChallengeDrain(r) \/ ReceiveResponse(r)
    BY <1>1 DEF TxStep, AcquireSlot, AcquireSlotNoNonce, SlotBusy, ChallengeUnknown,
       ChallengeSendFails, AwaitUnknown, AwaitResponse, AwaitTimeout, Return,
       JudgeBad, JudgeReplay, JudgeOk, Judge, NotifyUnknown, SessionSendFails, WaitUnknown, WaitBegin, WaitTimeout, perVars
  <2> QED
    BY <2>1, <2>2, <2>3
<1>2. ASSUME NEW r \in Requests,
             SendStep(r) \/ \E p \in Peers : TxBegin(r, p)
      PROVE  UNCHANGED rx
  BY <1>2 DEF SendStep, SendDelivered, ChallengeSend, SessionSend, TxBegin,
     LookupUnknown, LookupPeer, perVars
<1>3. CASE ReloadStep
  <2>1. UNCHANGED rx \/ \E p \in Peers : RemovePeer(p)
    BY <1>3 DEF ReloadStep, ReloadRemove, ReloadAdd, ReloadForget, ReloadRemoved,
       ReloadRegisterFails, ReloadRegister, ReloadInsert, ReloadRecord, ReloadFinish,
       RemovePeerUnknown, AddPeerDuplicate, AddPeerBegin, RegisterPeerFails,
       RegisterPeer, AddPeerInsert, perVars
  <2> QED
    BY <2>1 DEF RemovePeer
<1>4. CASE OtherStep /\ ~ReloadStep
  BY <1>4, WriterStepFrame
  DEF OtherStep, LinkStep, Subscribe, SessionClosed, Tick, MinuteTick, TakeReload,
      ReloadBegin, TakeReloadSkipped, InotifyReload, OperatorReload, PhoneApprove,
      PhoneDeny, ResponseWritten, PairOverAir, CliRevoke, CliPair, vars, perVars
<1> QED
  BY <1>1, <1>2, <1>3, <1>4, StepKinds

(* What a step may do to the writes that are not forwarded yet.               *)
LEMMA AirFrame ==
    ASSUME [Next]_vars
    PROVE  \/ UNCHANGED air \/ air' = <<>> \/ ResponseForward
           \/ \E p \in Peers, n \in Nonces : PhoneApprove(p, n) \/ PhoneDeny(p, n)
<1>1. ASSUME NEW r \in Requests,
             SendStep(r) \/ \E p \in Peers : TxBegin(r, p)
      PROVE  UNCHANGED air
  BY <1>1 DEF SendStep, SendDelivered, ChallengeSend, SessionSend, TxBegin,
     LookupUnknown, LookupPeer, perVars
<1>2. CASE ReloadStep
  BY <1>2 DEF ReloadStep, ReloadRemove, ReloadAdd, ReloadForget, ReloadRemoved,
     ReloadRegisterFails, ReloadRegister, ReloadInsert, ReloadRecord, ReloadFinish,
     RemovePeerUnknown, RemovePeer, AddPeerDuplicate, AddPeerBegin, DropApplication,
     RegisterPeerFails, RegisterPeer, AddPeerInsert, perVars
<1>3. CASE OtherStep /\ ~ReloadStep
  BY <1>3, WriterStepFrame
  DEF OtherStep, LinkStep, Subscribe, SessionClosed, Tick, MinuteTick, TakeReload,
      ReloadBegin, TakeReloadSkipped, InotifyReload, OperatorReload,
      PairOverAir, CliRevoke, CliPair, vars, perVars
<1> QED
  BY <1>1, <1>2, <1>3, TxStepFrame, StepKinds

(* A transaction that judges a response has just taken it from its channel.   *)
LEMMA JudgeFrame ==
    ASSUME TypeOK, TxInv, [Next]_vars, NEW s \in Requests, pc'[s] = "judge"
    PROVE  (pc[s] = "judge" /\ txResp'[s] = txResp[s]) \/ ReceiveResponse(s)
<1> USE DEF TypeOK, OrchestratorTypeOK, TxTypeOK
<1>1. ASSUME NEW r \in Requests, TxStep(r)
      PROVE  (pc[s] = "judge" /\ txResp'[s] = txResp[s]) \/ ReceiveResponse(s)
  <2>1. ASSUME NEW o, Concluded(r, o) PROVE pc[s] = "judge" /\ txResp'[s] = txResp[s]
    BY <2>1 DEF Concluded, Conclude
  <2>2. CASE ReceiveResponse(r)
    BY <2>2 DEF ReceiveResponse
  <2>3. ASSUME ChallengeDrain(r) \/ AwaitResponse(r) \/ Return(r)
        PROVE  pc[s] = "judge" /\ txResp'[s] = txResp[s]
    BY <2>3 DEF ChallengeDrain, AwaitResponse, Return
  <2>4. ASSUME NEW n \in Nonces, AcquireSlot(r, n)
        PROVE  pc[s] = "judge" /\ txResp'[s] = txResp[s]
    BY <2>4 DEF AcquireSlot
  <2> QED
    BY <1>1, <2>1, <2>2, <2>3, <2>4, TxStepKinds
<1>2. ASSUME NEW r \in Requests, NEW p \in Peers, TxBegin(r, p)
      PROVE  pc[s] = "judge" /\ txResp'[s] = txResp[s]
  BY <1>2 DEF TxBegin, LookupUnknown, LookupPeer, Conclude
<1>3. ASSUME NEW r \in Requests, SendStep(r)
      PROVE  pc[s] = "judge" /\ txResp'[s] = txResp[s]
  BY <1>3 DEF SendStep, SendDelivered, ChallengeSend
<1>4. CASE OtherStep
  BY <1>4, OtherStepFrame DEF txVars
<1> QED
  BY <1>1, <1>2, <1>3, <1>4, StepKinds

LEMMA NextResponses ==
    ASSUME TypeOK, TxInv, ResponsePinned, ResponseInv, [Next]_vars
    PROVE  ResponseInv'
<1> USE DEF ResponseInv
<1>1. Honest \subseteq Honest'
  BY ApprovedFrame DEF Honest, PhoneApprove
<1>2. rx' \in [Gens -> Seq(Honest)]
  <2>1. ASSUME NEW g \in 0..MaxGen, rx' = [rx EXCEPT ![g] = <<>>]
        PROVE  rx' \in [Gens -> Seq(Honest)]
    BY <2>1, EmptyHonest
  <2>2. ASSUME NEW g \in 0..MaxGen, rx[g] # <<>>, rx' = [rx EXCEPT ![g] = Tail(@)]
        PROVE  rx' \in [Gens -> Seq(Honest)]
    <3>1. g \in Gens => Tail(rx[g]) \in Seq(Honest)
      BY <2>2
    <3> QED
      BY <2>2, <3>1
  <2>3. CASE ResponseForward
    <3>1. Append(rx[appGen], Head(air)) \in Seq(Honest)
      BY <2>3 DEF ResponseForward, TypeOK, PeripheralTypeOK
    <3> QED
      BY <2>3, <3>1 DEF ResponseForward
  <2> QED
    BY <2>1, <2>2, <2>3, RxFrame
<1>3. air' \in Seq(Honest')
  <2>1. CASE UNCHANGED air
    BY <1>1, <2>1, SeqMonotone
  <2>2. CASE air' = <<>>
    BY <2>2
  <2>3. CASE ResponseForward
    <3>1. Tail(air) \in Seq(Honest)
      BY <2>3 DEF ResponseForward
    <3> QED
      BY <1>1, <2>3, <3>1, SeqMonotone DEF ResponseForward
  <2>4. ASSUME NEW p \in Peers, NEW n \in Nonces, PhoneApprove(p, n) \/ PhoneDeny(p, n)
        PROVE  air' \in Seq(Honest')
    <3>1. PICK x \in Honest' : air' = Append(air, x) \/ air' = air
      <4>1. CASE PhoneApprove(p, n)
        <5>1. <<p, n>> \in Honest'
          BY <4>1 DEF PhoneApprove, Honest
        <5> QED
          BY <4>1, <5>1 DEF PhoneApprove, ResponseWritten
      <4>2. CASE PhoneDeny(p, n)
        <5>1. <<p, Deny>> \in Honest'
          BY <4>2 DEF Honest
        <5> QED
          BY <4>2, <5>1 DEF PhoneDeny, ResponseWritten
      <4> QED
        BY <2>4, <4>1, <4>2
    <3>2. air \in Seq(Honest')
      BY <1>1, SeqMonotone
    <3>3. Append(air, x) \in Seq(Honest')
      BY <3>2
    <3> QED
      BY <3>1, <3>2, <3>3
  <2> QED
    BY <2>1, <2>2, <2>3, <2>4, AirFrame
<1>4. rx' \in [Gens -> Seq(Honest')]
  <2>1. \A g \in Gens : rx'[g] \in Seq(Honest')
    BY <1>1, <1>2, SeqMonotone
  <2> QED
    BY <1>2, <2>1
<1>5. ASSUME NEW s \in Requests, pc'[s] = "judge" PROVE txResp'[s] \in Honest'
  <2>1. CASE pc[s] = "judge" /\ txResp'[s] = txResp[s]
    BY <1>1, <2>1
  <2>2. CASE ReceiveResponse(s)
    <3>0. txPeer[s] \in Peers
      BY <2>2 DEF ReceiveResponse, TxInv, TxOK
    <3>1. txChan[s] \in Gens /\ rx[txChan[s]] # <<>> /\ txResp'[s] = Head(rx[txChan[s]])
      BY <2>2, <3>0 DEF ReceiveResponse, WaitReceive, ResponsePinned, TypeOK,
         OrchestratorTypeOK, TxTypeOK, PeripheralTypeOK
    <3>2. rx[txChan[s]] \in Seq(Honest)
      BY <3>1
    <3>3. Head(rx[txChan[s]]) \in Honest
      BY <3>1, <3>2
    <3> QED
      BY <1>1, <3>1, <3>3
  <2> QED
    BY <1>5, <2>1, <2>2, JudgeFrame
<1> QED
  BY <1>3, <1>4, <1>5

-----------------------------------------------------------------------------
(* Verdicts.                                                                  *)

(* What a transaction has captured, and its verdict, are never revised.       *)
Kept(s) ==
    /\ txPeer[s] \in Peers => txPeer'[s] = txPeer[s]
    /\ txNonce[s] \in Nonces => txNonce'[s] = txNonce[s]
    /\ out[s] # "none" => out'[s] = out[s]

LEMMA Stable ==
    ASSUME TypeOK, TxInv, [Next]_vars, NEW s \in Requests
    PROVE  Kept(s)
<1> USE DEF TypeOK, OrchestratorTypeOK, TxTypeOK, Kept
<1>1. ASSUME NEW r \in Requests, TxStep(r) PROVE Kept(s)
  <2>0. TxOK(r)
    BY DEF TxInv
  <2>1. ASSUME NEW n \in Nonces, AcquireSlot(r, n) PROVE Kept(s)
    BY <2>0, <2>1 DEF AcquireSlot, TxOK
  <2>2. CASE ReceiveResponse(r) \/ Return(r)
    BY <2>2 DEF ReceiveResponse, Return, captured
  <2>3. ASSUME NEW o \in Outcomes, Concluded(r, o) PROVE Kept(s)
    BY <2>0, <2>3 DEF Concluded, Conclude, captured, TxOK
  <2>4. CASE ChallengeDrain(r) \/ AwaitResponse(r)
    BY <2>4 DEF ChallengeDrain, AwaitResponse
  <2>5. "transport-error" \in Outcomes
    BY DEF Outcomes
  <2> QED
    BY <1>1, <2>1, <2>2, <2>3, <2>4, <2>5, TxStepKinds
<1>2. ASSUME NEW r \in Requests, NEW p \in Peers, TxBegin(r, p) PROVE Kept(s)
  <2>1. TxOK(r)
    BY DEF TxInv
  <2> QED
    BY <1>2, <2>1 DEF TxBegin, LookupUnknown, LookupPeer, Conclude, TxOK
<1>3. ASSUME NEW r \in Requests, SendStep(r) PROVE Kept(s)
  BY <1>3 DEF SendStep, SendDelivered, ChallengeSend, captured
<1>4. CASE OtherStep
  BY <1>4, OtherStepFrame DEF txVars, captured
<1> QED
  BY <1>1, <1>2, <1>3, <1>4, StepKinds

(* "ok" is the verdict of one action only.                                    *)
LEMMA OkByJudge ==
    ASSUME TypeOK, TxInv, [Next]_vars, NEW s \in Requests, out[s] # "ok", out'[s] = "ok"
    PROVE  JudgeOk(s)
<1> USE DEF TypeOK, OrchestratorTypeOK, TxTypeOK
<1>1. ASSUME NEW r \in Requests, TxStep(r) PROVE JudgeOk(s)
  <2>1. ASSUME NEW o \in Outcomes, Concluded(r, o) PROVE s = r /\ o = "ok"
    BY <2>1 DEF Concluded, Conclude
  <2>2. ASSUME NEW n \in Nonces, AcquireSlot(r, n) PROVE FALSE
    BY <2>2 DEF AcquireSlot
  <2>3. ASSUME ChallengeDrain(r) \/ AwaitResponse(r) \/ ReceiveResponse(r) \/ Return(r)
        PROVE  FALSE
    BY <2>3 DEF ChallengeDrain, AwaitResponse, ReceiveResponse, Return
  <2>4. "transport-error" \in Outcomes /\ "transport-error" # "ok"
    BY DEF Outcomes
  <2> QED
    BY <1>1, <2>1, <2>2, <2>3, <2>4, TxStepKinds
<1>2. ASSUME NEW r \in Requests, NEW p \in Peers, TxBegin(r, p) PROVE FALSE
  BY <1>2 DEF TxBegin, LookupUnknown, LookupPeer, Conclude
<1>3. ASSUME NEW r \in Requests, SendStep(r) PROVE FALSE
  BY <1>3 DEF SendStep, SendDelivered, ChallengeSend
<1>4. CASE OtherStep
  BY <1>4, OtherStepFrame DEF txVars
<1> QED
  BY <1>1, <1>2, <1>3, <1>4, StepKinds

(* A signature the daemon accepts was made by the phone on approval.          *)
LEMMA AcceptedIsApproved ==
    ASSUME TxInv, ResponseInv, NEW r \in Requests, JudgeOk(r)
    PROVE  <<txPeer[r], txNonce[r]>> \in approved
<1>1. pc[r] = "judge" /\ txResp[r] = <<txPeer[r], txNonce[r]>>
  BY DEF JudgeOk, Verified
<1>2. txPeer[r] \in Peers /\ txNonce[r] \in Nonces
  BY <1>1 DEF TxInv, TxOK, InFlight
<1>3. txResp[r] \in Honest
  BY <1>1 DEF ResponseInv
<1> QED
  BY <1>1, <1>2, <1>3 DEF Honest

LEMMA NextOkIsApproved ==
    ASSUME TypeOK, TxInv, ResponsePinned, ResponseInv, OkIsApproved, [Next]_vars
    PROVE  OkIsApproved'
<1> SUFFICES ASSUME NEW s \in Requests, out'[s] = "ok"
             PROVE  <<txPeer'[s], txNonce'[s]>> \in approved'
  BY DEF OkIsApproved
<1>1. approved \subseteq approved'
  BY ApprovedFrame DEF PhoneApprove
<1>2. CASE out[s] = "ok"
  <2>1. <<txPeer[s], txNonce[s]>> \in approved
    BY <1>2 DEF OkIsApproved
  <2>2. txPeer[s] \in Peers /\ txNonce[s] \in Nonces
    BY <2>1 DEF TypeOK, EnvTypeOK, PhoneTypeOK
  <2> QED
    BY <1>1, <2>1, <2>2, Stable DEF Kept
<1>3. CASE out[s] # "ok"
  <2>1. JudgeOk(s)
    BY <1>3, OkByJudge
  <2>2. UNCHANGED captured
    BY <2>1 DEF JudgeOk, Judge
  <2> QED
    BY <1>1, <2>1, <2>2, AcceptedIsApproved DEF captured
<1> QED
  BY <1>2, <1>3

(* Phones only ever show challenges of transactions.                          *)
LEMMA NextInbox ==
    ASSUME TypeOK, TxInv, InboxInv, [Next]_vars
    PROVE  InboxInv'
<1> SUFFICES ASSUME NEW p \in Peers, NEW n \in inbox'[p]
             PROVE  \E r \in Requests : txNonce'[r] = n
  BY DEF InboxInv
<1> USE DEF TypeOK, EnvTypeOK, PhoneTypeOK
<1>1. CASE n \in inbox[p]
  <2>1. PICK r \in Requests : txNonce[r] = n
    BY <1>1 DEF InboxInv
  <2>2. n \in Nonces
    BY <1>1
  <2> QED
    BY <2>1, <2>2, Stable DEF Kept
<1>2. CASE n \notin inbox[p]
  <2>1. PICK r \in Requests : SendStep(r)
    <3>1. ASSUME NEW r \in Requests, NEW q \in Peers, TxBegin(r, q) PROVE UNCHANGED inbox
      BY <3>1 DEF TxBegin, envVars, phoneVars
    <3>2. ASSUME NEW r \in Requests, TxStep(r) PROVE UNCHANGED inbox
      BY <3>2 DEF TxStep, envVars, phoneVars
    <3>3. CASE OtherStep
      <4>1. \/ UNCHANGED inbox
            \/ \E q \in Peers, m \in Nonces : PhoneApprove(q, m) \/ PhoneDeny(q, m)
        BY <3>3, WriterStepFrame
        DEF OtherStep, ReloadStep, LinkStep, Tick, TakeReload, TakeReloadSkipped,
            InotifyReload, OperatorReload, PairOverAir, CliRevoke, CliPair, vars,
            envVars, phoneVars
      <4>2. ASSUME NEW q \in Peers, NEW m \in Nonces,
                   inbox' = [inbox EXCEPT ![q] = @ \ {m}]
            PROVE  FALSE
        BY <1>2, <4>2
      <4> QED
        BY <1>2, <4>1, <4>2 DEF PhoneApprove, PhoneDeny
    <3> QED
      BY <1>2, <3>1, <3>2, <3>3, StepKinds
  <2>2. txNonce[r] = n /\ UNCHANGED captured
    BY <1>2, <2>1 DEF SendStep, SendDelivered, ChallengeSend
  <2> QED
    BY <2>2 DEF captured
<1> QED
  BY <1>1, <1>2

-----------------------------------------------------------------------------
(* The inductive invariant of the transactions.                               *)

LEMMA InitCoreInv == Init => CoreInv
<1> SUFFICES ASSUME Init PROVE CoreInv
  OBVIOUS
<1>1. TypeOK
  BY InitTypes
<1>2. PICK seed \in SUBSET Peers, key \in Keys \cup {None} :
        PeripheralNew(seed) /\ OrchestratorNew(seed, key)
  BY DEF Init
<1>3. TxInv /\ LockInv /\ OkIsApproved
  BY <1>2 DEF PeripheralNew, OrchestratorNew, TxInv, TxOK, InFlight, LockInv, OkIsApproved
<1>4. ReloadInv /\ MapsAgree /\ ResponsePinned
  BY <1>2 DEF PeripheralNew, OrchestratorNew, ReloadInv, MapsAgree, ResponsePinned
<1>5. ResponseInv
  BY <1>2, EmptyHonest DEF PeripheralNew, OrchestratorNew, ResponseInv
<1>6. InboxInv
  BY DEF Init, InboxInv
<1> QED
  BY <1>1, <1>3, <1>4, <1>5, <1>6 DEF CoreInv

(* Init establishes CoreInv and every step keeps it.                             *)
THEOREM CoreInductive == Spec => []CoreInv
<1>1. ASSUME CoreInv, [Next]_vars PROVE CoreInv'
  BY <1>1, NextTypes, NextTxInv, NextLockInv, NextMaps, NextPinned, NextResponses,
     NextInbox, NextOkIsApproved
  DEF CoreInv
<1> QED
  BY <1>1, InitCoreInv, PTL DEF Spec

(* Every variable of the daemon, of its files and of the phones keeps its     *)
(* type, whatever the sizes of the instance.                                  *)
THEOREM TypeCorrect == Spec => []TypeOK
<1>1. CoreInv => TypeOK
  BY DEF CoreInv
<1> QED
  BY <1>1, CoreInductive, PTL

(* No unlock without an approval: issue_challenge answers "ok" only for a     *)
(* nonce the right phone signed after its user approved.                      *)
THEOREM NoUnlockWithoutApproval == Spec => []OkIsApproved
<1>1. CoreInv => OkIsApproved
  BY DEF CoreInv
<1> QED
  BY <1>1, CoreInductive, PTL

(* challenge_slot admits one transaction at a time through a PeerEntry.       *)
THEOREM PermitsAreExclusive == Spec => []PermitExclusive
<1>1. CoreInv => PermitExclusive
  BY TxInvPermit DEF CoreInv
<1> QED
  BY <1>1, CoreInductive, PTL

(* The orchestrator's map and the peripheral's map agree between the steps of *)
(* a reload.                                                                  *)
THEOREM MapsStayTogether == Spec => []MapsAgree
<1>1. CoreInv => MapsAgree
  BY DEF CoreInv
<1> QED
  BY <1>1, CoreInductive, PTL

(* wait_for_response never waits on a characteristic set that was removed.    *)
THEOREM WaitsArePinned == Spec => []ResponsePinned
<1>1. CoreInv => ResponsePinned
  BY DEF CoreInv
<1> QED
  BY <1>1, CoreInductive, PTL

(* A response is taken only from a registered peer, and "ok" is said only     *)
(* over a response that was taken: remove_peer cuts off every transaction     *)
(* that has no response yet.                                                  *)
THEOREM NoResponseAfterRemoval == Spec => TakenWhileRegistered
<1> DEFINE Step(r) == /\ pc[r] # "judge" /\ pc'[r] = "judge" => chars[txPeer[r]] # 0
                      /\ out[r] # "ok" /\ out'[r] = "ok" => pc[r] = "judge"
<1>1. ASSUME CoreInv, [Next]_vars
      PROVE  [\A r \in Requests : Step(r)]_vars
  <2> SUFFICES ASSUME NEW r \in Requests PROVE Step(r)
    OBVIOUS
  <2>1. ASSUME pc[r] # "judge", pc'[r] = "judge" PROVE chars[txPeer[r]] # 0
    <3>1. ReceiveResponse(r)
      BY <1>1, <2>1, JudgeFrame DEF CoreInv
    <3> QED
      BY <1>1, <3>1 DEF CoreInv, ResponsePinned, ReceiveResponse
  <2>2. ASSUME out[r] # "ok", out'[r] = "ok" PROVE pc[r] = "judge"
    BY <1>1, <2>2, OkByJudge DEF CoreInv, JudgeOk
  <2> QED
    BY <2>1, <2>2
<1> QED
  BY <1>1, CoreInductive, PTL DEF Spec, TakenWhileRegistered

-----------------------------------------------------------------------------
(* Refinement.                                                                *)

LEMMA InitSvc == Init => Svc!SvcInit
<1> SUFFICES ASSUME Init PROVE Svc!SvcInit
  OBVIOUS
<1>1. PICK seed, key : OrchestratorNew(seed, key)
  BY DEF Init
<1> QED
  BY <1>1 DEF Init, OrchestratorNew, Svc!SvcInit, TxState

(* A verdict closes an open request.                                          *)
LEMMA ConcludeAnswers ==
    ASSUME TypeOK, NEW r \in Requests, NEW o \in Outcomes, Conclude(r, o),
           pc[r] # "idle", out[r] = "none", UNCHANGED <<captured, approved>>,
           o = "ok" => <<txPeer[r], txNonce[r]>> \in approved
    PROVE  Svc!SvcNext
<1> USE DEF TypeOK, OrchestratorTypeOK, TxTypeOK
<1>1. o # "none" /\ "return" # "idle"
  BY DEF Outcomes
<1>2. [s \in Requests |-> TxState(s)'] =
        [[s \in Requests |-> TxState(s)] EXCEPT ![r] = "closed"]
  BY <1>1 DEF TxState, Conclude
<1>3. Svc!Answer(r, o)
  BY <1>2 DEF Svc!Answer, TxState, Conclude, captured
<1> QED
  BY <1>3 DEF Svc!SvcNext

(* A step that leaves what the service shows alone.                           *)
LEMMA SvcStutter ==
    ASSUME TypeOK, UNCHANGED <<txPeer, txNonce, out, approved>>,
           \A s \in Requests : TxState(s)' = TxState(s)
    PROVE  UNCHANGED Svc!svcVars
BY DEF Svc!svcVars

LEMMA TxStepSvc ==
    ASSUME CoreInv, NEW r \in Requests, TxStep(r)
    PROVE  [Svc!SvcNext]_(Svc!svcVars)
<1> USE DEF TypeOK, OrchestratorTypeOK, TxTypeOK
<1>0. TypeOK /\ TxOK(r) /\ UNCHANGED approved
  BY DEF CoreInv, TxInv, TxStep, envVars, phoneVars
<1>1. ASSUME NEW n \in Nonces, AcquireSlot(r, n) PROVE Svc!SvcNext
  <2>1. /\ pc[r] = "queue" /\ out[r] = "none" /\ txNonce[r] = None
        /\ pc' = [pc EXCEPT ![r] = "notify"] /\ UNCHANGED <<txPeer, out>>
        /\ txNonce' = [txNonce EXCEPT ![r] = n]
    BY <1>0, <1>1 DEF AcquireSlot, TxOK
  <2>2. [s \in Requests |-> TxState(s)'] = [s \in Requests |-> TxState(s)]
    BY <1>0, <2>1 DEF TxState
  <2>3. Svc!Ask(r, n)
    BY <1>0, <2>1, <2>2, ZenonT(30) DEF Svc!Ask, TxState
  <2> QED
    BY <2>3 DEF Svc!SvcNext
<1>2. ASSUME NEW o \in Outcomes, Concluded(r, o), o = "ok" => JudgeOk(r)
      PROVE  Svc!SvcNext
  <2>1. o = "ok" => <<txPeer[r], txNonce[r]>> \in approved
    BY <1>2, AcceptedIsApproved DEF CoreInv
  <2>2. pc[r] # "idle" /\ out[r] = "none"
    BY <1>0, <1>2 DEF TxOK, Concluded
  <2> QED
    BY <1>0, <1>2, <2>1, <2>2, ConcludeAnswers DEF Concluded
<1>3. CASE ChallengeDrain(r) \/ AwaitResponse(r) \/ ReceiveResponse(r) \/ Return(r)
  <2>1. /\ pc[r] # "idle" /\ pc'[r] # "idle" /\ \A s \in Requests \ {r} : pc'[s] = pc[s]
        /\ UNCHANGED <<txPeer, txNonce, out>>
    BY <1>0, <1>3 DEF ChallengeDrain, AwaitResponse, ReceiveResponse, Return, captured
  <2> QED
    BY <1>0, <2>1, SvcStutter DEF TxState
<1>4. "transport-error" \in Outcomes /\ "transport-error" # "ok" /\ TxInv
  BY DEF Outcomes, CoreInv
<1> QED
  BY <1>1, <1>2, <1>3, <1>4, TxStepKinds

LEMMA NextSvc ==
    ASSUME CoreInv, [Next]_vars
    PROVE  [Svc!SvcNext]_(Svc!svcVars)
<1> USE DEF TypeOK, OrchestratorTypeOK, TxTypeOK
<1>0. TypeOK
  BY DEF CoreInv
<1>1. ASSUME NEW r \in Requests, NEW p \in Peers, TxBegin(r, p) PROVE Svc!SvcNext
  <2>0. /\ out[r] = "none" /\ pc[r] = "idle"
        /\ UNCHANGED <<txNonce, approved>> /\ txPeer' = [txPeer EXCEPT ![r] = p]
    BY <1>1 DEF CoreInv, TxInv, TxOK, TxBegin, LookupUnknown, LookupPeer, envVars, phoneVars
  <2>1. CASE LookupUnknown(r, p)
    <3>1. [s \in Requests |-> TxState(s)'] =
            [[s \in Requests |-> TxState(s)] EXCEPT ![r] = "closed"]
      BY <1>0, <2>1 DEF TxState, LookupUnknown, Conclude
    <3>2. Svc!Refuse(r, p)
      BY <1>0, <2>0, <2>1, <3>1 DEF Svc!Refuse, TxState, LookupUnknown, Conclude
    <3> QED
      BY <3>2 DEF Svc!SvcNext
  <2>2. CASE LookupPeer(r, p)
    <3>1. [s \in Requests |-> TxState(s)'] =
            [[s \in Requests |-> TxState(s)] EXCEPT ![r] = "open"]
      BY <1>0, <2>0, <2>2 DEF TxState, LookupPeer
    <3>2. Svc!Open(r, p)
      BY <1>0, <2>0, <2>2, <3>1 DEF Svc!Open, TxState, LookupPeer
    <3> QED
      BY <3>2 DEF Svc!SvcNext
  <2> QED
    BY <1>1, <2>1, <2>2 DEF TxBegin
<1>2. ASSUME NEW r \in Requests, SendStep(r)
      PROVE  UNCHANGED Svc!svcVars
  <2>1. /\ pc[r] = "send" /\ pc' = [pc EXCEPT ![r] = "wait"]
        /\ UNCHANGED <<txPeer, txNonce, out, approved>>
    BY <1>2 DEF SendStep, SendDelivered, ChallengeSend, captured, phoneVars
  <2>2. \A s \in Requests : TxState(s)' = TxState(s)
    BY <1>0, <2>1 DEF TxState
  <2> QED
    BY <1>0, <2>1, <2>2, SvcStutter
<1>3. CASE OtherStep
  <2>1. UNCHANGED <<pc, txPeer, txNonce, out>>
    BY <1>3, OtherStepFrame DEF txVars, captured
  <2>2. CASE UNCHANGED approved
    BY <1>0, <2>1, <2>2, SvcStutter DEF TxState
  <2>3. ASSUME NEW p \in Peers, NEW n \in Nonces, PhoneApprove(p, n) PROVE Svc!SvcNext
    <3>1. \E r \in Requests : txNonce[r] = n
      BY <2>3 DEF PhoneApprove, CoreInv, InboxInv
    <3>2. [s \in Requests |-> TxState(s)'] = [s \in Requests |-> TxState(s)]
      BY <2>1 DEF TxState
    <3>3. Svc!Sign(p, n)
      BY <2>1, <2>3, <3>1, <3>2 DEF Svc!Sign, PhoneApprove
    <3> QED
      BY <3>3 DEF Svc!SvcNext
  <2> QED
    BY <2>2, <2>3, ApprovedFrame
<1> QED
  BY <1>1, <1>2, <1>3, TxStepSvc, StepKinds

(* The daemon, for every instance, implements the unlock service: each of its *)
(* steps is a step of UnlockService on what a PAM caller and a phone's user   *)
(* can see, or changes nothing they can see.                                  *)
THEOREM Refinement == Spec => ImplementsUnlockService
<1>1. Init => Svc!SvcInit
  BY InitSvc
<1>2. ASSUME CoreInv, [Next]_vars PROVE [Svc!SvcNext]_(Svc!svcVars)
  BY <1>2, NextSvc
<1> QED
  BY <1>1, <1>2, CoreInductive, PTL DEF Spec, ImplementsUnlockService, Svc!SvcSpec
=============================================================================

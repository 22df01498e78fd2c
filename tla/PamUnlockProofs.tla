--------------------------- MODULE PamUnlockProofs ---------------------------
(* Theorems about PamUnlock, for every number of calls, probes and peers and  *)
(* every value of the timeouts and bounds.                                    *)
EXTENDS PamUnlock, FiniteSetTheorems, SequenceTheorems, WellFoundedInduction, TLAPS

USE PamUnlockAssumption, LastLogAssumption
DEF PamUnlockAssumption, LastLogAssumption, Calls

-----------------------------------------------------------------------------
(* Facts about the operators on sequences the model uses.                     *)

(* A set of natural numbers has a least element, and Min is it.               *)
LEMMA MinIsLeast ==
    ASSUME NEW I \in SUBSET Nat, I # {}
    PROVE  Min(I) \in I /\ \A j \in I : Min(I) <= j
<1> DEFINE R == OpToRel(<, Nat)
<1>1. \A a, b \in Nat : a < b => <<a, b>> \in R
  BY DEF OpToRel
<1>2. PICK m \in I : \A j \in I : ~(<<j, m>> \in R)
  BY NatLessThanWellFounded, WFMin
<1> HIDE DEF R
<1>3. ASSUME NEW j \in I PROVE m <= j
  <2>1. m \in Nat /\ j \in Nat /\ ~(<<j, m>> \in R)
    BY <1>2
  <2>2. ~(j < m)
    BY <1>1, <2>1
  <2> QED
    BY <2>1, <2>2
<1> QED
  BY <1>3 DEF Min

Record == [peer : Peers, st : {"bonded", "revoked"}]

(* `find` yields a bonded record, if there is one.                            *)
LEMMA FirstBondedIsBonded ==
    ASSUME NEW s \in Seq(Record)
    PROVE  /\ FirstActive(s) = FirstBonded(s)
           /\ FirstBonded(s) # None => FirstBonded(s) \in BondedPeers(s)
           /\ BondedPeers(s) \subseteq Peers
<1> DEFINE I == {i \in 1..Len(s) : s[i].st = "bonded"}
<1>0. I \in SUBSET Nat /\ Len(s) \in Nat
  OBVIOUS
<1>5. I # {} => Min(I) \in I /\ Min(I) # 0
  <2>1. \A i \in I : i # 0
    OBVIOUS
  <2> HIDE DEF I
  <2> QED
    BY <1>0, <2>1, MinIsLeast
<1>1. FirstBonded(s) = IF I # {} THEN s[Min(I)].peer ELSE None
  <2>1. FirstBonded(s) = IF (IF I # {} THEN Min(I) ELSE 0) = 0 THEN None
                         ELSE s[IF I # {} THEN Min(I) ELSE 0].peer
    BY DEF FirstBonded, SelectInSeq
  <2> HIDE DEF I
  <2> QED
    BY <1>5, <2>1
<1>2. FirstActive(s) = FirstBonded(s)
  BY DEF FirstActive, FirstBonded
<1>3. BondedPeers(s) = {s[i].peer : i \in I}
  BY DEF BondedPeers, ToSet
<1>4. \A i \in I : s[i].peer \in Peers
  <2>1. \A i \in 1..Len(s) : s[i] \in Record
    BY ElementOfSeq
  <2> QED
    BY <2>1 DEF Record
<1> HIDE DEF I
<1> QED
  BY <1>1, <1>2, <1>3, <1>4, <1>5

(* Leaving a queue in which one stands at most once moves the others up and   *)
(* keeps their order.                                                         *)
LEMMA RemoveFirstFacts ==
    ASSUME NEW S, NEW s \in Seq(S), NEW c,
           \A i, j \in DOMAIN s : s[i] = s[j] => i = j,
           NEW t, t = RemoveFirst(s, c)
    PROVE  /\ t \in Seq(S)
           /\ \A i \in DOMAIN t : /\ t[i] # c
                                  /\ \/ i \in DOMAIN s /\ t[i] = s[i]
                                     \/ i + 1 \in DOMAIN s /\ t[i] = s[i + 1]
           /\ \A i, j \in DOMAIN t : t[i] = t[j] => i = j
           /\ \A i \in DOMAIN s : s[i] # c => \E j \in DOMAIN t : t[j] = s[i]
<1> DEFINE I == {i \in 1..Len(s) : s[i] = c}
<1>0. DOMAIN s = 1..Len(s) /\ Len(s) \in Nat
  BY LenProperties
<1>1. t = IF I # {} THEN RemoveAt(s, Min(I)) ELSE s
  BY DEF RemoveFirst, SelectInSeq
<1>2. CASE I = {}
  BY <1>0, <1>1, <1>2
<1>3. CASE I # {}
  <2>0. I \in SUBSET Nat
    BY <1>0
  <2>1. PICK k \in 1..Len(s) : k = Min(I) /\ s[k] = c
    <3>1. Min(I) \in I
      BY <1>3, <2>0, MinIsLeast
    <3> QED
      BY <3>1
  <2>2. t = SubSeq(s, 1, k - 1) \o SubSeq(s, k + 1, Len(s))
    BY <1>1, <1>3, <2>1 DEF RemoveAt
  <2> DEFINE a == SubSeq(s, 1, k - 1)
             b == SubSeq(s, k + 1, Len(s))
  <2> HIDE DEF a, b, I
  <2>3. a \in Seq(S) /\ Len(a) = k - 1 /\ \A i \in 1..(k - 1) : a[i] = s[i]
    <3>1. 1 \in Int /\ k - 1 \in Int /\ \A i \in 1..(k - 1) : s[i] \in S
      BY <1>0, ElementOfSeq
    <3> QED
      BY <3>1, SubSeqProperties DEF a
  <2>4. b \in Seq(S) /\ Len(b) = Len(s) - k /\ \A i \in 1..(Len(s) - k) : b[i] = s[k + i]
    <3>1. k + 1 \in Int /\ Len(s) \in Int /\ \A i \in (k + 1)..Len(s) : s[i] \in S
      BY <1>0, ElementOfSeq
    <3>2. /\ b \in Seq(S)
          /\ Len(b) = IF k + 1 <= Len(s) THEN Len(s) - (k + 1) + 1 ELSE 0
          /\ \A i \in 1..(Len(s) - (k + 1) + 1) : b[i] = s[(k + 1) + i - 1]
      BY <3>1, SubSeqProperties DEF b
    <3>3. k \in Nat /\ k <= Len(s) /\ Len(b) = Len(s) - k
      BY <1>0, <2>1, <3>2
    <3>4. ASSUME NEW i \in 1..(Len(s) - k) PROVE b[i] = s[k + i]
      <4>1. i \in 1..(Len(s) - (k + 1) + 1) /\ (k + 1) + i - 1 = k + i
        BY <1>0, <3>3
      <4> QED
        BY <3>2, <4>1
    <3> QED
      BY <3>2, <3>3, <3>4
  <2>5. /\ t \in Seq(S) /\ Len(t) = Len(s) - 1
        /\ \A i \in 1..(Len(s) - 1) : t[i] = IF i < k THEN a[i] ELSE b[i - (k - 1)]
    <3>1. t = a \o b
      BY <2>2 DEF a, b
    <3>2. /\ t \in Seq(S) /\ Len(t) = Len(a) + Len(b)
          /\ \A i \in 1..(Len(a) + Len(b)) :
                t[i] = IF i <= Len(a) THEN a[i] ELSE b[i - Len(a)]
      <4>1. /\ a \o b \in Seq(S) /\ Len(a \o b) = Len(a) + Len(b)
            /\ \A i \in 1..(Len(a) + Len(b)) :
                  (a \o b)[i] = IF i <= Len(a) THEN a[i] ELSE b[i - Len(a)]
        <5>1. a \in Seq(S) /\ b \in Seq(S)
          BY <2>3, <2>4
        <5> QED
          BY <5>1
      <4> QED
        BY <3>1, <4>1
    <3>3. Len(a) + Len(b) = Len(s) - 1 /\ k \in Nat
      BY <1>0, <2>1, <2>3, <2>4
    <3>4. ASSUME NEW i \in 1..(Len(s) - 1)
          PROVE  t[i] = IF i < k THEN a[i] ELSE b[i - (k - 1)]
      <4>1. i <= Len(a) <=> i < k
        BY <1>0, <2>3, <3>3
      <4> QED
        BY <2>3, <3>2, <3>3, <4>1
    <3> QED
      BY <3>2, <3>3, <3>4
  <2>6. /\ DOMAIN t = 1..(Len(s) - 1)
        /\ \A i \in DOMAIN t : t[i] = IF i < k THEN s[i] ELSE s[i + 1]
    <3>1. DOMAIN t = 1..(Len(s) - 1)
      BY <2>5, LenProperties
    <3>2. ASSUME NEW i \in 1..(Len(s) - 1), i < k PROVE t[i] = s[i]
      BY <1>0, <2>1, <2>3, <2>5, <3>2
    <3>3. ASSUME NEW i \in 1..(Len(s) - 1), ~(i < k) PROVE t[i] = s[i + 1]
      <4>1. i - (k - 1) \in 1..(Len(s) - k) /\ k + (i - (k - 1)) = i + 1
        BY <1>0, <2>1, <3>3
      <4> QED
        BY <2>4, <2>5, <3>3, <4>1
    <3> QED
      BY <3>1, <3>2, <3>3
  <2>7. \A i \in DOMAIN t : /\ t[i] # c
                            /\ \/ i \in DOMAIN s /\ t[i] = s[i]
                               \/ i + 1 \in DOMAIN s /\ t[i] = s[i + 1]
    BY <1>0, <2>1, <2>6
  <2>8. \A i, j \in DOMAIN t : t[i] = t[j] => i = j
    BY <1>0, <2>1, <2>6
  <2>9. ASSUME NEW i \in DOMAIN s, s[i] # c PROVE \E j \in DOMAIN t : t[j] = s[i]
    <3>1. CASE i < k
      BY <1>0, <2>1, <2>6, <3>1
    <3>2. CASE i > k
      <4>1. i - 1 \in DOMAIN t /\ ~(i - 1 < k) /\ (i - 1) + 1 = i
        BY <1>0, <2>1, <2>6, <3>2
      <4> QED
        BY <2>6, <4>1
    <3> QED
      BY <1>0, <2>1, <2>9, <3>1, <3>2
  <2> QED
    BY <2>5, <2>7, <2>8, <2>9
<1> QED
  BY <1>2, <1>3

-----------------------------------------------------------------------------
(* The two ends of a connection.                                              *)

Ends == client \in [Calls -> Client] /\ conn \in [Calls -> Conn]

LEMMA EndsOfTypeOK == TypeOK => Ends
BY DEF TypeOK, Ends

(* A step of call c touches the two ends of its own connection only.          *)
Alone(c) == \A d \in Calls \ {c} : client'[d] = client[d] /\ conn'[d] = conn[d]

(* What a step of one call has to show.                                       *)
CallStep(c) == Ends' /\ Alone(c) /\ CallOK(c)'

LEMMA CallStepKeeps ==
    ASSUME CallInv, NEW c \in Calls, CallStep(c)
    PROVE  Ends' /\ CallInv'
<1> SUFFICES ASSUME NEW d \in Calls, d # c PROVE CallOK(d)'
  BY DEF CallInv, CallStep
<1>1. client'[d] = client[d] /\ conn'[d] = conn[d] /\ CallOK(d)
  BY DEF CallInv, CallStep, Alone
<1> QED
  BY <1>1 DEF CallOK

(* The caller gives up or has its answer.                                     *)
LEMMA GiveUpStep ==
    ASSUME Ends, NEW c \in Calls, CallOK(c), NEW r \in Reasons, GiveUp(c, r), UNCHANGED conn,
           client[c].pc \in {"idle", "connect", "write", "read"}, client[c].code = "none",
           r \notin {"none", "panic"} \/ c \notin PamCalls,
           r \in OwnReasons \/ (r = conn[c].out /\ conn[c].replied)
    PROVE  CallStep(c)
<1>1. Ends' /\ Alone(c)
  BY DEF Ends, Client, ClientPCs, GiveUp, Alone
<1>2. /\ client'[c].pc = IF c \in PamCalls THEN "log" ELSE "done"
      /\ client'[c].reason = r /\ client'[c].code = client[c].code
      /\ client'[c].sent = client[c].sent /\ conn'[c] = conn[c]
  BY DEF Ends, Client, GiveUp
<1>3. CallOK(c)'
  BY <1>2 DEF CallOK
<1> QED
  BY <1>1, <1>3 DEF CallStep

LEMMA ClientSteps ==
    ASSUME Ends, CallInv, NEW c \in Calls, Begin(c) \/ ClientStep(c) \/ Panic(c) \/ Kill(c),
           FirstBonded(bonds) \in Peers \cup {None}
    PROVE  CallStep(c)
<1>0. CallOK(c)
  BY DEF CallInv
<1>1. ASSUME ResolvePeer(c) PROVE CallStep(c)
  <2>1. Ends' /\ Alone(c)
    <3>1. client' \in [Calls -> Client]
      <4>1. client' = [client EXCEPT ![c].pc = "connect", ![c].peer = FirstBonded(bonds)]
        BY <1>1 DEF ResolvePeer
      <4> QED
        BY <4>1 DEF Ends, Client, ClientPCs
    <3> QED
      BY <1>1, <3>1 DEF Ends, ResolvePeer, serverVars, Alone
  <2>2. /\ client[c].pc = "idle" /\ client'[c].pc = "connect" /\ conn'[c] = conn[c]
        /\ client'[c].reason = client[c].reason /\ client'[c].code = client[c].code
        /\ client'[c].sent = client[c].sent
    BY <1>1 DEF Ends, Client, ResolvePeer, serverVars
  <2>3. CallOK(c)'
    BY <1>0, <2>2 DEF CallOK
  <2> QED
    BY <2>1, <2>3 DEF CallStep
<1>2. ASSUME ResolveNobody(c) PROVE CallStep(c)
  <2>1. PICK r \in {"no bonded peer", "no bonds configured"} : GiveUp(c, r)
    BY <1>2 DEF ResolveNobody
  <2>2. UNCHANGED conn /\ client[c].pc = "idle"
    BY <1>2 DEF ResolveNobody, serverVars
  <2> QED
    BY <1>0, <2>1, <2>2, GiveUpStep DEF CallOK, OwnReasons, Reasons
<1>3. ASSUME ProbeStart(c) PROVE CallStep(c)
  <2>1. Ends' /\ Alone(c)
    BY <1>3 DEF Ends, Client, ClientPCs, ProbeStart, Step, serverVars, Alone
  <2>2. /\ client[c].pc = "idle" /\ client'[c].pc = "connect" /\ conn'[c] = conn[c]
        /\ client'[c].reason = client[c].reason /\ client'[c].code = client[c].code
        /\ client'[c].sent = client[c].sent
    BY <1>3 DEF Ends, Client, ProbeStart, Step, serverVars
  <2>3. CallOK(c)'
    BY <1>0, <2>2 DEF CallOK
  <2> QED
    BY <2>1, <2>3 DEF CallStep
<1>4. ASSUME Connect(c) PROVE CallStep(c)
  <2>1. Ends' /\ Alone(c)
    <3>1. client' \in [Calls -> Client]
      BY <1>4, ZenonT(30) DEF Ends, Client, ClientPCs, Connect, Step
    <3>2. conn' \in [Calls -> Conn]
      BY <1>4, ZenonT(30) DEF Ends, Conn, ConnPCs, Connect
    <3> QED
      BY <1>4, <3>1, <3>2 DEF Ends, Connect, Step, Alone
  <2>2. /\ client[c].pc = "connect" /\ client'[c].pc = "write"
        /\ client'[c].reason = client[c].reason /\ client'[c].code = client[c].code
        /\ client'[c].sent = client[c].sent
        /\ conn'[c].pc = "queued" /\ conn'[c].out = conn[c].out
        /\ conn'[c].replied = conn[c].replied
    BY <1>4 DEF Ends, Client, Conn, Connect, Step
  <2>3. CallOK(c)'
    BY <1>0, <2>2 DEF CallOK
  <2> QED
    BY <2>1, <2>3 DEF CallStep
<1>5. ASSUME ConnectFails(c) \/ ConnectionLost(c) \/ ReadTimesOut(c) PROVE CallStep(c)
  <2>1. /\ GiveUp(c, "transport-error") /\ UNCHANGED conn
        /\ client[c].pc \in {"connect", "write", "read"}
    BY <1>5 DEF ConnectFails, ConnectionLost, ReadTimesOut, serverVars
  <2> QED
    BY <1>0, <2>1, GiveUpStep DEF CallOK, OwnReasons, Reasons, ChallengeReasons
<1>6. ASSUME WriteRequest(c) PROVE CallStep(c)
  <2>1. Ends' /\ Alone(c)
    BY <1>6 DEF Ends, Client, ClientPCs, Conn, WriteRequest, Alone
  <2>2. /\ client[c].pc = "write" /\ client'[c].pc = "read" /\ client'[c].sent = TRUE
        /\ client'[c].reason = client[c].reason /\ client'[c].code = client[c].code
        /\ conn'[c].pc = conn[c].pc /\ conn'[c].out = conn[c].out
        /\ conn'[c].replied = conn[c].replied
    BY <1>6 DEF Ends, Client, Conn, WriteRequest
  <2>3. CallOK(c)'
    BY <1>0, <2>2 DEF CallOK
  <2> QED
    BY <2>1, <2>3 DEF CallStep
<1>7. ASSUME ReadAnswer(c) PROVE CallStep(c)
  <2>1. /\ GiveUp(c, conn[c].out) /\ UNCHANGED conn /\ conn[c].replied
        /\ client[c].pc = "read" /\ conn[c].out \in Reasons
    BY <1>7 DEF ReadAnswer, serverVars, Ends, Conn
  <2>2. c \in PamCalls => conn[c].out \notin {"none", "panic"}
    BY <1>0, <2>1 DEF CallOK, Answers, ChallengeReasons
  <2>3. client[c].code = "none"
    BY <1>0, <2>1 DEF CallOK
  <2> QED
    BY <1>0, <2>1, <2>2, <2>3, GiveUpStep
<1>8. ASSUME LogAndReturn(c) PROVE CallStep(c)
  <2>0. client[c].reason \in Reasons /\ CodeOf(client[c].reason) \in Codes
    BY DEF Ends, Client, CodeOf, Codes
  <2>1. Ends' /\ Alone(c)
    BY <1>8, <2>0 DEF Ends, Client, ClientPCs, LogAndReturn, serverVars, Alone
  <2>2. /\ client[c].pc = "log" /\ client'[c].pc = "done" /\ client'[c].sent = client[c].sent
        /\ client'[c].reason = client[c].reason
        /\ client'[c].code = CodeOf(client[c].reason) /\ conn'[c] = conn[c]
    BY <1>8 DEF Ends, Client, LogAndReturn, serverVars
  <2>3. CallOK(c)'
    BY <1>0, <2>2 DEF CallOK
  <2> QED
    BY <2>1, <2>3 DEF CallStep
<1>9. ASSUME Panic(c) PROVE CallStep(c)
  <2>0. CodeOf("panic") = "PAM_AUTH_ERR"
    BY DEF CodeOf
  <2>1. Ends' /\ Alone(c)
    <3>0. "panic" \in Reasons /\ "PAM_AUTH_ERR" \in Codes /\ "done" \in ClientPCs
      BY DEF Reasons, Codes, ClientPCs
    <3>1. client' \in [Calls -> Client]
      <4>1. client' = [client EXCEPT ![c].pc = "done", ![c].reason = "panic",
                          ![c].budget = 0, ![c].peer = None, ![c].code = "PAM_AUTH_ERR"]
        BY <1>9 DEF Panic
      <4>2. client \in [Calls -> Client] /\ 0 \in 0..AuthTimeout
        BY DEF Ends
      <4> QED
        BY <3>0, <4>1, <4>2 DEF Client
    <3> QED
      BY <1>9, <3>1 DEF Ends, Panic, serverVars, Alone
  <2>2. /\ c \in PamCalls /\ client'[c].pc = "done" /\ client'[c].sent = client[c].sent
        /\ client'[c].reason = "panic" /\ client'[c].code = "PAM_AUTH_ERR"
        /\ conn'[c] = conn[c]
    BY <1>9 DEF Ends, Client, Panic, serverVars
  <2>3. CallOK(c)'
    BY <1>0, <2>0, <2>2 DEF CallOK, OwnReasons
  <2> QED
    BY <2>1, <2>3 DEF CallStep
<1>10. ASSUME Kill(c) PROVE CallStep(c)
  <2>1. Ends' /\ Alone(c)
    BY <1>10 DEF Ends, Client, ClientPCs, Kill, serverVars, Alone
  <2>2. /\ client[c].pc # "done" /\ client'[c].pc = "killed" /\ conn'[c] = conn[c]
        /\ client'[c].sent = client[c].sent
        /\ client'[c].reason = client[c].reason /\ client'[c].code = client[c].code
    BY <1>10 DEF Ends, Client, Kill, serverVars
  <2>3. CallOK(c)'
    BY <1>0, <2>2 DEF CallOK
  <2> QED
    BY <2>1, <2>3 DEF CallStep
<1> QED
  BY <1>1, <1>2, <1>3, <1>4, <1>5, <1>6, <1>7, <1>8, <1>9, <1>10 DEF Begin, ClientStep

LEMMA VerdictType ==
    ASSUME NEW f \in [Calls -> Conn], NEW c \in Calls,
           NEW a \in ConnPCs, NEW r \in Reasons, NEW n \in 0..AuthTimeout
    PROVE  [f EXCEPT ![c].pc = a, ![c].out = r, ![c].timer = n] \in [Calls -> Conn]
BY ZenonT(30) DEF Conn

LEMMA TimerType ==
    ASSUME NEW f \in [Calls -> Conn], NEW c \in Calls,
           NEW a \in ConnPCs, NEW n \in 0..AuthTimeout
    PROVE  [f EXCEPT ![c].pc = a, ![c].timer = n] \in [Calls -> Conn]
BY DEF Conn

(* A handler reaches its verdict.                                             *)
LEMMA ConcludeStep ==
    ASSUME Ends, NEW c \in Calls, c \in PamCalls, CallOK(c), NEW r \in ChallengeReasons,
           Conclude(c, r), UNCHANGED client,
           conn[c].pc \in {"reading", "queue", "notify", "wait"}, client[c].sent
    PROVE  CallStep(c)
<1>1. Ends' /\ Alone(c)
  <2>0. r \in Reasons
    BY DEF Reasons
  <2>1. conn' = [conn EXCEPT ![c].pc = "audit", ![c].out = r, ![c].timer = 0]
    BY DEF Conclude
  <2>2. conn' \in [Calls -> Conn]
    <3>1. "audit" \in ConnPCs
      BY DEF ConnPCs
    <3>2. 0 \in 0..AuthTimeout
      OBVIOUS
    <3>3. conn \in [Calls -> Conn]
      BY DEF Ends
    <3> QED
      BY <2>0, <2>1, <3>1, <3>2, <3>3, VerdictType, Zenon
  <2> QED
    BY <2>1, <2>2 DEF Ends, Alone
<1>2. /\ conn'[c].pc = "audit" /\ conn'[c].out = r /\ conn'[c].replied = conn[c].replied
      /\ client'[c] = client[c]
  BY DEF Ends, Conn, Conclude
<1>3. CallOK(c)'
  BY <1>2 DEF CallOK
<1> QED
  BY <1>1, <1>3 DEF CallStep

(* A handler moves on without a verdict.                                      *)
LEMMA MoveStep ==
    ASSUME Ends, NEW c \in Calls, CallOK(c), UNCHANGED client, conn' \in [Calls -> Conn],
           \A d \in Calls \ {c} : conn'[d] = conn[d],
           conn'[c].out = conn[c].out, conn'[c].replied = conn[c].replied,
           \/ conn[c].pc = "queued" /\ conn'[c].pc = "held"
           \/ conn[c].pc = "held" /\ conn'[c].pc = "reading"
           \/ conn[c].pc = "reading" /\ conn'[c].pc = "closed"
           \/ /\ conn[c].pc \in {"reading", "queue", "notify"} /\ c \in PamCalls /\ client[c].sent
              /\ conn'[c].pc \in {"queue", "notify", "wait"}
           \/ conn[c].pc = "audit" /\ conn'[c].pc = "answer"
    PROVE  CallStep(c)
<1>1. Ends' /\ Alone(c) /\ client'[c] = client[c]
  BY DEF Ends, Alone
<1>2. CallOK(c)'
  BY <1>1 DEF CallOK, Answers
<1> QED
  BY <1>1, <1>2 DEF CallStep

LEMMA ServerSteps ==
    ASSUME Ends, CallInv, NEW c \in Calls, ServerStep(c) \/ PhoneResponds(c)
    PROVE  CallStep(c)
<1>0. CallOK(c)
  BY DEF CallInv
<1>1. ASSUME ReadEof(c) PROVE CallStep(c)
  <2>1. conn' = [conn EXCEPT ![c].pc = "closed"] /\ conn[c].pc = "reading" /\ UNCHANGED client
    BY <1>1 DEF ReadEof
  <2>2. /\ conn' \in [Calls -> Conn] /\ \A d \in Calls \ {c} : conn'[d] = conn[d]
        /\ conn'[c].out = conn[c].out /\ conn'[c].replied = conn[c].replied
        /\ conn'[c].pc = "closed"
    BY <2>1 DEF Ends, Conn, ConnPCs
  <2> QED
    BY <1>0, <2>1, <2>2, MoveStep
<1>2. ASSUME DispatchDirect(c) PROVE CallStep(c)
  <2> DEFINE r == IF c \in Probes THEN "status" ELSE "not-implemented"
  <2>0. r \in Reasons /\ (c \in PamCalls => r \in Answers)
    BY DEF Reasons, Answers
  <2>1. conn' = [conn EXCEPT ![c].pc = "answer", ![c].out = r]
    BY <1>2 DEF DispatchDirect
  <2>2. conn[c].pc = "reading" /\ client[c].sent /\ UNCHANGED client
    BY <1>2 DEF DispatchDirect
  <2> HIDE DEF r
  <2>3. /\ conn' \in [Calls -> Conn] /\ \A d \in Calls \ {c} : conn'[d] = conn[d]
        /\ conn'[c].out = r /\ conn'[c].replied = conn[c].replied
        /\ conn'[c].pc = "answer"
    BY <2>0, <2>1 DEF Ends, Conn, ConnPCs
  <2>4. CallOK(c)'
    BY <1>0, <2>0, <2>2, <2>3 DEF CallOK
  <2> QED
    BY <2>2, <2>3, <2>4 DEF CallStep, Ends, Alone
<1>3. ASSUME DispatchUnknown(c) PROVE CallStep(c)
  BY <1>0, <1>3, ConcludeStep DEF DispatchUnknown, ChallengeReasons
<1>4. ASSUME DispatchChallenge(c) PROVE CallStep(c)
  <2>1. /\ conn' = [conn EXCEPT ![c].pc = "queue", ![c].timer = BusyDeadline]
        /\ conn[c].pc = "reading" /\ c \in PamCalls /\ client[c].sent /\ UNCHANGED client
    BY <1>4 DEF DispatchChallenge
  <2>2. /\ conn' \in [Calls -> Conn] /\ \A d \in Calls \ {c} : conn'[d] = conn[d]
        /\ conn'[c].out = conn[c].out /\ conn'[c].replied = conn[c].replied
        /\ conn'[c].pc = "queue"
    <3>1. BusyDeadline \in 0..AuthTimeout
      OBVIOUS
    <3>2. "queue" \in ConnPCs
      BY DEF ConnPCs
    <3>3. conn \in [Calls -> Conn]
      BY DEF Ends
    <3>4. conn' \in [Calls -> Conn]
      BY <2>1, <3>1, <3>2, <3>3, TimerType, Zenon
    <3> QED
      BY <2>1, <3>3, <3>4 DEF Conn
  <2> QED
    BY <1>0, <2>1, <2>2, MoveStep
<1>5. ASSUME Admit(c) PROVE CallStep(c)
  <2>1. /\ conn' = [conn EXCEPT ![c].pc = "notify", ![c].timer = 0]
        /\ conn[c].pc = "queue" /\ UNCHANGED client
    BY <1>5 DEF Admit
  <2>2. /\ conn' \in [Calls -> Conn] /\ \A d \in Calls \ {c} : conn'[d] = conn[d]
        /\ conn'[c].out = conn[c].out /\ conn'[c].replied = conn[c].replied
        /\ conn'[c].pc = "notify"
    BY <2>1 DEF Ends, Conn, ConnPCs
  <2> QED
    BY <1>0, <2>1, <2>2, MoveStep DEF CallOK
<1>6. ASSUME Busy(c) \/ WaitTimesOut(c) PROVE CallStep(c)
  <2>1. PICK r \in ChallengeReasons : Conclude(c, r)
    BY <1>6 DEF Busy, WaitTimesOut, ChallengeReasons
  <2>2. UNCHANGED client /\ conn[c].pc \in {"queue", "wait"}
    BY <1>6 DEF Busy, WaitTimesOut
  <2>3. c \in PamCalls /\ client[c].sent
    BY <1>0, <2>2 DEF CallOK
  <2> QED
    BY <1>0, <2>1, <2>2, <2>3, ConcludeStep
<1>7. ASSUME Notified(c) PROVE CallStep(c)
  <2>0. UNCHANGED client /\ conn[c].pc = "notify" /\ c \in PamCalls /\ client[c].sent
    BY <1>0, <1>7 DEF Notified, CallOK
  <2>1. CASE conn' = [conn EXCEPT ![c].pc = "wait", ![c].timer = AuthTimeout]
    <3>1. /\ conn' \in [Calls -> Conn] /\ \A d \in Calls \ {c} : conn'[d] = conn[d]
          /\ conn'[c].out = conn[c].out /\ conn'[c].replied = conn[c].replied
          /\ conn'[c].pc = "wait"
      BY <2>1 DEF Ends, Conn, ConnPCs
    <3> QED
      BY <1>0, <2>0, <3>1, MoveStep
  <2>2. CASE \E r \in Verdicts \cap {"transport-error", "unknown-peer"} : Conclude(c, r)
    BY <1>0, <2>0, <2>2, ConcludeStep DEF ChallengeReasons
  <2> QED
    BY <1>7, <2>1, <2>2 DEF Notified
<1>8. ASSUME PhoneResponds(c) PROVE CallStep(c)
  <2>1. PICK r \in ChallengeReasons : Conclude(c, r)
    BY <1>8 DEF PhoneResponds, PhoneVerdicts, ChallengeReasons
  <2>2. UNCHANGED client /\ conn[c].pc = "wait" /\ c \in PamCalls /\ client[c].sent
    BY <1>0, <1>8 DEF PhoneResponds, CallOK
  <2> QED
    BY <1>0, <2>1, <2>2, ConcludeStep
<1>9. ASSUME AuditAndRelease(c) PROVE CallStep(c)
  <2>1. conn' = [conn EXCEPT ![c].pc = "answer"] /\ conn[c].pc = "audit" /\ UNCHANGED client
    BY <1>9 DEF AuditAndRelease
  <2>2. /\ conn' \in [Calls -> Conn] /\ \A d \in Calls \ {c} : conn'[d] = conn[d]
        /\ conn'[c].out = conn[c].out /\ conn'[c].replied = conn[c].replied
        /\ conn'[c].pc = "answer"
    BY <2>1 DEF Ends, Conn, ConnPCs
  <2> QED
    BY <1>0, <2>1, <2>2, MoveStep
<1>10. ASSUME WriteAnswer(c) PROVE CallStep(c)
  <2>1. /\ conn' = [conn EXCEPT ![c].pc = "closed", ![c].peer = None, ![c].replied = ~Gone(c)]
        /\ conn[c].pc = "answer" /\ UNCHANGED client
    BY <1>10 DEF WriteAnswer
  <2>2. /\ conn' \in [Calls -> Conn] /\ \A d \in Calls \ {c} : conn'[d] = conn[d]
        /\ conn'[c].out = conn[c].out /\ conn'[c].pc = "closed" /\ client'[c] = client[c]
    BY <2>1 DEF Ends, Conn, ConnPCs
  <2>3. CallOK(c)'
    BY <1>0, <2>1, <2>2 DEF CallOK
  <2> QED
    BY <2>1, <2>2, <2>3 DEF CallStep, Ends, Alone
<1> QED
  BY <1>1, <1>2, <1>3, <1>4, <1>5, <1>6, <1>7, <1>8, <1>9, <1>10 DEF ServerStep

(* The accept loop moves one connection at a time.                            *)
LEMMA AcceptSteps ==
    ASSUME TypeOK, CallInv, AcceptInv, Accept \/ Spawn
    PROVE  \E c \in Calls : CallStep(c)
<1>0. Ends
  BY EndsOfTypeOK
<1>1. ASSUME Accept PROVE \E c \in Calls : CallStep(c)
  <2> DEFINE c == Head(backlog)
  <2>1. c \in Calls /\ conn[c].pc = "queued"
    <3>1. backlog \in Seq(Calls) /\ backlog # <<>> /\ 1 \in DOMAIN backlog /\ c = backlog[1]
      BY <1>1 DEF Accept, TypeOK
    <3> QED
      BY <3>1 DEF AcceptInv
  <2>2. conn' = [conn EXCEPT ![c].pc = "held"] /\ UNCHANGED client
    BY <1>1 DEF Accept
  <2> HIDE DEF c
  <2>3. /\ conn' \in [Calls -> Conn] /\ \A d \in Calls \ {c} : conn'[d] = conn[d]
        /\ conn'[c].out = conn[c].out /\ conn'[c].replied = conn[c].replied
        /\ conn'[c].pc = "held"
    BY <1>0, <2>1, <2>2 DEF Ends, Conn, ConnPCs
  <2>4. CallStep(c)
    BY <1>0, <2>1, <2>2, <2>3, MoveStep DEF CallInv
  <2> QED
    BY <2>1, <2>4
<1>2. ASSUME Spawn PROVE \E c \in Calls : CallStep(c)
  <2>1. held \in Calls /\ conn[held].pc = "held"
    BY <1>2 DEF Spawn, TypeOK, AcceptInv
  <2>2. conn' = [conn EXCEPT ![held].pc = "reading"] /\ UNCHANGED client
    BY <1>2 DEF Spawn
  <2>3. /\ conn' \in [Calls -> Conn] /\ \A d \in Calls \ {held} : conn'[d] = conn[d]
        /\ conn'[held].out = conn[held].out /\ conn'[held].replied = conn[held].replied
        /\ conn'[held].pc = "reading"
    BY <1>0, <2>1, <2>2 DEF Ends, Conn, ConnPCs
  <2>4. CallStep(held)
    BY <1>0, <2>1, <2>2, <2>3, MoveStep DEF CallInv
  <2> QED
    BY <2>1, <2>4
<1> QED
  BY <1>1, <1>2

(* When the daemon goes, each connection is closed or was not open.           *)
LEMMA DownEnds ==
    ASSUME Ends, Down
    PROVE  /\ conn' \in [Calls -> Conn]
           /\ \A c \in Calls : /\ conn'[c].out = conn[c].out
                               /\ conn'[c].replied = conn[c].replied
                               /\ conn[c].pc = "none" => conn'[c].pc = "none"
                               /\ conn[c].pc # "none" => conn'[c].pc = "closed"
<1>1. conn' = [c \in Calls |-> IF conn[c].pc \in {"none", "closed"} THEN conn[c]
                               ELSE [conn[c] EXCEPT !.pc = "closed", !.peer = None, !.timer = 0]]
  BY DEF Down
<1>2. ASSUME NEW c \in Calls
      PROVE  /\ conn'[c] \in Conn /\ conn'[c].out = conn[c].out
             /\ conn'[c].replied = conn[c].replied
             /\ conn[c].pc = "none" => conn'[c].pc = "none"
             /\ conn[c].pc # "none" => conn'[c].pc = "closed"
  <2>1. conn[c] \in Conn /\ "closed" \in ConnPCs /\ 0 \in 0..AuthTimeout
    BY DEF Ends, ConnPCs
  <2>2. [conn[c] EXCEPT !.pc = "closed", !.peer = None, !.timer = 0] \in Conn
    BY <2>1 DEF Conn
  <2>3. CASE conn[c].pc \in {"none", "closed"}
    BY <1>1, <2>1, <2>3
  <2>4. CASE conn[c].pc \notin {"none", "closed"}
    BY <1>1, <2>1, <2>2, <2>4 DEF Conn
  <2> QED
    BY <2>3, <2>4
<1> QED
  BY <1>1, <1>2

(* Steps that touch every connection, or none.                                *)
LEMMA WorldSteps ==
    ASSUME Ends, CallInv,
           DaemonStart \/ DaemonStop \/ PowerLoss \/ Reload \/ Tick
           \/ (\E p \in Peers : Edit(p)) \/ UNCHANGED vars
    PROVE  Ends' /\ CallInv'
<1>1. CASE UNCHANGED <<client, conn>>
  BY <1>1 DEF Ends, CallInv, CallOK
<1>2. ASSUME DaemonStop PROVE Ends' /\ CallInv'
  <2>1. Down /\ UNCHANGED client
    BY <1>2 DEF DaemonStop
  <2>2. ASSUME NEW c \in Calls PROVE CallOK(c)'
    BY <2>1, <2>2, DownEnds DEF CallInv, CallOK
  <2> QED
    BY <2>1, <2>2, DownEnds DEF Ends, CallInv
<1>3. ASSUME PowerLoss PROVE Ends' /\ CallInv'
  <2>1. /\ Down
        /\ client' = [c \in Calls |-> IF client[c].pc \in {"idle", "done", "killed"} THEN client[c]
                                      ELSE [client[c] EXCEPT !.pc = "killed", !.budget = 0]]
    BY <1>3 DEF PowerLoss
  <2>2. ASSUME NEW c \in Calls
        PROVE  /\ client'[c] \in Client /\ client'[c].sent = client[c].sent
               /\ client'[c].reason = client[c].reason /\ client'[c].code = client[c].code
               /\ client'[c].pc = IF client[c].pc \in {"idle", "done", "killed"} THEN client[c].pc
                                  ELSE "killed"
    <3>1. client[c] \in Client /\ "killed" \in ClientPCs /\ 0 \in 0..AuthTimeout
      BY DEF Ends, ClientPCs
    <3>2. [client[c] EXCEPT !.pc = "killed", !.budget = 0] \in Client
      BY <3>1 DEF Client
    <3>3. CASE client[c].pc \in {"idle", "done", "killed"}
      BY <2>1, <3>1, <3>3
    <3>4. CASE client[c].pc \notin {"idle", "done", "killed"}
      BY <2>1, <3>1, <3>2, <3>4 DEF Client
    <3> QED
      BY <3>3, <3>4
  <2>3. ASSUME NEW c \in Calls PROVE CallOK(c)'
    <3>1. /\ client'[c].sent = client[c].sent
          /\ client'[c].reason = client[c].reason /\ client'[c].code = client[c].code
          /\ \/ client[c].pc = "idle" /\ client'[c].pc = "idle"
             \/ client[c].pc = "done" /\ client'[c].pc = "done"
             \/ client[c].pc # "done" /\ client'[c].pc = "killed"
      BY <2>2
    <3>2. /\ conn'[c].out = conn[c].out /\ conn'[c].replied = conn[c].replied
          /\ conn[c].pc = "none" => conn'[c].pc = "none"
          /\ conn[c].pc # "none" => conn'[c].pc = "closed"
      BY <2>1, DownEnds
    <3>3. CallOK(c)
      BY DEF CallInv
    <3> QED
      BY <3>1, <3>2, <3>3 DEF CallOK
  <2>4. client' \in [Calls -> Client]
    BY <2>1, <2>2
  <2> QED
    BY <2>1, <2>3, <2>4, DownEnds DEF Ends, CallInv
<1>4. ASSUME Tick PROVE Ends' /\ CallInv'
  <2>1. /\ client' = [c \in Calls |-> IF client[c].pc = "read" THEN [client[c] EXCEPT !.budget = @ - 1]
                                      ELSE client[c]]
        /\ conn' = [c \in Calls |-> IF Waiting(c) THEN [conn[c] EXCEPT !.timer = @ - 1]
                                    ELSE conn[c]]
    BY <1>4 DEF Tick
  <2>2. ASSUME NEW c \in Calls
        PROVE  /\ client'[c] \in Client /\ client'[c].sent = client[c].sent
               /\ client'[c].pc = client[c].pc
               /\ client'[c].reason = client[c].reason /\ client'[c].code = client[c].code
    <3>1. client[c] \in Client /\ (client[c].pc = "read" => client[c].budget > 0)
      BY <1>4 DEF Ends, Tick
    <3>2. CASE client[c].pc = "read"
      BY <2>1, <3>1, <3>2 DEF Client
    <3> QED
      BY <2>1, <3>1, <3>2
  <2>3. ASSUME NEW c \in Calls
        PROVE  /\ conn'[c] \in Conn /\ conn'[c].pc = conn[c].pc
               /\ conn'[c].out = conn[c].out /\ conn'[c].replied = conn[c].replied
    <3>1. conn[c] \in Conn /\ (Waiting(c) => conn[c].timer > 0)
      BY <1>4 DEF Ends, Tick
    <3>2. CASE Waiting(c)
      BY <2>1, <3>1, <3>2 DEF Conn
    <3> QED
      BY <2>1, <3>1, <3>2
  <2>4. ASSUME NEW c \in Calls PROVE CallOK(c)'
    BY <2>2, <2>3, <2>4 DEF CallInv, CallOK
  <2>5. client' \in [Calls -> Client] /\ conn' \in [Calls -> Conn]
    BY <2>1, <2>2, <2>3
  <2> QED
    BY <2>4, <2>5 DEF Ends, CallInv
<1> QED
  BY <1>1, <1>2, <1>3, <1>4
     DEF DaemonStart, Reload, Edit, Revoke, Pair, OpenKey, WriteKey, serverVars, vars

LEMMA BondsOfTypeOK == TypeOK => FirstBonded(bonds) \in Peers \cup {None}
BY FirstBondedIsBonded DEF TypeOK, Record

LEMMA EndsKept ==
    ASSUME TypeOK, CallInv, AcceptInv, [Next]_vars
    PROVE  Ends' /\ CallInv'
<1>0. Ends /\ FirstBonded(bonds) \in Peers \cup {None}
  BY EndsOfTypeOK, BondsOfTypeOK
<1>1. ASSUME NEW c \in Calls, Begin(c) \/ ClientStep(c) \/ Panic(c) \/ Kill(c)
      PROVE  Ends' /\ CallInv'
  BY <1>0, <1>1, ClientSteps, CallStepKeeps
<1>2. ASSUME NEW c \in Calls, ServerStep(c) \/ PhoneResponds(c)
      PROVE  Ends' /\ CallInv'
  BY <1>0, <1>2, ServerSteps, CallStepKeeps
<1>3. ASSUME Accept \/ Spawn PROVE Ends' /\ CallInv'
  BY <1>3, AcceptSteps, CallStepKeeps
<1> QED
  BY <1>0, <1>1, <1>2, <1>3, WorldSteps DEF Next

-----------------------------------------------------------------------------
(* Most steps leave the queues, the daemon, the bonds and the log alone.      *)
Quiet == UNCHANGED <<backlog, held, slotq, daemonVars, bondVars, unlogged, logVars>>

LEMMA QuietSteps ==
    ASSUME NEW c \in Calls,
           Begin(c) \/ ClientStep(c) \/ ServerStep(c) \/ PhoneResponds(c) \/ Panic(c) \/ Kill(c)
    PROVE  Quiet \/ Connect(c) \/ LogAndReturn(c) \/ DispatchChallenge(c) \/ AuditAndRelease(c)
<1>1. CASE Begin(c)
  BY <1>1 DEF Begin, ResolvePeer, ResolveNobody, ProbeStart, Quiet, serverVars, envVars
<1>2. CASE ClientStep(c)
  BY <1>2 DEF ClientStep, ConnectFails, WriteRequest, ConnectionLost, ReadTimesOut, ReadAnswer,
              Quiet, serverVars, envVars
<1>3. CASE ServerStep(c)
  BY <1>3 DEF ServerStep, ReadEof, DispatchDirect, DispatchUnknown, Admit, Busy, Notified,
              WaitTimesOut, WriteAnswer, Quiet, envVars
<1>4. CASE PhoneResponds(c) \/ Panic(c) \/ Kill(c)
  BY <1>4 DEF PhoneResponds, Panic, Kill, Quiet, serverVars, envVars
<1> QED
  BY <1>1, <1>2, <1>3, <1>4

LEMMA FaultSteps ==
    ASSUME TypeOK, [Next]_vars
    PROVE  faults' \in 0..MaxFaults
<1>1. CASE UNCHANGED faults
  BY <1>1 DEF TypeOK
<1>2. ASSUME NEW k, Fault(k) PROVE faults' \in 0..MaxFaults
  BY <1>2 DEF TypeOK, Fault
<1>3. ASSUME NEW c \in Calls, Begin(c) \/ ClientStep(c) PROVE faults' \in 0..MaxFaults
  BY <1>1, <1>2, <1>3
     DEF Begin, ResolvePeer, ResolveNobody, ProbeStart, NoFault, envVars,
         ClientStep, Connect, ConnectFails, WriteRequest, ConnectionLost, ReadTimesOut,
         ReadAnswer, LogAndReturn
<1>4. ASSUME NEW c \in Calls, ServerStep(c) PROVE faults' \in 0..MaxFaults
  BY <1>1, <1>2, <1>4
     DEF ServerStep, ReadEof, DispatchDirect, DispatchUnknown, DispatchChallenge, Admit, Busy,
         Notified, WaitTimesOut, WriteAnswer, AuditAndRelease, NoFault, envVars
<1>5. ASSUME NEW c \in Calls, PhoneResponds(c) \/ Panic(c) \/ Kill(c)
      PROVE  faults' \in 0..MaxFaults
  BY <1>1, <1>2, <1>5 DEF PhoneResponds, Panic, Kill, envVars
<1>6. ASSUME Accept \/ Spawn \/ DaemonStart \/ DaemonStop \/ PowerLoss \/ Reload \/ Tick
      PROVE  faults' \in 0..MaxFaults
  BY <1>1, <1>2, <1>6
     DEF Accept, Spawn, DaemonStart, DaemonStop, PowerLoss, Reload, Tick, NoFault, envVars
<1>7. ASSUME NEW p \in Peers, Edit(p) PROVE faults' \in 0..MaxFaults
  BY <1>1, <1>7 DEF Edit, Revoke, Pair, OpenKey, WriteKey
<1> QED
  BY <1>1, <1>3, <1>4, <1>5, <1>6, <1>7 DEF Next, vars

(* The parts of TypeOK that most steps leave alone.                           *)
Queues ==
    /\ backlog \in Seq(Calls)
    /\ held \in Calls \cup {None}
    /\ slotq \in [Peers -> Seq(PamCalls)]
Flags == {up, orch, auditing, fresh} \subseteq BOOLEAN /\ live \subseteq Peers
BondsOK == bonds \in Seq(Record) /\ keys \subseteq Peers /\ edits \in 0..MaxEdits
Logs == unlogged \subseteq PamCalls /\ LogTypeOK

LEMMA TypeParts ==
    TypeOK <=> Ends /\ Queues /\ Flags /\ BondsOK /\ Logs /\ faults \in 0..MaxFaults
BY DEF TypeOK, Ends, Queues, Flags, BondsOK, Logs, Record

(* The log.                                                                   *)
LEMMA AppendType ==
    ASSUME LogTypeOK, NEW l \in Line, log' = Append(log, l), appended' \in Nat, opens' \in Nat,
           syncFailed' \in BOOLEAN, synced' \in {synced, Len(log) + 1}
    PROVE  LogTypeOK'
<1>1. log' \in Seq(Line) /\ Len(log') = Len(log) + 1 /\ Len(log) \in Nat
  BY DEF LogTypeOK
<1> QED
  BY <1>1 DEF LogTypeOK

LEMMA LogTypes ==
    ASSUME LogTypeOK, NEW c \in Calls, NEW r,
           \/ r \in ChallengeReasons /\ (LogAppend(c, r) \/ LogAppendUnsynced(c, r))
           \/ r \in {"success", "failure"} /\ LogAppendPam(c, r)
           \/ UNCHANGED logVars
    PROVE  LogTypeOK'
<1>0. c \in Writers /\ (r \in ChallengeReasons \cup {"success", "failure"} => r \in LineResults)
  OBVIOUS
<1>1. CASE r \in ChallengeReasons /\ (LogAppend(c, r) \/ LogAppendUnsynced(c, r))
  <2>1. [src |-> "daemon", call |-> c, res |-> r] \in Line
    BY <1>0, <1>1 DEF Line
  <2>2. /\ log' = Append(log, [src |-> "daemon", call |-> c, res |-> r])
        /\ appended' = appended + 1 /\ opens' = opens /\ (syncFailed' = syncFailed \/ syncFailed' = TRUE)
        /\ synced' \in {synced, Len(log) + 1}
    BY <1>1 DEF LogAppend, LogAppendUnsynced
  <2>3. appended' \in Nat /\ opens' \in Nat
    BY <2>2 DEF LogTypeOK
  <2>4. syncFailed' \in BOOLEAN
    BY <2>2, Zenon DEF LogTypeOK
  <2> QED
    BY <2>1, <2>2, <2>3, <2>4, AppendType, Zenon
<1>2. CASE r \in {"success", "failure"} /\ LogAppendPam(c, r)
  <2>1. [src |-> "pam", call |-> c, res |-> r] \in Line
    BY <1>0, <1>2 DEF Line
  <2> QED
    BY <1>2, <2>1, AppendType DEF LogAppendPam, LogTypeOK
<1>3. CASE UNCHANGED logVars
  BY <1>3 DEF logVars, LogTypeOK
<1> QED
  BY <1>1, <1>2, <1>3

LEMMA LogsKept ==
    ASSUME TypeOK, CallInv, [Next]_vars
    PROVE  Logs'
<1>0. Logs
  BY TypeParts
<1>1. CASE UNCHANGED <<unlogged, logVars>>
  BY <1>0, <1>1 DEF Logs, logVars, LogTypeOK
<1>2. ASSUME NEW c \in Calls, LogAndReturn(c) PROVE Logs'
  <2>1. UNCHANGED unlogged
    BY <1>2 DEF LogAndReturn
  <2>2. \/ LogAppendPam(c, IF client[c].reason = "ok" THEN "success" ELSE "failure")
        \/ UNCHANGED logVars
    BY <1>2 DEF LogAndReturn
  <2>3. LogTypeOK'
    BY <1>0, <2>2, LogTypes DEF Logs
  <2> QED
    BY <1>0, <2>1, <2>3 DEF Logs
<1>3. ASSUME NEW c \in Calls, AuditAndRelease(c) PROVE Logs'
  <2>1. c \in PamCalls /\ conn[c].out \in ChallengeReasons
    BY <1>3 DEF AuditAndRelease, CallInv, CallOK
  <2>2. unlogged' \subseteq unlogged \cup {c}
    BY <1>3 DEF AuditAndRelease
  <2>3. LogAppend(c, conn[c].out) \/ LogAppendUnsynced(c, conn[c].out) \/ UNCHANGED logVars
    BY <1>3 DEF AuditAndRelease
  <2>4. LogTypeOK'
    BY <1>0, <2>1, <2>3, LogTypes DEF Logs
  <2> QED
    BY <1>0, <2>1, <2>2, <2>4 DEF Logs
<1>4. ASSUME DaemonStart PROVE Logs'
  <2>1. LogOpen /\ UNCHANGED unlogged
    BY <1>4 DEF DaemonStart
  <2> QED
    BY <1>0, <2>1 DEF Logs, LogOpen, LogTypeOK
<1>5. ASSUME PowerLoss PROVE Logs'
  <2>1. LogPowerLoss /\ UNCHANGED unlogged /\ LogTypeOK
    BY <1>0, <1>5 DEF PowerLoss, Logs
  <2>2. PICK n \in synced..Len(log) : log' = SubSeq(log, 1, n)
    BY <2>1 DEF LogPowerLoss
  <2>3. log' \in Seq(Line) /\ Len(log') \in Nat
    BY <2>1, <2>2 DEF LogTypeOK
  <2> QED
    BY <1>0, <2>1, <2>3 DEF LogPowerLoss, LogTypeOK, Logs
<1>6. ASSUME NEW c \in Calls,
             Begin(c) \/ ClientStep(c) \/ ServerStep(c) \/ PhoneResponds(c) \/ Panic(c) \/ Kill(c)
      PROVE  Logs'
  BY <1>1, <1>2, <1>3, <1>6, QuietSteps
     DEF Quiet, Connect, DispatchChallenge, envVars
<1> QED
  BY <1>1, <1>4, <1>5, <1>6
     DEF Next, vars, Accept, Spawn, DaemonStop, Edit, Revoke, Pair, OpenKey, WriteKey, Reload,
         Tick, envVars

LEMMA QueuesKept ==
    ASSUME TypeOK, SlotInv, [Next]_vars
    PROVE  Queues'
<1>0. Queues /\ Flags
  BY TypeParts
<1>1. CASE UNCHANGED <<backlog, held, slotq>>
  BY <1>0, <1>1 DEF Queues
<1>2. ASSUME NEW c \in Calls, Connect(c) PROVE Queues'
  BY <1>0, <1>2 DEF Queues, Connect
<1>3. ASSUME NEW c \in Calls, DispatchChallenge(c) PROVE Queues'
  <2>1. /\ slotq' = [slotq EXCEPT ![conn[c].peer] = Append(slotq[conn[c].peer], c)]
        /\ conn[c].peer \in Peers /\ c \in PamCalls /\ UNCHANGED <<backlog, held>>
    BY <1>0, <1>3 DEF DispatchChallenge, Flags
  <2>2. Append(slotq[conn[c].peer], c) \in Seq(PamCalls)
    BY <1>0, <2>1 DEF Queues
  <2> QED
    BY <1>0, <2>1, <2>2 DEF Queues
<1>4. ASSUME NEW c \in Calls, AuditAndRelease(c) PROVE Queues'
  <2>1. slotq' = [p \in Peers |-> RemoveFirst(slotq[p], c)] /\ UNCHANGED <<backlog, held>>
    BY <1>4 DEF AuditAndRelease, LeaveSlot
  <2>2. ASSUME NEW p \in Peers PROVE RemoveFirst(slotq[p], c) \in Seq(PamCalls)
    <3>1. slotq[p] \in Seq(PamCalls) /\ \A i, j \in DOMAIN slotq[p] : slotq[p][i] = slotq[p][j] => i = j
      BY <1>0 DEF Queues, SlotInv
    <3> QED
      BY <3>1, RemoveFirstFacts
  <2> QED
    BY <1>0, <2>1, <2>2 DEF Queues
<1>5. ASSUME Accept PROVE Queues'
  <2>1. backlog \in Seq(Calls) /\ backlog # <<>>
    BY <1>0, <1>5 DEF Queues, Accept
  <2>2. Head(backlog) \in Calls /\ Tail(backlog) \in Seq(Calls)
    BY <2>1
  <2> QED
    BY <1>0, <1>5, <2>2 DEF Queues, Accept
<1>6. ASSUME Spawn PROVE Queues'
  BY <1>0, <1>6 DEF Queues, Spawn
<1>7. ASSUME Down PROVE Queues'
  <2>1. <<>> \in Seq(Calls) /\ <<>> \in Seq(PamCalls)
    OBVIOUS
  <2>2. backlog' = <<>> /\ held' = None /\ slotq' = [p \in Peers |-> <<>>]
    BY <1>7 DEF Down
  <2>3. slotq' \in [Peers -> Seq(PamCalls)]
    BY <2>1, <2>2, Zenon
  <2> QED
    BY <2>1, <2>2, <2>3, Zenon DEF Queues
<1>8. ASSUME NEW c \in Calls,
             Begin(c) \/ ClientStep(c) \/ ServerStep(c) \/ PhoneResponds(c) \/ Panic(c) \/ Kill(c)
      PROVE  Queues'
  BY <1>1, <1>2, <1>3, <1>4, <1>8, QuietSteps
     DEF Quiet, LogAndReturn, serverVars
<1> QED
  BY <1>1, <1>5, <1>6, <1>7, <1>8
     DEF Next, vars, DaemonStart, DaemonStop, PowerLoss, Edit, Revoke, Pair, OpenKey, WriteKey,
         Reload, Tick, serverVars

LEMMA ColdStartPeers == TypeOK => ColdStart \subseteq Peers /\ NewSet \subseteq Peers
BY DEF TypeOK, ColdStart, NewSet

LEMMA FlagsKept ==
    ASSUME TypeOK, [Next]_vars
    PROVE  Flags'
<1>0. Flags
  BY TypeParts
<1>1. CASE UNCHANGED daemonVars
  BY <1>0, <1>1 DEF Flags, daemonVars
<1>2. ASSUME DaemonStart PROVE Flags'
  <2>1. orch' \in BOOLEAN /\ auditing' \in BOOLEAN /\ up' \in BOOLEAN /\ fresh' \in BOOLEAN
    BY <1>2 DEF DaemonStart
  <2>2. live' \in {{}, ColdStart}
    BY <1>2 DEF DaemonStart
  <2> QED
    BY <2>1, <2>2, ColdStartPeers DEF Flags
<1>3. ASSUME Down PROVE Flags'
  BY <1>3 DEF Flags, Down
<1>4. ASSUME Reload PROVE Flags'
  <2>1. live' \subseteq NewSet \cup live /\ fresh' \in BOOLEAN
    BY <1>4 DEF Reload
  <2> QED
    BY <1>0, <1>4, <2>1, ColdStartPeers DEF Flags, Reload
<1>5. ASSUME NEW p \in Peers, Edit(p) PROVE Flags'
  BY <1>0, <1>5 DEF Flags, Edit, Revoke, Pair, OpenKey, WriteKey
<1>6. ASSUME NEW c \in Calls,
             Begin(c) \/ ClientStep(c) \/ ServerStep(c) \/ PhoneResponds(c) \/ Panic(c) \/ Kill(c)
      PROVE  Flags'
  BY <1>1, <1>6, QuietSteps
     DEF Quiet, Connect, LogAndReturn, DispatchChallenge, AuditAndRelease
<1> QED
  BY <1>1, <1>2, <1>3, <1>4, <1>5, <1>6
     DEF Next, vars, daemonVars, Accept, Spawn, DaemonStop, PowerLoss, Tick

LEMMA BondsKept ==
    ASSUME TypeOK, [Next]_vars
    PROVE  BondsOK'
<1>0. BondsOK
  BY TypeParts
<1>1. CASE UNCHANGED bondVars
  BY <1>0, <1>1 DEF BondsOK, bondVars
<1>2. ASSUME NEW p \in Peers, Revoke(p) PROVE BondsOK'
  <2>1. bonds' = [i \in DOMAIN bonds |-> IF bonds[i].peer = p THEN [bonds[i] EXCEPT !.st = "revoked"]
                                         ELSE bonds[i]]
    BY <1>2 DEF Revoke
  <2>2. DOMAIN bonds = 1..Len(bonds) /\ Len(bonds) \in Nat
    BY <1>0 DEF BondsOK
  <2>3. \A i \in DOMAIN bonds : bonds[i] \in Record
    BY <1>0, <2>2, ElementOfSeq DEF BondsOK
  <2>4. \A i \in DOMAIN bonds : bonds'[i] \in Record
    BY <2>1, <2>3 DEF Record
  <2>5. bonds' \in [1..Len(bonds) -> Record]
    BY <2>1, <2>2, <2>4
  <2> QED
    BY <1>0, <1>2, <2>2, <2>5 DEF BondsOK, Revoke
<1>3. ASSUME NEW p \in Peers, Pair(p) PROVE BondsOK'
  <2>1. [peer |-> p, st |-> "bonded"] \in Record
    BY DEF Record
  <2> QED
    BY <1>0, <1>3, <2>1 DEF BondsOK, Pair
<1>5. ASSUME NEW p \in Peers, OpenKey(p) \/ WriteKey(p) PROVE BondsOK'
  BY <1>0, <1>5 DEF BondsOK, OpenKey, WriteKey
<1>4. ASSUME NEW c \in Calls,
             Begin(c) \/ ClientStep(c) \/ ServerStep(c) \/ PhoneResponds(c) \/ Panic(c) \/ Kill(c)
      PROVE  BondsOK'
  BY <1>1, <1>4, QuietSteps
     DEF Quiet, Connect, LogAndReturn, DispatchChallenge, AuditAndRelease, envVars
<1> QED
  BY <1>1, <1>2, <1>3, <1>4, <1>5
     DEF Next, Edit, vars, bondVars, envVars, Accept, Spawn, DaemonStart, DaemonStop, PowerLoss,
         Reload, Tick

LEMMA TypeKept ==
    ASSUME TypeOK, CallInv, AcceptInv, SlotInv, [Next]_vars
    PROVE  TypeOK' /\ CallInv'
<1>1. Ends' /\ CallInv' /\ Queues' /\ Flags' /\ BondsOK' /\ Logs' /\ faults' \in 0..MaxFaults
  BY EndsKept, QueuesKept, FlagsKept, BondsKept, LogsKept, FaultSteps
<1> QED
  BY <1>1 DEF TypeOK, Ends, Queues, Flags, BondsOK, Logs, Record

-----------------------------------------------------------------------------
(* The accept loop.                                                           *)

(* A step that changes the two ends of one connection and no queue keeps      *)
(* AcceptInv when the connection is neither queued nor held, before or after. *)
LEMMA AcceptFrame ==
    ASSUME TypeOK, AcceptInv, UNCHANGED <<backlog, held>>,
           \A d \in Calls : conn[d].pc \in {"queued", "held"} => conn'[d].pc = conn[d].pc
    PROVE  AcceptInv'
<1>1. \A i \in DOMAIN backlog : backlog[i] \in Calls
  BY ElementOfSeq DEF TypeOK
<1> QED
  BY <1>1 DEF AcceptInv, TypeOK

(* A step of call c that leaves the queues alone.                             *)
LEMMA AcceptKept ==
    ASSUME TypeOK, CallInv, AcceptInv, [Next]_vars
    PROVE  AcceptInv'
<1>0. conn \in [Calls -> Conn] /\ \A i \in DOMAIN backlog : backlog[i] \in Calls
  BY ElementOfSeq DEF TypeOK
<1>1. ASSUME NEW c \in Calls, Connect(c) PROVE AcceptInv'
  <2>1. /\ backlog' = Append(backlog, c) /\ UNCHANGED held
        /\ conn' = [conn EXCEPT ![c].pc = "queued"]
        /\ client[c].pc = "connect"
    BY <1>1 DEF Connect
  <2>2. conn[c].pc = "none"
    BY <2>1 DEF CallInv, CallOK
  <2>3. conn'[c].pc = "queued" /\ \A d \in Calls \ {c} : conn'[d] = conn[d]
    BY <1>0, <2>1 DEF Conn
  <2>4. \A i \in DOMAIN backlog : backlog[i] # c /\ conn'[backlog[i]].pc = "queued"
    BY <1>0, <2>2, <2>3 DEF AcceptInv
  <2>5. /\ DOMAIN backlog' = 1..(Len(backlog) + 1) /\ DOMAIN backlog = 1..Len(backlog)
        /\ Len(backlog) \in Nat
        /\ \A i \in 1..(Len(backlog) + 1) :
              backlog'[i] = IF i = Len(backlog) + 1 THEN c ELSE backlog[i]
    BY <2>1 DEF TypeOK
  <2>6. held # None => held # c /\ held \in Calls
    BY <2>2 DEF AcceptInv, TypeOK
  <2> QED
    BY <2>1, <2>3, <2>4, <2>5, <2>6 DEF AcceptInv
<1>2. ASSUME Accept PROVE AcceptInv'
  <2> DEFINE c == Head(backlog)
  <2>1. /\ backlog \in Seq(Calls) /\ backlog # <<>> /\ 1 \in DOMAIN backlog /\ c = backlog[1]
        /\ c \in Calls
    BY <1>2 DEF Accept, TypeOK
  <2>2. conn' = [conn EXCEPT ![c].pc = "held"] /\ backlog' = Tail(backlog) /\ held' = c
    BY <1>2 DEF Accept
  <2>3. /\ Len(backlog) \in Nat /\ DOMAIN backlog' = 1..(Len(backlog) - 1)
        /\ DOMAIN backlog = 1..Len(backlog)
        /\ \A i \in 1..(Len(backlog) - 1) : backlog'[i] = backlog[i + 1]
    BY <2>1, <2>2
  <2> HIDE DEF c
  <2>4. conn'[c].pc = "held" /\ \A d \in Calls \ {c} : conn'[d] = conn[d]
    BY <1>0, <2>1, <2>2 DEF Conn
  <2>5. ASSUME NEW i \in 1..(Len(backlog) - 1)
        PROVE  i + 1 \in DOMAIN backlog /\ backlog[i + 1] # c /\ backlog[i + 1] \in Calls
    <3>1. i + 1 \in DOMAIN backlog /\ i + 1 # 1
      BY <2>3
    <3> QED
      BY <1>0, <2>1, <3>1 DEF AcceptInv
  <2>6. \A i \in DOMAIN backlog' : conn'[backlog'[i]].pc = "queued"
    BY <2>3, <2>4, <2>5 DEF AcceptInv
  <2>7. ASSUME NEW i \in DOMAIN backlog', NEW j \in DOMAIN backlog', backlog'[i] = backlog'[j]
        PROVE  i = j
    <3>1. i + 1 \in DOMAIN backlog /\ j + 1 \in DOMAIN backlog /\ backlog[i + 1] = backlog[j + 1]
      BY <2>3, <2>5, <2>7
    <3>2. i + 1 = j + 1
      BY <3>1 DEF AcceptInv
    <3> QED
      BY <2>3, <3>2
  <2> QED
    BY <2>2, <2>4, <2>6, <2>7 DEF AcceptInv
<1>3. ASSUME Spawn PROVE AcceptInv'
  <2>1. held \in Calls /\ conn[held].pc = "held"
    BY <1>3 DEF Spawn, TypeOK, AcceptInv
  <2>2. conn' = [conn EXCEPT ![held].pc = "reading"] /\ held' = None /\ UNCHANGED backlog
    BY <1>3 DEF Spawn
  <2>3. \A d \in Calls \ {held} : conn'[d] = conn[d]
    BY <1>0, <2>1, <2>2
  <2>4. \A i \in DOMAIN backlog : backlog[i] # held
    BY <2>1 DEF AcceptInv
  <2> QED
    BY <1>0, <2>2, <2>3, <2>4 DEF AcceptInv
<1>4. ASSUME Down PROVE AcceptInv'
  <2>1. backlog' = <<>> /\ held' = None
    BY <1>4 DEF Down
  <2>2. DOMAIN backlog' = {}
    BY <2>1
  <2> QED
    BY <2>1, <2>2 DEF AcceptInv
<1>5. ASSUME NEW c \in Calls,
             Begin(c) \/ ClientStep(c) \/ ServerStep(c) \/ PhoneResponds(c) \/ Panic(c) \/ Kill(c),
             ~Connect(c)
      PROVE  AcceptInv'
  <2>1. UNCHANGED <<backlog, held>>
    BY <1>5, QuietSteps DEF Quiet, LogAndReturn, DispatchChallenge, AuditAndRelease, serverVars
  <2>2. \A d \in Calls : conn[d].pc \in {"queued", "held"} => conn'[d].pc = conn[d].pc
    <3>1. CASE UNCHANGED conn
      BY <3>1
    <3>2. CASE WriteRequest(c)
      BY <1>0, <3>2 DEF WriteRequest, Conn
    <3>3. ASSUME ServerStep(c) \/ PhoneResponds(c)
          PROVE  conn[c].pc \notin {"queued", "held"} /\ \A d \in Calls \ {c} : conn'[d] = conn[d]
      <4>1. conn[c].pc \notin {"queued", "held"}
        BY <3>3 DEF ServerStep, ReadEof, DispatchDirect, DispatchUnknown, DispatchChallenge,
                    Admit, Busy, Notified, WaitTimesOut, WriteAnswer, AuditAndRelease, PhoneResponds
      <4>2. CallStep(c)
        BY <3>3, EndsOfTypeOK, ServerSteps
      <4> QED
        BY <4>1, <4>2 DEF CallStep, Alone
    <3> QED
      BY <1>5, <3>1, <3>2, <3>3
         DEF Begin, ResolvePeer, ResolveNobody, ProbeStart, ClientStep, ConnectFails,
             ConnectionLost, ReadTimesOut, ReadAnswer, LogAndReturn, Panic, Kill, serverVars
  <2> QED
    BY <2>1, <2>2, AcceptFrame
<1>6. ASSUME Tick PROVE AcceptInv'
  <2>1. /\ conn' = [c \in Calls |-> IF Waiting(c) THEN [conn[c] EXCEPT !.timer = @ - 1]
                                    ELSE conn[c]]
        /\ UNCHANGED <<backlog, held>>
    BY <1>6 DEF Tick
  <2>2. \A d \in Calls : conn'[d].pc = conn[d].pc
    BY <1>0, <2>1 DEF Conn
  <2> QED
    BY <2>1, <2>2, AcceptFrame
<1>7. CASE UNCHANGED serverVars
  BY <1>7, AcceptFrame DEF serverVars
<1> QED
  BY <1>1, <1>2, <1>3, <1>4, <1>5, <1>6, <1>7
     DEF Next, vars, DaemonStart, DaemonStop, PowerLoss, Edit, Revoke, Pair, OpenKey, WriteKey,
         Reload, serverVars

-----------------------------------------------------------------------------
(* The peers' slots.                                                          *)

InSlot == {"queue", "notify", "wait", "audit"}

(* A handler of a peer's queue goes on without leaving it: to its verdict, or *)
(* past the queue when it is the first.                                       *)
Advances(d) ==
    /\ conn'[d].pc = "queue" => conn[d].pc = "queue" /\ conn'[d].peer = conn[d].peer
    /\ conn[d].pc \in InSlot =>
          /\ conn'[d].peer = conn[d].peer
          /\ conn'[d].pc \in InSlot
          /\ conn'[d].pc \in {conn[d].pc, "audit"} \/ conn[d].pc \in {"notify", "wait"} \/ Holds(d)

LEMMA SlotFrame ==
    ASSUME TypeOK, SlotInv, UNCHANGED slotq, \A d \in Calls : Advances(d)
    PROVE  SlotInv'
<1>1. ASSUME NEW p \in Peers, NEW i \in DOMAIN slotq[p]
      PROVE  /\ conn'[slotq[p][i]].peer = p
             /\ conn'[slotq[p][i]].pc \in IF i = 1 THEN InSlot ELSE {"queue", "audit"}
  <2> DEFINE d == slotq[p][i]
  <2>1. slotq[p] \in Seq(PamCalls) /\ d \in Calls
    <3>1. slotq[p] \in Seq(PamCalls)
      BY DEF TypeOK
    <3> QED
      BY <3>1, ElementOfSeq
  <2>2. conn[d].peer = p /\ conn[d].pc \in IF i = 1 THEN InSlot ELSE {"queue", "audit"}
    BY DEF SlotInv, InSlot
  <2>3. conn'[d].peer = p /\ conn'[d].pc \in InSlot
    BY <2>1, <2>2 DEF Advances, InSlot
  <2>4. ASSUME i # 1 PROVE conn'[d].pc \in {"queue", "audit"}
    <3>1. ~Holds(d)
      <4>1. 1 \in DOMAIN slotq[p] /\ Head(slotq[p]) = slotq[p][1]
        BY <2>1
      <4> QED
        BY <2>2, <2>4, <4>1 DEF Holds, SlotInv
    <3> QED
      BY <2>1, <2>2, <2>4, <3>1 DEF Advances, InSlot
  <2> QED
    BY <2>3, <2>4
<1>2. \A d \in Calls : conn'[d].pc = "queue" => conn[d].pc = "queue" /\ conn'[d].peer = conn[d].peer
  BY DEF Advances
<1> QED
  BY <1>1, <1>2 DEF SlotInv, InSlot

LEMMA AppendUnique ==
    ASSUME NEW S, NEW s \in Seq(S), NEW c, \A i \in DOMAIN s : s[i] # c,
           \A i, j \in DOMAIN s : s[i] = s[j] => i = j, NEW t, t = Append(s, c)
    PROVE  /\ DOMAIN s \subseteq DOMAIN t /\ Len(s) + 1 \in DOMAIN t /\ t[Len(s) + 1] = c
           /\ \A i \in DOMAIN t : \/ i \in DOMAIN s /\ t[i] = s[i]
                                  \/ i = Len(s) + 1 /\ t[i] = c
           /\ \A i \in DOMAIN s : t[i] = s[i]
           /\ \A i, j \in DOMAIN t : t[i] = t[j] => i = j
OBVIOUS

LEMMA SlotJoin ==
    ASSUME TypeOK, SlotInv, NEW c \in Calls, DispatchChallenge(c)
    PROVE  SlotInv'
<1> DEFINE q == conn[c].peer
           s == slotq[q]
<1>1. /\ conn[c].pc = "reading" /\ c \in PamCalls /\ q \in Peers
      /\ slotq' = [slotq EXCEPT ![q] = Append(s, c)]
      /\ conn' = [conn EXCEPT ![c].pc = "queue", ![c].timer = BusyDeadline]
  BY DEF DispatchChallenge, TypeOK
<1>2. /\ conn'[c].pc = "queue" /\ conn'[c].peer = q /\ \A d \in Calls \ {c} : conn'[d] = conn[d]
  BY <1>1 DEF TypeOK, Conn
<1>3. \A p \in Peers : slotq[p] \in Seq(PamCalls) /\ \A i \in DOMAIN slotq[p] : slotq[p][i] \in Calls
  <2>1. ASSUME NEW p \in Peers PROVE slotq[p] \in Seq(PamCalls)
    BY DEF TypeOK
  <2> QED
    BY <2>1, ElementOfSeq
<1>4. \A p \in Peers : \A i \in DOMAIN slotq[p] : slotq[p][i] # c
  BY <1>1 DEF SlotInv
<1>5. \A p \in Peers \ {q} : slotq'[p] = slotq[p]
  BY <1>1 DEF TypeOK
<1>6. slotq'[q] = Append(s, c)
  BY <1>1 DEF TypeOK
<1>7. /\ DOMAIN s \subseteq DOMAIN slotq'[q] /\ Len(s) + 1 \in DOMAIN slotq'[q]
      /\ slotq'[q][Len(s) + 1] = c
      /\ \A i \in DOMAIN slotq'[q] : \/ i \in DOMAIN s /\ slotq'[q][i] = s[i]
                                     \/ i = Len(s) + 1 /\ slotq'[q][i] = c
      /\ \A i \in DOMAIN s : slotq'[q][i] = s[i]
      /\ \A i, j \in DOMAIN slotq'[q] : slotq'[q][i] = slotq'[q][j] => i = j
  <2>1. s \in Seq(PamCalls) /\ \A i \in DOMAIN s : s[i] # c
    BY <1>1, <1>3, <1>4
  <2>2. \A i, j \in DOMAIN s : s[i] = s[j] => i = j
    BY <1>1 DEF SlotInv
  <2> DEFINE t == slotq'[q]
  <2>3. t = Append(s, c)
    BY <1>6
  <2> HIDE DEF s, t
  <2>4. /\ DOMAIN s \subseteq DOMAIN t /\ Len(s) + 1 \in DOMAIN t /\ t[Len(s) + 1] = c
        /\ \A i \in DOMAIN t : \/ i \in DOMAIN s /\ t[i] = s[i]
                               \/ i = Len(s) + 1 /\ t[i] = c
        /\ \A i \in DOMAIN s : t[i] = s[i]
        /\ \A i, j \in DOMAIN t : t[i] = t[j] => i = j
    BY <2>1, <2>2, <2>3, AppendUnique
  <2> QED
    BY <2>4, Zenon DEF t
<1> HIDE DEF q, s
<1>8. ASSUME NEW p \in Peers, NEW i \in DOMAIN slotq'[p]
      PROVE  /\ conn'[slotq'[p][i]].peer = p
             /\ conn'[slotq'[p][i]].pc \in IF i = 1 THEN {"queue", "notify", "wait", "audit"}
                                           ELSE {"queue", "audit"}
  <2>1. CASE p # q
    BY <1>2, <1>3, <1>4, <1>5, <2>1 DEF SlotInv
  <2>2. CASE p = q /\ i \in DOMAIN s /\ slotq'[q][i] = s[i]
    BY <1>2, <1>3, <1>4, <2>2 DEF SlotInv, s
  <2>3. CASE p = q /\ slotq'[q][i] = c
    BY <1>2, <2>3
  <2> QED
    BY <1>7, <2>1, <2>2, <2>3
<1>9. \A p \in Peers : \A i, j \in DOMAIN slotq'[p] : slotq'[p][i] = slotq'[p][j] => i = j
  BY <1>5, <1>7 DEF SlotInv
<1>10. ASSUME NEW d \in Calls, conn'[d].pc = "queue"
       PROVE  conn'[d].peer \in Peers
              /\ \E i \in DOMAIN slotq'[conn'[d].peer] : slotq'[conn'[d].peer][i] = d
  <2>1. CASE d = c
    BY <1>1, <1>2, <1>7, <2>1
  <2>2. CASE d # c
    <3>1. conn'[d] = conn[d] /\ conn[d].peer \in Peers
      BY <1>2, <1>10, <2>2 DEF SlotInv
    <3>2. PICK i \in DOMAIN slotq[conn[d].peer] : slotq[conn[d].peer][i] = d
      BY <1>10, <3>1 DEF SlotInv
    <3>3. CASE conn[d].peer = q
      BY <1>7, <3>1, <3>2, <3>3 DEF s
    <3>4. CASE conn[d].peer # q
      BY <1>5, <3>1, <3>2, <3>4
    <3> QED
      BY <3>3, <3>4
  <2> QED
    BY <2>1, <2>2
<1> QED
  BY <1>8, <1>9, <1>10 DEF SlotInv

LEMMA SlotLeave ==
    ASSUME TypeOK, SlotInv, NEW c \in Calls, AuditAndRelease(c)
    PROVE  SlotInv'
<1>1. /\ conn[c].pc = "audit" /\ conn' = [conn EXCEPT ![c].pc = "answer"]
      /\ slotq' = [p \in Peers |-> RemoveFirst(slotq[p], c)]
  BY DEF AuditAndRelease, LeaveSlot
<1>2. conn'[c].pc = "answer" /\ \A d \in Calls \ {c} : conn'[d] = conn[d]
  BY <1>1 DEF TypeOK, Conn
<1>3. ASSUME NEW p \in Peers
      PROVE  /\ slotq[p] \in Seq(PamCalls) /\ \A i \in DOMAIN slotq[p] : slotq[p][i] \in Calls
             /\ \A i, j \in DOMAIN slotq[p] : slotq[p][i] = slotq[p][j] => i = j
  <2>1. slotq[p] \in Seq(PamCalls)
    BY DEF TypeOK
  <2> QED
    BY <2>1, ElementOfSeq DEF SlotInv
<1>4. ASSUME NEW p \in Peers
      PROVE  /\ \A i \in DOMAIN slotq'[p] :
                  /\ slotq'[p][i] # c
                  /\ \/ i \in DOMAIN slotq[p] /\ slotq'[p][i] = slotq[p][i]
                     \/ i + 1 \in DOMAIN slotq[p] /\ slotq'[p][i] = slotq[p][i + 1]
             /\ \A i, j \in DOMAIN slotq'[p] : slotq'[p][i] = slotq'[p][j] => i = j
             /\ \A i \in DOMAIN slotq[p] : slotq[p][i] # c =>
                  \E j \in DOMAIN slotq'[p] : slotq'[p][j] = slotq[p][i]
             /\ \A i \in DOMAIN slotq'[p] : i \in Nat /\ i >= 1
  <2>1. slotq'[p] = RemoveFirst(slotq[p], c)
    BY <1>1
  <2>2. slotq'[p] \in Seq(PamCalls)
    BY <1>3, <2>1, RemoveFirstFacts
  <2>3. \A i \in DOMAIN slotq'[p] : i \in Nat /\ i >= 1
    BY <2>2
  <2> QED
    BY <1>3, <2>1, <2>3, RemoveFirstFacts
<1>5. ASSUME NEW p \in Peers, NEW i \in DOMAIN slotq'[p]
      PROVE  /\ conn'[slotq'[p][i]].peer = p
             /\ conn'[slotq'[p][i]].pc \in IF i = 1 THEN {"queue", "notify", "wait", "audit"}
                                           ELSE {"queue", "audit"}
  <2>1. PICK j \in {i, i + 1} : j \in DOMAIN slotq[p] /\ slotq'[p][i] = slotq[p][j]
    BY <1>4
  <2>2. i \in Nat /\ i >= 1 /\ (j = 1 => i = 1)
    BY <1>4, <2>1
  <2>3. slotq[p][j] # c /\ slotq[p][j] \in Calls
    BY <1>3, <1>4, <2>1
  <2>4. conn'[slotq[p][j]] = conn[slotq[p][j]]
    BY <1>2, <2>3
  <2>5. /\ conn[slotq[p][j]].peer = p
        /\ conn[slotq[p][j]].pc \in IF j = 1 THEN {"queue", "notify", "wait", "audit"}
                                             ELSE {"queue", "audit"}
    BY <2>1 DEF SlotInv
  <2> QED
    BY <2>1, <2>2, <2>4, <2>5
<1>6. ASSUME NEW d \in Calls, conn'[d].pc = "queue"
      PROVE  conn'[d].peer \in Peers
             /\ \E i \in DOMAIN slotq'[conn'[d].peer] : slotq'[conn'[d].peer][i] = d
  <2>1. d # c /\ conn'[d] = conn[d]
    BY <1>2, <1>6
  <2>2. conn[d].peer \in Peers /\ \E i \in DOMAIN slotq[conn[d].peer] : slotq[conn[d].peer][i] = d
    BY <1>6, <2>1 DEF SlotInv
  <2> QED
    BY <1>4, <2>1, <2>2
<1> QED
  BY <1>4, <1>5, <1>6 DEF SlotInv

(* The accept loop moves one connection.                                      *)
LEMMA AcceptMoves ==
    ASSUME TypeOK, AcceptInv, Accept \/ Spawn
    PROVE  \E c \in Calls :
              /\ conn[c].pc \in {"queued", "held"} /\ conn'[c].pc \in {"held", "reading"}
              /\ conn'[c].out = conn[c].out /\ conn'[c].replied = conn[c].replied
              /\ \A d \in Calls \ {c} : conn'[d] = conn[d]
<1>0. conn \in [Calls -> Conn]
  BY DEF TypeOK
<1>1. CASE Accept
  <2>1. backlog \in Seq(Calls) /\ backlog # <<>> /\ Head(backlog) = backlog[1]
        /\ 1 \in DOMAIN backlog /\ Head(backlog) \in Calls
    BY <1>1 DEF Accept, TypeOK
  <2>2. conn[Head(backlog)].pc = "queued"
    BY <2>1 DEF AcceptInv
  <2>3. conn' = [conn EXCEPT ![Head(backlog)].pc = "held"]
    BY <1>1 DEF Accept
  <2> QED
    BY <1>0, <2>1, <2>2, <2>3 DEF Conn
<1>2. CASE Spawn
  <2>1. held \in Calls /\ conn[held].pc = "held" /\ conn' = [conn EXCEPT ![held].pc = "reading"]
    BY <1>2 DEF Spawn, TypeOK, AcceptInv
  <2> QED
    BY <1>0, <2>1 DEF Conn
<1> QED
  BY <1>1, <1>2

LEMMA SlotKept ==
    ASSUME TypeOK, CallInv, SlotInv, AcceptInv, [Next]_vars
    PROVE  SlotInv'
<1>0. conn \in [Calls -> Conn]
  BY DEF TypeOK
<1>1. CASE UNCHANGED <<conn, slotq>>
  BY <1>1, SlotFrame DEF Advances
<1>2. ASSUME NEW c \in Calls, UNCHANGED slotq, \A d \in Calls \ {c} : conn'[d] = conn[d],
             Advances(c)
      PROVE  SlotInv'
  BY <1>2, SlotFrame DEF Advances
<1>3. ASSUME NEW c \in Calls, Connect(c) \/ WriteRequest(c) PROVE SlotInv'
  <2>1. client[c].pc \in {"connect", "write"} /\ UNCHANGED slotq
    BY <1>3 DEF Connect, WriteRequest
  <2>2. conn[c].pc \notin InSlot
    BY <2>1 DEF CallInv, CallOK, InSlot
  <2>3. /\ \A d \in Calls \ {c} : conn'[d] = conn[d]
        /\ conn'[c].pc # "queue"
    BY <1>0, <1>3, <2>2 DEF Connect, WriteRequest, Conn, InSlot
  <2> QED
    BY <1>2, <2>1, <2>2, <2>3 DEF Advances
<1>4. ASSUME NEW c \in Calls, ServerStep(c) \/ PhoneResponds(c),
             ~DispatchChallenge(c), ~AuditAndRelease(c)
      PROVE  SlotInv'
  <2>1. UNCHANGED slotq
    BY <1>4, QuietSteps DEF Quiet, Connect, LogAndReturn, serverVars
  <2>2. \A d \in Calls \ {c} : conn'[d] = conn[d]
    <3>1. CallStep(c)
      BY <1>4, EndsOfTypeOK, ServerSteps
    <3> QED
      BY <3>1 DEF CallStep, Alone
  <2>3. Advances(c)
    <3>1. CASE ReadEof(c) \/ DispatchDirect(c) \/ DispatchUnknown(c) \/ WriteAnswer(c)
      BY <1>0, <3>1 DEF ReadEof, DispatchDirect, DispatchUnknown, Conclude, WriteAnswer,
                        Advances, InSlot, Conn
    <3>2. CASE Admit(c)
      BY <1>0, <3>2 DEF Admit, Advances, InSlot, Conn
    <3>3. ASSUME NEW r, Conclude(c, r), conn[c].pc \in InSlot PROVE Advances(c)
      <4>1. conn'[c].pc = "audit" /\ conn'[c].peer = conn[c].peer
        BY <1>0, <3>3 DEF Conclude, Conn
      <4> QED
        BY <4>1 DEF Advances, InSlot
    <3>4. CASE Busy(c) \/ WaitTimesOut(c) \/ PhoneResponds(c)
      BY <3>3, <3>4 DEF Busy, WaitTimesOut, PhoneResponds, InSlot
    <3>5. CASE Notified(c)
      <4>0. conn[c].pc = "notify"
        BY <3>5 DEF Notified
      <4>1. CASE conn' = [conn EXCEPT ![c].pc = "wait", ![c].timer = AuthTimeout]
        <5>1. conn'[c].pc = "wait" /\ conn'[c].peer = conn[c].peer
          BY <1>0, <4>1 DEF Conn
        <5> QED
          BY <4>0, <5>1 DEF Advances, InSlot
      <4> QED
        BY <3>3, <3>5, <4>0, <4>1 DEF Notified, InSlot
    <3> QED
      BY <1>4, <3>1, <3>2, <3>4, <3>5 DEF ServerStep
  <2> QED
    BY <1>2, <2>1, <2>2, <2>3
<1>5. ASSUME Accept \/ Spawn PROVE SlotInv'
  <2>1. PICK c \in Calls : /\ conn[c].pc \in {"queued", "held"} /\ conn'[c].pc \in {"held", "reading"}
                           /\ \A d \in Calls \ {c} : conn'[d] = conn[d]
    BY <1>5, AcceptMoves
  <2>2. UNCHANGED slotq
    BY <1>5 DEF Accept, Spawn
  <2> QED
    BY <1>2, <2>1, <2>2 DEF Advances, InSlot
<1>6. ASSUME Down PROVE SlotInv'
  <2>1. slotq' = [p \in Peers |-> <<>>]
    BY <1>6 DEF Down
  <2>2. \A p \in Peers : DOMAIN slotq'[p] = {}
    BY <2>1
  <2>3. \A d \in Calls : conn'[d].pc # "queue"
    BY <1>6, EndsOfTypeOK, DownEnds
  <2> QED
    BY <2>2, <2>3 DEF SlotInv
<1>7. ASSUME Tick PROVE SlotInv'
  <2>1. /\ conn' = [c \in Calls |-> IF Waiting(c) THEN [conn[c] EXCEPT !.timer = @ - 1]
                                    ELSE conn[c]]
        /\ UNCHANGED slotq
    BY <1>7 DEF Tick
  <2>2. \A d \in Calls : conn'[d].pc = conn[d].pc /\ conn'[d].peer = conn[d].peer
    BY <1>0, <2>1 DEF Conn
  <2> QED
    BY <2>1, <2>2, SlotFrame DEF Advances
<1>8. ASSUME NEW c \in Calls,
             Begin(c) \/ ClientStep(c) \/ ServerStep(c) \/ PhoneResponds(c) \/ Panic(c) \/ Kill(c)
      PROVE  SlotInv'
  BY <1>1, <1>3, <1>4, <1>8, SlotJoin, SlotLeave
     DEF Begin, ResolvePeer, ResolveNobody, ProbeStart, ClientStep, ConnectFails,
         ConnectionLost, ReadTimesOut, ReadAnswer, LogAndReturn, Panic, Kill, serverVars
<1> QED
  BY <1>1, <1>5, <1>6, <1>7, <1>8
     DEF Next, vars, DaemonStart, DaemonStop, PowerLoss, Edit, Revoke, Pair, OpenKey, WriteKey,
         Reload, serverVars

-----------------------------------------------------------------------------
(* The daemon's record of an approval.                                        *)

LEMMA AppendFacts ==
    ASSUME NEW S, NEW s \in Seq(S), NEW l, NEW t, t = Append(s, l)
    PROVE  /\ Len(s) \in Nat /\ DOMAIN s = 1..Len(s) /\ DOMAIN t = 1..(Len(s) + 1)
           /\ Len(t) = Len(s) + 1
           /\ t[Len(s) + 1] = l /\ \A i \in 1..Len(s) : t[i] = s[i]
OBVIOUS

(* The caller may still log a success, and the daemon is past its line.       *)
Carries(c) ==
    /\ client[c].pc \in {"write", "read", "log"}
    /\ conn[c].pc = "answer" \/ conn[c].replied
    /\ conn[c].out = "ok"

LogKeeps == Len(log) <= Len(log') /\ \A i \in 1..Len(log) : log'[i] = log[i]

(* Only a handler that has its audit line, or the lack of one, begins to      *)
(* carry an approval.                                                         *)
LEMMA CarrySteps ==
    ASSUME TypeOK, CallInv, AcceptInv, [Next]_vars, NEW d \in PamCalls, Carries(d)'
    PROVE  Carries(d) \/ AuditAndRelease(d)
<1>0. /\ client \in [Calls -> Client] /\ conn \in [Calls -> Conn] /\ CallOK(d) /\ d \in Calls
      /\ CallInv /\ Ends
  BY EndsOfTypeOK DEF TypeOK, CallInv
<1>1. ASSUME client'[d] = client[d], conn'[d] = conn[d] PROVE Carries(d)
  BY <1>1 DEF Carries
<1>2. ASSUME client[d].pc \in {"idle", "connect"}, conn'[d].pc \in {conn[d].pc, "queued"},
             conn'[d].replied = conn[d].replied
      PROVE  FALSE
  BY <1>0, <1>2 DEF Carries, CallOK
<1>3. ASSUME NEW c \in Calls, Begin(c) \/ ClientStep(c) \/ Panic(c) \/ Kill(c) PROVE Carries(d)
  <2>1. CallStep(c)
    BY <1>0, <1>3, ClientSteps, BondsOfTypeOK
  <2>2. CASE c # d
    BY <1>0, <1>1, <2>1, <2>2 DEF CallStep, Alone
  <2>3. CASE c = d
    <3>1. CASE Connect(c)
      BY <1>0, <1>2, <2>3, <3>1 DEF Connect, Conn
    <3>2. CASE Begin(c) \/ ConnectFails(c)
      BY <1>0, <1>2, <2>3, <3>2
         DEF Begin, ResolvePeer, ResolveNobody, ProbeStart, ConnectFails, serverVars
    <3>3. CASE WriteRequest(c)
      BY <1>0, <2>3, <3>3 DEF WriteRequest, Conn, Carries
    <3>4. CASE ConnectionLost(c) \/ ReadTimesOut(c) \/ ReadAnswer(c) \/ LogAndReturn(c)
      <4>1. client[d].pc \in {"write", "read", "log"} /\ UNCHANGED conn
        BY <2>3, <3>4 DEF ConnectionLost, ReadTimesOut, ReadAnswer, LogAndReturn, serverVars
      <4> QED
        BY <4>1 DEF Carries
    <3>5. CASE Panic(c) \/ Kill(c)
      BY <1>0, <2>3, <3>5 DEF Panic, Kill, Carries, Client
    <3> QED
      BY <1>3, <3>1, <3>2, <3>3, <3>4, <3>5 DEF ClientStep
  <2> QED
    BY <2>2, <2>3
<1>4. ASSUME NEW c \in Calls, ServerStep(c) \/ PhoneResponds(c)
      PROVE  Carries(d) \/ AuditAndRelease(d)
  <2>1. CallStep(c)
    BY <1>0, <1>4, ServerSteps
  <2>2. CASE c # d
    BY <1>0, <1>1, <2>1, <2>2 DEF CallStep, Alone
  <2>3. CASE c = d
    <3>0. ASSUME conn'[d].pc # "answer", conn'[d].replied = conn[d].replied,
                 conn[d].pc # "closed"
          PROVE  FALSE
      BY <1>0, <3>0 DEF Carries, CallOK
    <3>1. CASE ReadEof(c) \/ Admit(c) \/ DispatchChallenge(c)
      BY <1>0, <2>3, <3>0, <3>1 DEF ReadEof, Admit, DispatchChallenge, Conn
    <3>2. CASE \E r \in Reasons : Conclude(c, r) /\ conn[c].pc # "closed"
      BY <1>0, <2>3, <3>0, <3>2 DEF Conclude, Conn
    <3>5. CASE DispatchUnknown(c) \/ Busy(c) \/ WaitTimesOut(c)
      BY <3>2, <3>5 DEF DispatchUnknown, Busy, WaitTimesOut, Reasons, ChallengeReasons
    <3>6. CASE PhoneResponds(c)
      BY <3>2, <3>6 DEF PhoneResponds, PhoneVerdicts, Reasons, ChallengeReasons
    <3>7. CASE Notified(c)
      <4>1. CASE conn' = [conn EXCEPT ![c].pc = "wait", ![c].timer = AuthTimeout]
        BY <1>0, <2>3, <3>0, <3>7, <4>1 DEF Notified, Conn
      <4> QED
        BY <3>2, <3>7, <4>1 DEF Notified, Reasons, ChallengeReasons
    <3>3. CASE DispatchDirect(c)
      BY <1>0, <2>3, <3>3 DEF DispatchDirect, Carries, Conn
    <3>4. CASE WriteAnswer(c)
      BY <1>0, <2>3, <3>4 DEF WriteAnswer, Carries, Conn
    <3> QED
      BY <1>4, <2>3, <3>1, <3>3, <3>4, <3>5, <3>6, <3>7 DEF ServerStep
  <2> QED
    BY <2>2, <2>3
<1>5. ASSUME Accept \/ Spawn PROVE Carries(d)
  <2>1. UNCHANGED client /\ conn'[d].out = conn[d].out /\ conn'[d].replied = conn[d].replied
        /\ (conn'[d].pc = conn[d].pc \/ conn'[d].pc # "answer")
    BY <1>0, <1>5, AcceptMoves DEF Accept, Spawn
  <2> QED
    BY <2>1 DEF Carries
<1>6. ASSUME DaemonStop PROVE Carries(d)
  <2>1. UNCHANGED client /\ conn'[d].out = conn[d].out /\ conn'[d].replied = conn[d].replied
        /\ conn'[d].pc # "answer"
    BY <1>0, <1>6, DownEnds DEF DaemonStop
  <2> QED
    BY <2>1 DEF Carries
<1>7. ASSUME PowerLoss PROVE FALSE
  <2>1. client'[d].pc \in {"idle", "done", "killed"}
    BY <1>0, <1>7 DEF PowerLoss, Client
  <2> QED
    BY <2>1 DEF Carries
<1>8. ASSUME Tick PROVE Carries(d)
  <2>1. client'[d].pc = client[d].pc
    BY <1>0, <1>8 DEF Tick, Client
  <2>2. conn'[d].pc = conn[d].pc /\ conn'[d].out = conn[d].out
        /\ conn'[d].replied = conn[d].replied
    BY <1>0, <1>8 DEF Tick, Conn
  <2> QED
    BY <2>1, <2>2 DEF Carries
<1> QED
  BY <1>1, <1>3, <1>4, <1>5, <1>6, <1>7, <1>8
     DEF Next, vars, DaemonStart, Edit, Revoke, Pair, OpenKey, WriteKey, Reload, serverVars

(* What a step does to the log: nothing, a line more, or the loss of a tail.  *)
LEMMA LogMoves ==
    ASSUME TypeOK, CallInv, [Next]_vars
    PROVE  /\ unlogged \subseteq unlogged'
           /\ \/ UNCHANGED log
              \/ \E c \in Calls : LogAndReturn(c) /\ log' = Append(log,
                    [src |-> "pam", call |-> c,
                     res |-> IF client[c].reason = "ok" THEN "success" ELSE "failure"])
              \/ \E c \in Calls : AuditAndRelease(c) /\ log' = Append(log,
                    [src |-> "daemon", call |-> c, res |-> conn[c].out])
              \/ PowerLoss
<1> DEFINE G == /\ unlogged \subseteq unlogged'
                /\ \/ UNCHANGED log
                   \/ \E c \in Calls : LogAndReturn(c) /\ log' = Append(log,
                         [src |-> "pam", call |-> c,
                          res |-> IF client[c].reason = "ok" THEN "success" ELSE "failure"])
                   \/ \E c \in Calls : AuditAndRelease(c) /\ log' = Append(log,
                         [src |-> "daemon", call |-> c, res |-> conn[c].out])
                   \/ PowerLoss
<1>1. CASE UNCHANGED <<log, unlogged>>
  BY <1>1
<1>2. ASSUME NEW c \in Calls, LogAndReturn(c) PROVE G
  BY <1>2 DEF LogAndReturn, LogAppendPam, logVars
<1>3. ASSUME NEW c \in Calls, AuditAndRelease(c) PROVE G
  <2>1. unlogged \subseteq unlogged'
    BY <1>3 DEF AuditAndRelease
  <2>2. \/ UNCHANGED log
        \/ log' = Append(log, [src |-> "daemon", call |-> c, res |-> conn[c].out])
    BY <1>3 DEF AuditAndRelease, LogAppend, LogAppendUnsynced, logVars
  <2> QED
    BY <1>3, <2>1, <2>2
<1>4. ASSUME PowerLoss PROVE G
  BY <1>4 DEF PowerLoss
<1>5. ASSUME NEW c \in Calls,
             Begin(c) \/ ClientStep(c) \/ ServerStep(c) \/ PhoneResponds(c) \/ Panic(c) \/ Kill(c)
      PROVE  G
  <2>1. CASE Quiet \/ Connect(c) \/ DispatchChallenge(c)
    BY <1>1, <2>1 DEF Quiet, Connect, DispatchChallenge, envVars, logVars
  <2> QED
    BY <1>2, <1>3, <1>5, <2>1, QuietSteps
<1>6. ASSUME Accept \/ Spawn \/ DaemonStart \/ DaemonStop \/ Reload \/ Tick
             \/ (\E p \in Peers : Edit(p)) \/ UNCHANGED vars
      PROVE  G
  BY <1>1, <1>6 DEF Accept, Spawn, DaemonStart, DaemonStop, Reload, Tick, Edit, Revoke, Pair,
      OpenKey, WriteKey,
                    envVars, logVars, LogOpen, vars
<1> QED
  BY <1>4, <1>5, <1>6 DEF Next

LEMMA LineKept ==
    ASSUME TypeOK, TypeOK', CallInv, AcceptInv, LineInv, [Next]_vars
    PROVE  LineInv'
<1>0. LogTypeOK /\ LogTypeOK' /\ log \in Seq(Line) /\ Len(log) \in Nat
  BY DEF TypeOK, LogTypeOK
<1>1. CASE PowerLoss
  <2>1. client' = [c \in Calls |-> IF client[c].pc \in {"idle", "done", "killed"} THEN client[c]
                                    ELSE [client[c] EXCEPT !.pc = "killed", !.budget = 0]]
        /\ client \in [Calls -> Client]
    BY <1>1 DEF PowerLoss, TypeOK
  <2>2. \A c \in PamCalls : client'[c].pc \in {"idle", "done", "killed"}
    BY <2>1 DEF Client
  <2> QED
    BY <2>2 DEF LineInv
<1>2. CASE ~PowerLoss
  <2>1. LogKeeps /\ unlogged \subseteq unlogged'
    <3>1. unlogged \subseteq unlogged' /\ (UNCHANGED log \/ \E l : log' = Append(log, l))
      BY <1>2, LogMoves
    <3>2. ASSUME log' = log PROVE LogKeeps
      BY <1>0, <3>2 DEF LogKeeps
    <3>3. ASSUME NEW l, log' = Append(log, l) PROVE LogKeeps
      BY <1>0, <3>3, AppendFacts DEF LogKeeps
    <3> QED
      BY <3>1, <3>2, <3>3
  <2>2. SUFFICES ASSUME NEW d \in PamCalls, Carries(d)', d \notin unlogged'
                 PROVE  \E j \in 1..Len(log') : log'[j] = OkLine(d)
    BY DEF LineInv, Carries, OkLine
  <2>3. CASE Carries(d)
    <3>1. PICK j \in 1..Len(log) : log[j] = OkLine(d)
      BY <2>1, <2>2, <2>3 DEF LineInv, Carries
    <3>2. j \in 1..Len(log') /\ log'[j] = log[j]
      BY <1>0, <2>1, <3>1 DEF LogKeeps, LogTypeOK
    <3> QED
      BY <3>1, <3>2
  <2>4. CASE AuditAndRelease(d)
    <3>1. conn[d].out = "ok"
      BY <2>2, <2>4 DEF AuditAndRelease, Carries, TypeOK, Conn
    <3>2. log' = Append(log, OkLine(d))
      BY <2>2, <2>4, <3>1 DEF AuditAndRelease, LogAppend, LogAppendUnsynced, OkLine
    <3>3. Len(log) + 1 \in 1..Len(log') /\ log'[Len(log) + 1] = OkLine(d)
      BY <1>0, <3>2, AppendFacts
    <3> QED
      BY <3>3
  <2> QED
    BY <2>2, <2>3, <2>4, CarrySteps
<1> QED
  BY <1>1, <1>2

LEMMA SuccessKept ==
    ASSUME TypeOK, CallInv, LineInv, SuccessAfterOk, [Next]_vars
    PROVE  SuccessAfterOk'
<1>0. log \in Seq(Line) /\ Len(log) \in Nat /\ DOMAIN log = 1..Len(log)
  BY DEF TypeOK, LogTypeOK
<1>1. unlogged \subseteq unlogged'
  BY LogMoves
<1> SUFFICES ASSUME NEW i \in DOMAIN log', log'[i].src = "pam", log'[i].res = "success",
                    log'[i].call \notin unlogged'
             PROVE  \E j \in 1..(i - 1) : log'[j] = OkLine(log'[i].call)
  BY DEF SuccessAfterOk, OkLine
<1>2. ASSUME i \in 1..Len(log), \A j \in 1..i : log'[j] = log[j]
      PROVE  \E j \in 1..(i - 1) : log'[j] = OkLine(log'[i].call)
  <2>1. i \in DOMAIN log /\ log'[i] = log[i] /\ i \in Nat
    BY <1>0, <1>2
  <2>2. PICK j \in 1..(i - 1) : log[j] = OkLine(log[i].call)
    BY <1>1, <2>1 DEF SuccessAfterOk
  <2>3. j \in 1..i
    BY <2>1, <2>2
  <2> QED
    BY <1>2, <2>1, <2>2, <2>3
<1>3. CASE UNCHANGED log
  BY <1>0, <1>2, <1>3
<1>4. ASSUME NEW c \in Calls, LogAndReturn(c), log' = Append(log,
                    [src |-> "pam", call |-> c,
                     res |-> IF client[c].reason = "ok" THEN "success" ELSE "failure"])
      PROVE  \E j \in 1..(i - 1) : log'[j] = OkLine(log'[i].call)
  <2> DEFINE l == [src |-> "pam", call |-> c,
                   res |-> IF client[c].reason = "ok" THEN "success" ELSE "failure"]
  <2>1. /\ DOMAIN log' = 1..(Len(log) + 1) /\ log'[Len(log) + 1] = l
        /\ \A j \in 1..Len(log) : log'[j] = log[j]
    BY <1>0, <1>4, AppendFacts
  <2>2. CASE i \in 1..Len(log)
    BY <1>0, <1>2, <2>1, <2>2
  <2>3. CASE i = Len(log) + 1
    <3>1. log'[i].call = c /\ client[c].reason = "ok" /\ client[c].pc = "log" /\ c \notin unlogged
      BY <1>1, <1>4, <2>1, <2>3 DEF LogAndReturn
    <3>2. c \in PamCalls /\ conn[c].out = "ok" /\ conn[c].replied
      BY <3>1 DEF CallInv, CallOK, OwnReasons
    <3>3. PICK j \in 1..Len(log) : log[j] = OkLine(c)
      BY <3>1, <3>2 DEF LineInv
    <3>4. j \in 1..(i - 1) /\ log'[j] = log[j]
      BY <1>0, <2>1, <2>3, <3>3
    <3> QED
      BY <3>1, <3>3, <3>4
  <2> QED
    BY <1>0, <2>1, <2>2, <2>3
<1>5. ASSUME NEW c \in Calls,
             log' = Append(log, [src |-> "daemon", call |-> c, res |-> conn[c].out])
      PROVE  \E j \in 1..(i - 1) : log'[j] = OkLine(log'[i].call)
  <2>1. /\ DOMAIN log' = 1..(Len(log) + 1) /\ log'[Len(log) + 1].src = "daemon"
        /\ \A j \in 1..Len(log) : log'[j] = log[j]
    BY <1>0, <1>5, AppendFacts
  <2>2. i \in 1..Len(log)
    BY <1>0, <2>1
  <2> QED
    BY <1>0, <1>2, <2>1, <2>2
<1>6. ASSUME PowerLoss
      PROVE  \E j \in 1..(i - 1) : log'[j] = OkLine(log'[i].call)
  <2>1. PICK n \in synced..Len(log) : log' = SubSeq(log, 1, n)
    BY <1>6 DEF PowerLoss, LogPowerLoss
  <2>2. n \in Nat /\ n <= Len(log)
    BY <1>0, <2>1 DEF TypeOK, LogTypeOK
  <2>3. DOMAIN log' = 1..n /\ \A j \in 1..n : log'[j] = log[j]
    BY <1>0, <2>1, <2>2
  <2> QED
    BY <1>0, <1>2, <2>2, <2>3
<1> QED
  BY <1>3, <1>4, <1>5, <1>6, LogMoves

-----------------------------------------------------------------------------
(* PAM and the daemon agree on the peer.                                      *)

LEMMA ServedKept ==
    ASSUME TypeOK, PamPeerIsServed, [Next]_vars
    PROVE  PamPeerIsServed'
<1>0. bonds \in Seq(Record) /\ (FirstBonded(bonds) \in keys => FirstBonded(bonds) # None)
  BY DEF TypeOK, Record
<1>1. CASE UNCHANGED <<up, fresh, live, bonds, keys>>
  BY <1>1 DEF PamPeerIsServed
<1>2. ASSUME fresh' = FALSE PROVE PamPeerIsServed'
  BY <1>2 DEF PamPeerIsServed
<1>3. ASSUME DaemonStart PROVE PamPeerIsServed'
  <2>1. (fresh' => live' = ColdStart) /\ bonds' = bonds /\ keys' = keys
    BY <1>3 DEF DaemonStart, bondVars
  <2>2. FirstBonded(bonds) \in keys => FirstBonded(bonds) \in ColdStart
    BY <1>0, FirstBondedIsBonded DEF ColdStart
  <2> QED
    BY <2>1, <2>2 DEF PamPeerIsServed
<1>4. ASSUME Reload PROVE PamPeerIsServed'
  <2>1. (fresh' => live' = NewSet) /\ bonds' = bonds /\ keys' = keys
    BY <1>4 DEF Reload, bondVars
  <2>2. FirstBonded(bonds) \in keys => FirstBonded(bonds) \in NewSet
    BY <1>0, FirstBondedIsBonded DEF NewSet
  <2> QED
    BY <2>1, <2>2 DEF PamPeerIsServed
<1>5. ASSUME NEW c \in Calls,
             Begin(c) \/ ClientStep(c) \/ ServerStep(c) \/ PhoneResponds(c) \/ Panic(c) \/ Kill(c)
      PROVE  PamPeerIsServed'
  BY <1>1, <1>5, QuietSteps
     DEF Quiet, Connect, LogAndReturn, DispatchChallenge, AuditAndRelease, daemonVars, envVars,
         bondVars
<1>6. ASSUME Down \/ (\E p \in Peers : Edit(p)) PROVE PamPeerIsServed'
  BY <1>2, <1>6 DEF Down, Edit, Revoke, Pair, OpenKey, WriteKey
<1> QED
  BY <1>1, <1>3, <1>4, <1>5, <1>6
     DEF Next, vars, daemonVars, envVars, bondVars, Accept, Spawn, DaemonStop, PowerLoss, Tick

-----------------------------------------------------------------------------
(* What a power failure can take.                                             *)

LEMMA DivMod ==
    ASSUME NEW E \in Nat \ {0}, NEW a \in Nat
    PROVE  a = E * (a \div E) + (a % E) /\ (a \div E) \in Int /\ a % E \in 0..(E - 1)
<1>1. a = E * (a \div E) + (a % E)
  OBVIOUS
<1>2. (a \div E) \in Int
  OBVIOUS
<1>3. a % E \in 0..(E - 1)
  OBVIOUS
<1> QED
  BY <1>1, <1>2, <1>3

LEMMA ModUnique ==
    ASSUME NEW E \in Int, E > 0, NEW a \in Int, NEW q \in Int, NEW r \in Int,
           0 <= r, r < E, a = E * q + r
    PROVE  (a % E) = r
OBVIOUS

(* Between two syncs that are due the counter's remainder grows by one.       *)
LEMMA NextMod ==
    ASSUME NEW E \in Nat \ {0}, NEW a \in Nat, (a + 1) % E # 0
    PROVE  (a + 1) % E = (a % E) + 1
<1> DEFINE q == a \div E
           r == a % E
<1>1. a = E * q + r /\ q \in Int /\ r \in 0..(E - 1)
  BY DivMod
<1> HIDE DEF q, r
<1>2. CASE r + 1 < E
  <2>1. a + 1 = E * q + (r + 1) /\ r + 1 \in Int /\ 0 <= r + 1 /\ a + 1 \in Int
    BY <1>1
  <2>2. (a + 1) % E = r + 1
    BY <1>1, <1>2, <2>1, ModUnique
  <2> QED
    BY <2>2 DEF r
<1>3. CASE r + 1 = E
  <2>1. a + 1 = E * (q + 1) + 0 /\ q + 1 \in Int /\ a + 1 \in Int
    BY <1>1, <1>3
  <2>2. (a + 1) % E = 0
    BY <2>1, ModUnique
  <2> QED
    BY <2>2
<1> QED
  BY <1>1, <1>2, <1>3

LEMMA Budget ==
    ASSUME NEW E \in Nat \ {0}, NEW o \in Nat \ {0}
    PROVE  /\ (o - 1) * (E - 1) + (E - 1) = o * (E - 1)
           /\ (o - 1) * (E - 1) \in Nat
OBVIOUS

LEMMA UnsyncedFinite ==
    ASSUME LogTypeOK
    PROVE  IsFiniteSet(Unsynced) /\ Cardinality(Unsynced) \in Nat
<1>1. IsFiniteSet((synced + 1)..Len(log))
  BY FS_Interval DEF LogTypeOK
<1>2. Unsynced \subseteq (synced + 1)..Len(log)
  BY DEF Unsynced
<1> QED
  BY <1>1, <1>2, FS_Subset, FS_CardinalityType

(* A record of the daemon: synced at once, or one more that is not.           *)
LEMMA UnsyncedOnAppend ==
    ASSUME LogTypeOK, NEW c, NEW r, LogAppend(c, r)
    PROVE  /\ Due => Unsynced' = {}
           /\ ~Due => Cardinality(Unsynced') = Cardinality(Unsynced) + 1
<1>1. log' = Append(log, [src |-> "daemon", call |-> c, res |-> r])
  BY DEF LogAppend
<1>2. /\ Len(log) \in Nat /\ Len(log') = Len(log) + 1
      /\ log'[Len(log) + 1].src = "daemon" /\ \A i \in 1..Len(log) : log'[i] = log[i]
  BY <1>1, AppendFacts DEF LogTypeOK
<1>3. synced \in Nat /\ synced <= Len(log)
  BY <1>2 DEF LogTypeOK
<1>4. ASSUME Due PROVE Unsynced' = {}
  <2>1. synced' = Len(log) + 1
    BY <1>4 DEF LogAppend
  <2> QED
    BY <1>2, <2>1 DEF Unsynced
<1>5. ASSUME ~Due PROVE Cardinality(Unsynced') = Cardinality(Unsynced) + 1
  <2>1. synced' = synced
    BY <1>5 DEF LogAppend
  <2>2. Unsynced' = Unsynced \cup {Len(log) + 1} /\ Len(log) + 1 \notin Unsynced
    BY <1>2, <1>3, <2>1 DEF Unsynced
  <2> QED
    BY <2>2, UnsyncedFinite, FS_AddElement
<1> QED
  BY <1>4, <1>5

LEMMA UnsyncedOnPam ==
    ASSUME LogTypeOK, NEW c, NEW r, LogAppendPam(c, r)
    PROVE  Unsynced' = Unsynced
<1>1. log' = Append(log, [src |-> "pam", call |-> c, res |-> r]) /\ synced' = synced
  BY DEF LogAppendPam
<1>2. /\ Len(log) \in Nat /\ Len(log') = Len(log) + 1
      /\ log'[Len(log) + 1].src = "pam" /\ \A i \in 1..Len(log) : log'[i] = log[i]
  BY <1>1, AppendFacts DEF LogTypeOK
<1>3. synced \in Nat /\ synced <= Len(log)
  BY <1>2 DEF LogTypeOK
<1> QED
  BY <1>1, <1>2, <1>3 DEF Unsynced

(* The first three parts of SyncInv, and the bound.                           *)
LEMMA BoundKept ==
    ASSUME LogTypeOK, NEW c, NEW r, SyncInv, opens > 0, LogAppend(c, r), ~syncFailed
    PROVE  Cardinality(Unsynced') <=
              (opens - 1) * (AUDIT_FSYNC_EVERY - 1) + ((appended + 1) % AUDIT_FSYNC_EVERY)
<1> DEFINE B == (opens - 1) * (AUDIT_FSYNC_EVERY - 1)
           E == AUDIT_FSYNC_EVERY
<1>1. B \in Nat /\ Cardinality(Unsynced) \in Nat /\ appended \in Nat /\ E \in Nat \ {0}
  BY Budget, UnsyncedFinite DEF LogTypeOK
<1>2. Cardinality(Unsynced) <= B + (appended % E)
  BY DEF SyncInv
<1>3. (appended + 1) % E \in Nat /\ appended % E \in Nat
  BY <1>1, DivMod
<1> HIDE DEF B
<1>4. CASE Due
  <2>1. Cardinality(Unsynced') = 0
    BY <1>4, UnsyncedOnAppend, FS_EmptySet
  <2> QED
    BY <1>1, <1>3, <2>1 DEF B
<1>5. CASE ~Due
  <2>1. (appended + 1) % E = (appended % E) + 1
    BY <1>1, <1>5, NextMod DEF Due
  <2>2. Cardinality(Unsynced') = Cardinality(Unsynced) + 1
    BY <1>5, UnsyncedOnAppend
  <2>3. Cardinality(Unsynced') <= B + ((appended + 1) % E)
    BY <1>1, <1>2, <1>3, <2>1, <2>2
  <2> QED
    BY <2>3 DEF B
<1> QED
  BY <1>4, <1>5

LEMMA SyncKept ==
    ASSUME TypeOK, SyncInv, [Next]_vars
    PROVE  SyncInv'
<1>0. LogTypeOK /\ opens \in Nat /\ appended \in Nat /\ Cardinality(Unsynced) \in Nat
  BY UnsyncedFinite DEF TypeOK, LogTypeOK
<1>1. ASSUME Unsynced' = Unsynced, UNCHANGED <<up, auditing, appended, opens, syncFailed>>
      PROVE  SyncInv'
  BY <1>1 DEF SyncInv
<1>2. CASE UNCHANGED <<up, auditing, logVars>>
  BY <1>1, <1>2 DEF logVars, Unsynced
<1>3. ASSUME NEW c \in Calls, LogAndReturn(c) PROVE SyncInv'
  <2>1. CASE UNCHANGED logVars
    BY <1>2, <1>3, <2>1 DEF LogAndReturn, daemonVars
  <2>2. ASSUME NEW r, LogAppendPam(c, r) PROVE SyncInv'
    BY <1>0, <1>1, <1>3, <2>2, UnsyncedOnPam DEF LogAndReturn, daemonVars, LogAppendPam
  <2> QED
    BY <1>3, <2>1, <2>2 DEF LogAndReturn
<1>4. ASSUME NEW c \in Calls, AuditAndRelease(c) PROVE SyncInv'
  <2>0. UNCHANGED <<up, auditing>>
    BY <1>4 DEF AuditAndRelease, daemonVars
  <2>1. CASE UNCHANGED logVars
    BY <1>2, <2>0, <2>1
  <2>2. ASSUME auditing, LogAppend(c, conn[c].out) PROVE SyncInv'
    <3>1. opens > 0 /\ opens' = opens /\ appended' = appended + 1 /\ syncFailed' = syncFailed
      BY <1>0, <2>2 DEF SyncInv, LogAppend
    <3>2. ~syncFailed => Cardinality(Unsynced') <=
              (opens - 1) * (AUDIT_FSYNC_EVERY - 1) + ((appended + 1) % AUDIT_FSYNC_EVERY)
      BY <1>0, <2>2, <3>1, BoundKept
    <3> QED
      BY <1>0, <2>0, <3>1, <3>2 DEF SyncInv
  <2>3. ASSUME auditing, LogAppendUnsynced(c, conn[c].out) PROVE SyncInv'
    <3>1. opens > 0 /\ opens' = opens /\ syncFailed' = TRUE
      BY <1>0, <2>3 DEF SyncInv, LogAppendUnsynced
    <3> QED
      BY <1>0, <2>0, <3>1 DEF SyncInv
  <2> QED
    BY <1>4, <2>1, <2>2, <2>3 DEF AuditAndRelease
<1>5. ASSUME DaemonStart PROVE SyncInv'
  <2> DEFINE E == AUDIT_FSYNC_EVERY
  <2>1. up' = TRUE /\ appended' = 0 /\ opens' = opens + 1 /\ UNCHANGED <<log, synced, syncFailed>>
    BY <1>5 DEF DaemonStart, LogOpen
  <2>2. Unsynced' = Unsynced
    BY <2>1 DEF Unsynced
  <2>3. ~syncFailed => Cardinality(Unsynced) <= opens * (E - 1)
    <3>1. CASE opens = 0
      <4>1. Cardinality(Unsynced) = 0 /\ opens * (E - 1) = 0
        <5>1. Unsynced = {}
          BY <3>1 DEF SyncInv
        <5>2. 0 * (E - 1) = 0
          OBVIOUS
        <5> QED
          BY <3>1, <5>1, <5>2, FS_EmptySet
      <4> QED
        BY <4>1
    <3>2. CASE opens # 0
      <4>1. (opens - 1) * (E - 1) + (E - 1) = opens * (E - 1) /\ (opens - 1) * (E - 1) \in Nat
        BY <1>0, <3>2, Budget
      <4>2. appended % E \in 0..(E - 1)
        BY <1>0, DivMod
      <4>3. ~syncFailed => Cardinality(Unsynced) <= (opens - 1) * (E - 1) + (appended % E)
        BY <1>0, <3>2 DEF SyncInv
      <4> QED
        BY <1>0, <4>1, <4>2, <4>3
    <3> QED
      BY <3>1, <3>2
  <2>4. (opens + 1) - 1 = opens /\ 0 % E = 0 /\ opens * (E - 1) \in Nat /\ opens + 1 > 0
    <3>1. opens * (E - 1) \in Nat
      BY <1>0
    <3> QED
      BY <1>0, <3>1, DivMod, ModUnique
  <2>5. ~syncFailed' => Cardinality(Unsynced') <= (opens' - 1) * (E - 1) + (appended' % E)
    BY <1>0, <2>1, <2>2, <2>3, <2>4
  <2> QED
    BY <1>0, <2>1, <2>4, <2>5 DEF SyncInv
<1>6. ASSUME PowerLoss PROVE SyncInv'
  <2>1. /\ up' = FALSE /\ auditing' = FALSE /\ synced' = Len(log')
        /\ UNCHANGED <<appended, opens, syncFailed>>
    BY <1>6 DEF PowerLoss, Down, LogPowerLoss
  <2>2. Unsynced' = {}
    <3>1. PICK n \in synced..Len(log) : log' = SubSeq(log, 1, n)
      BY <1>6 DEF PowerLoss, LogPowerLoss
    <3>2. Len(log') \in Nat
      BY <1>0, <3>1 DEF LogTypeOK
    <3> QED
      BY <2>1, <3>2 DEF Unsynced
  <2>3. Cardinality(Unsynced') = 0
    BY <2>2, FS_EmptySet
  <2>4. opens > 0 => (opens - 1) * (AUDIT_FSYNC_EVERY - 1) \in Nat
                     /\ appended % AUDIT_FSYNC_EVERY \in Nat
    <3>1. appended % AUDIT_FSYNC_EVERY \in Nat
      BY <1>0, DivMod
    <3>2. ASSUME opens > 0 PROVE (opens - 1) * (AUDIT_FSYNC_EVERY - 1) \in Nat
      <4>1. opens \in Nat \ {0} /\ AUDIT_FSYNC_EVERY \in Nat \ {0}
        BY <1>0, <3>2
      <4> QED
        BY <4>1, Budget
    <3> QED
      BY <3>1, <3>2
  <2> QED
    BY <1>0, <2>1, <2>2, <2>3, <2>4 DEF SyncInv
<1>7. ASSUME DaemonStop PROVE SyncInv'
  <2>1. up' = FALSE /\ auditing' = FALSE /\ UNCHANGED logVars
    BY <1>7 DEF DaemonStop, Down
  <2> QED
    BY <2>1 DEF SyncInv, logVars, Unsynced
<1>8. ASSUME NEW c \in Calls,
             Begin(c) \/ ClientStep(c) \/ ServerStep(c) \/ PhoneResponds(c) \/ Panic(c) \/ Kill(c)
      PROVE  SyncInv'
  BY <1>2, <1>3, <1>4, <1>8, QuietSteps
     DEF Quiet, Connect, DispatchChallenge, daemonVars, envVars
<1> QED
  BY <1>2, <1>5, <1>6, <1>7, <1>8
     DEF Next, vars, daemonVars, envVars, Accept, Spawn, Edit, Revoke, Pair, OpenKey, WriteKey,
         Reload, Tick

-----------------------------------------------------------------------------
(* The theorems.                                                              *)

LEMMA InitIInv == Init => IInv
<1> SUFFICES ASSUME Init PROVE IInv
  OBVIOUS
<1>1. Client0 \in Client /\ Conn0 \in Conn
  <2>1. /\ "idle" \in ClientPCs /\ "none" \in Reasons /\ "none" \in Codes /\ "none" \in ConnPCs
        /\ 0 \in 0..AuthTimeout
    BY DEF ClientPCs, Reasons, Codes, ConnPCs
  <2> QED
    BY <2>1 DEF Client0, Conn0, Client, Conn
<1>2. Ends
  BY <1>1 DEF Init, Ends
<1>3. /\ \A c \in Calls : client[c] = Client0 /\ conn[c] = Conn0
      /\ backlog = <<>> /\ held = None /\ log = <<>> /\ synced = 0 /\ appended = 0 /\ opens = 0
      /\ up = FALSE /\ auditing = FALSE /\ fresh = FALSE
      /\ \A p \in Peers : slotq[p] = <<>>
  BY DEF Init, LogInit
<1>4. BondsOK
  <2>1. PICK s \in [1..Cardinality(Peers) -> Peers], n \in 0..Cardinality(Peers) :
           bonds = [i \in 1..n |-> [peer |-> s[i], st |-> "bonded"]]
    BY DEF Init
  <2>2. Cardinality(Peers) \in Nat
    BY FS_CardinalityType
  <2>3. n \in Nat /\ \A i \in 1..n : s[i] \in Peers
    BY <2>1, <2>2
  <2>4. \A i \in 1..n : [peer |-> s[i], st |-> "bonded"] \in Record
    BY <2>3 DEF Record
  <2>5. bonds \in [1..n -> Record]
    BY <2>1, <2>4
  <2>6. bonds \in Seq(Record)
    BY <2>3, <2>5
  <2>7. edits = 0 /\ 0 \in 0..MaxEdits
    BY DEF Init
  <2>8. keys \subseteq Peers
    BY <2>6, FirstBondedIsBonded DEF Init
  <2> QED
    BY <2>6, <2>7, <2>8 DEF BondsOK
<1>5. Queues
  <2>1. <<>> \in Seq(Calls) /\ <<>> \in Seq(PamCalls)
    OBVIOUS
  <2>2. slotq = [p \in Peers |-> <<>>]
    BY DEF Init
  <2>3. slotq \in [Peers -> Seq(PamCalls)]
    BY <2>1, <2>2, Zenon
  <2> QED
    BY <1>3, <2>1, <2>3, Zenon DEF Queues
<1>6. Flags /\ faults \in 0..MaxFaults
  <2>1. up = FALSE /\ orch = FALSE /\ auditing = FALSE /\ fresh = FALSE /\ live = {}
    BY DEF Init
  <2>2. faults = 0 /\ 0 \in 0..MaxFaults
    BY DEF Init
  <2> QED
    BY <2>1, <2>2, Zenon DEF Flags
<1>7. Logs
  <2>1. <<>> \in Seq(Line) /\ 0 \in 0..Len(<<>>) /\ 0 \in Nat
    OBVIOUS
  <2>2. syncFailed = FALSE /\ unlogged = {}
    BY DEF Init, LogInit
  <2> QED
    BY <1>3, <2>1, <2>2, Zenon DEF Logs, LogTypeOK
<1>8. TypeOK
  BY <1>2, <1>4, <1>5, <1>6, <1>7, TypeParts
<1>9. CallInv
  <2> SUFFICES ASSUME NEW c \in Calls PROVE CallOK(c)
    BY DEF CallInv
  <2>1. /\ client[c].pc = "idle" /\ client[c].sent = FALSE /\ client[c].reason = "none"
        /\ client[c].code = "none" /\ conn[c].pc = "none" /\ conn[c].out = "none"
        /\ conn[c].replied = FALSE
    BY <1>3 DEF Client0, Conn0
  <2> QED
    BY <2>1 DEF CallOK, OwnReasons
<1>10. AcceptInv /\ SlotInv
  <2>1. DOMAIN backlog = {} /\ \A p \in Peers : DOMAIN slotq[p] = {}
    BY <1>3
  <2> QED
    BY <1>3, <2>1 DEF AcceptInv, SlotInv, Conn0
<1>11. LineInv /\ SuccessAfterOk
  <2>1. DOMAIN log = {}
    BY <1>3
  <2> QED
    BY <1>3, <2>1 DEF LineInv, SuccessAfterOk, Client0
<1>12. SyncInv
  <2>1. Unsynced = {}
    BY <1>3 DEF Unsynced
  <2> QED
    BY <1>3, <2>1 DEF SyncInv
<1>13. PamPeerIsServed
  BY <1>3 DEF PamPeerIsServed
<1> QED
  BY <1>8, <1>9, <1>10, <1>11, <1>12, <1>13 DEF IInv

(* The inductive invariant, whatever the calls, the peers and the faults.     *)
THEOREM Inductive == Spec => []IInv
<1>1. IInv /\ [Next]_vars => IInv'
  <2> SUFFICES ASSUME IInv, [Next]_vars PROVE IInv'
    OBVIOUS
  <2>1. /\ TypeOK /\ CallInv /\ AcceptInv /\ SlotInv /\ LineInv /\ SuccessAfterOk
        /\ SyncInv /\ PamPeerIsServed
    BY DEF IInv
  <2>2. TypeOK' /\ CallInv'
    BY <2>1, TypeKept
  <2>3. AcceptInv' /\ SlotInv' /\ LineInv'
    BY <2>1, <2>2, AcceptKept, SlotKept, LineKept
  <2>4. SuccessAfterOk' /\ SyncInv' /\ PamPeerIsServed'
    BY <2>1, SuccessKept, SyncKept, ServedKept
  <2> QED
    BY <2>2, <2>3, <2>4 DEF IInv
<1> QED
  BY <1>1, InitIInv, PTL DEF Spec

(* The code PAM returns is about this call's own transaction: it succeeds     *)
(* only when the daemon verified the response of this call, no verified       *)
(* approval becomes a denial, and the stack stops only on a verdict about the *)
(* response.                                                                  *)
THEOREM CodesAgree == Spec => []VerdictAgrees
<1>1. IInv => VerdictAgrees
  <2> SUFFICES ASSUME IInv, NEW c \in PamCalls, client[c].code \in {"PAM_SUCCESS", "PAM_AUTH_ERR"}
               PROVE  /\ client[c].code = "PAM_SUCCESS" => conn[c].out = "ok"
                      /\ client[c].code = "PAM_AUTH_ERR" /\ client[c].reason # "panic" =>
                            conn[c].out # "ok"
                      /\ client[c].code = "PAM_AUTH_ERR" =>
                            client[c].reason \in {"bad-signature", "replay", "panic",
                                                  "not-implemented"}
    BY DEF VerdictAgrees
  <2>1. CallOK(c)
    BY DEF IInv, CallInv
  <2>2. /\ client[c].reason # "none" /\ client[c].code = CodeOf(client[c].reason)
        /\ \/ client[c].reason \in OwnReasons
           \/ /\ client[c].reason = conn[c].out /\ conn[c].out \in Answers
    BY <2>1 DEF CallOK
  <2> QED
    BY <2>2 DEF CodeOf, OwnReasons, Answers, ChallengeReasons
<1> QED
  BY <1>1, Inductive, PTL

(* No permit of a peer's slot is lost.                                        *)
THEOREM SlotsMove == Spec => []SlotAlwaysMoves
<1>1. IInv => SlotAlwaysMoves
  BY DEF IInv, SlotInv, SlotAlwaysMoves
<1> QED
  BY <1>1, Inductive, PTL

(* The peer PAM asks a daemon for that has just started or reloaded, nothing  *)
(* failing, is served if its key loads.                                       *)
THEOREM PamAndDaemonAgree == Spec => []PamPeerIsServed
<1>1. IInv => PamPeerIsServed
  BY DEF IInv
<1> QED
  BY <1>1, Inductive, PTL

(* Every success PAM logged keeps the daemon's record before it, and what a   *)
(* power failure takes of those records is bounded by the syncs.              *)
THEOREM SuccessesAreAudited == Spec => []SuccessIsAudited
<1>1. IInv => SuccessIsAudited
  <2> SUFFICES ASSUME IInv PROVE UnsyncedBounded
    BY DEF IInv, SuccessIsAudited
  <2> DEFINE E == AUDIT_FSYNC_EVERY
  <2>1. LogTypeOK /\ opens \in Nat /\ appended \in Nat /\ SyncInv
    BY DEF IInv, TypeOK, LogTypeOK
  <2>2. Cardinality(Unsynced) \in Nat
    BY <2>1, UnsyncedFinite
  <2>3. CASE opens = 0
    <3>1. Unsynced = {} /\ 0 * (E - 1) = 0
      BY <2>1, <2>3 DEF SyncInv
    <3> QED
      BY <2>3, <3>1, FS_EmptySet DEF UnsyncedBounded
  <2>4. CASE opens # 0
    <3>1. opens \in Nat \ {0} /\ E \in Nat \ {0} /\ opens > 0
      BY <2>1, <2>4
    <3>2. (opens - 1) * (E - 1) + (E - 1) = opens * (E - 1) /\ (opens - 1) * (E - 1) \in Nat
      BY <3>1, Budget
    <3>3. appended % E \in 0..(E - 1)
      BY <2>1, DivMod
    <3>4. ~syncFailed => Cardinality(Unsynced) <= (opens - 1) * (E - 1) + (appended % E)
      BY <2>1, <3>1 DEF SyncInv
    <3> QED
      BY <2>2, <3>2, <3>3, <3>4 DEF UnsyncedBounded
  <2> QED
    BY <2>3, <2>4
<1> QED
  BY <1>1, Inductive, PTL
=============================================================================

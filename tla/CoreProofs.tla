------------------------------ MODULE CoreProofs ------------------------------
(* Theorems about the library code: the minute rotation (Discovery), for      *)
(* every length of a minute, jump of the wall clock and number of upsets; the *)
(* challenge exchange (Exchange), for every field length, set of phones and   *)
(* number of challenges; the replay cache (ReplayCache), for every capacity   *)
(* and lifetime; the frame codec and reassembly (Frame) and the invite parser *)
(* (Invite), for every input they can be given; and all of them together as   *)
(* MCCore drives them.                                                        *)
EXTENDS MCCore, SequenceTheorems, WellFoundedInduction, TLAPS

-----------------------------------------------------------------------------
(* Discovery.                                                                 *)

(* What \div and % do.                                                        *)
LEMMA DivMod ==
    ASSUME NEW s \in Nat \ {0}, NEW a \in Nat
    PROVE  /\ a \div s \in Nat
           /\ a = s * (a \div s) + (a % s)
           /\ a % s \in 0..(s - 1)
<1>1. a = s * (a \div s) + (a % s)
  OBVIOUS
<1>2. a % s \in 0..(s - 1) /\ a \div s \in Int
  OBVIOUS
<1>3. a \div s >= 0
  OBVIOUS
<1> QED
  BY <1>1, <1>2, <1>3

(* A time lies in one minute only.                                            *)
LEMMA OneMinute ==
    ASSUME NEW s \in Nat \ {0}, NEW a \in Nat, NEW q \in Nat, s * q <= a, a < s * q + s
    PROVE  a \div s = q
  OBVIOUS

LEMMA NextMinute ==
    ASSUME NEW s \in Nat, NEW q \in Nat
    PROVE  s * (q + 1) = s * q + s /\ s * q \in Nat
  OBVIOUS

(* Multiples of a minute are a minute apart.                                  *)
LEMMA MinutesApart ==
    ASSUME NEW s \in Nat, NEW k \in Nat, NEW m \in Nat, s * k < s * m
    PROVE  s * k + s <= s * m
<1>1. CASE m <= k
  <2>1. k - m \in Nat
    BY <1>1
  <2>2. s * (k - m) \in Nat /\ s * k = s * m + s * (k - m)
    BY <2>1
  <2> QED
    BY <2>2
<1>2. CASE ~(m <= k)
  <2>1. m - (k + 1) \in Nat
    BY <1>2
  <2>2. s * (m - (k + 1)) \in Nat /\ s * m = (s * k + s) + s * (m - (k + 1))
    BY <2>1
  <2> QED
    BY <2>2
<1> QED
  BY <1>1, <1>2

(* The minute of a time begins no earlier than any full minute up to then;    *)
(* and a full minute at most a minute ahead is at most the next one.          *)
LEMMA LastFullMinute ==
    ASSUME NEW s \in Nat \ {0}, NEW a \in Nat, NEW k \in Nat
    PROVE  /\ s * (a \div s) \in Nat /\ s * (a \div s) <= a /\ a < s * (a \div s) + s
           /\ s * k <= a => s * k <= s * (a \div s)
           /\ s * k <= a + s => s * k <= s * (a \div s) + s
<1> DEFINE q == a \div s
<1>1. q \in Nat /\ a = s * q + (a % s) /\ a % s \in 0..(s - 1)
  BY DivMod
<1> HIDE DEF q
<1>2. /\ s * q \in Nat /\ s * k \in Nat /\ q + 1 \in Nat /\ q + 2 \in Nat
      /\ s * (q + 1) = s * q + s /\ s * (q + 2) = (s * q + s) + s
  BY <1>1
<1>3. s * q <= a /\ a < s * q + s
  BY <1>1, <1>2
<1>4. ASSUME s * k <= a PROVE s * k <= s * q
  <2>1. s * k < s * (q + 1)
    BY <1>2, <1>3, <1>4
  <2>2. s * k + s <= s * (q + 1)
    BY <1>2, <2>1, MinutesApart
  <2> QED
    BY <1>2, <2>2
<1>5. ASSUME s * k <= a + s PROVE s * k <= s * q + s
  <2>1. s * k < s * (q + 2)
    BY <1>2, <1>3, <1>5
  <2>2. s * k + s <= s * (q + 2)
    BY <1>2, <2>1, MinutesApart
  <2> QED
    BY <1>2, <2>2
<1> QED
  BY <1>2, <1>3, <1>4, <1>5 DEF q

LEMMA DiscoveryStart == DiscoveryAssumption /\ DiscoveryInit => DiscoveryInv
<1> SUFFICES ASSUME DiscoveryAssumption, DiscoveryInit PROVE DiscoveryInv
  OBVIOUS
<1> DEFINE s == SecondsPerMinute
           q == wall \div s
           r == wall % s
<1>1. /\ s \in Nat \ {0} /\ wall \in Nat /\ untilTick = s - r /\ shown = NoMinute
      /\ phase = "start" /\ minute = 0 /\ calm = 0 /\ upsets = 0 /\ MaxUpsets \in Nat
  BY DEF DiscoveryAssumption, DiscoveryInit, AlignToNextMinute
<1>2. q \in Nat /\ wall = s * q + r /\ r \in 0..(s - 1)
  BY <1>1, DivMod
<1> HIDE DEF s, q, r
<1>3. s * q \in Nat /\ s * (q + 1) = s * q + s /\ q + 1 \in Nat
  BY <1>1, <1>2, NextMinute
<1>4. /\ untilTick \in Int /\ untilTick <= s /\ calm \in 0..(s + 1) /\ ~(calm > s - untilTick)
      /\ wall + untilTick = s * (q + 1)
  BY <1>1, <1>2, <1>3
<1>5. DiscoveryTypeOK
  BY <1>1, <1>4 DEF DiscoveryTypeOK, Phases, s
<1>6. Age = s - untilTick /\ ~Rotating
  BY <1>1 DEF Age, SinceTick, Rotating, s
<1> QED
  BY <1>1, <1>3, <1>4, <1>5, <1>6 DEF DiscoveryInv, s

LEMMA DiscoveryStep ==
    DiscoveryAssumption /\ DiscoveryInv /\ [DiscoveryNext]_discoveryVars => DiscoveryInv'
<1> SUFFICES ASSUME DiscoveryAssumption, DiscoveryInv, [DiscoveryNext]_discoveryVars
             PROVE  DiscoveryInv'
  OBVIOUS
<1> DEFINE s == SecondsPerMinute
           b == s * shown
           c == s * minute
           age(p, u) == IF p = "publish" THEN (s - u) + s ELSE s - u
           rotates(p) == p \in {"publish", "advertise"}
<1>1. PICK k \in Nat : upsets = 0 => wall + untilTick = s * k
  BY DEF DiscoveryInv
<1> DEFINE t == s * k
           \* DiscoveryInv without its products: b, c and t are the first seconds of
           \* the minute shown, of the minute read and of the tick.
           Facts(w, u, p, sh, cl, up, b1, c1, t1) ==
             /\ cl > age(p, u) => p = "advertise" \/ (sh # NoMinute /\ b1 <= w /\ w - age(p, u) < b1 + s)
             /\ rotates(p) /\ cl > s - u => c1 <= w /\ w - (s - u) < c1 + s
             /\ up = 0 => /\ w + u = t1
                          /\ sh # NoMinute => b1 <= w /\ w - age(p, u) <= b1
                          /\ rotates(p) => c1 <= w /\ w - (s - u) <= c1
<1>2. /\ s \in Nat \ {0} /\ MaxUpsets \in Nat /\ WallHorizon \in Nat /\ WallSteps \subseteq Nat
      /\ wall \in Nat /\ untilTick \in Int /\ untilTick <= s /\ minute \in Nat
      /\ shown \in Int /\ calm \in 0..(s + 1) /\ upsets \in 0..MaxUpsets
      /\ shown \in Nat \cup {NoMinute} /\ phase \in Phases
  BY DEF DiscoveryAssumption, DiscoveryInv, DiscoveryTypeOK, NoMinute
<1>3. Facts(wall, untilTick, phase, shown, calm, upsets, b, c, t)
  BY <1>1 DEF DiscoveryInv, ReadSince, Age, SinceTick, Rotating
<1>4. ASSUME DiscoveryTypeOK', NEW k1 \in Nat,
             Facts(wall', untilTick', phase', shown', calm', upsets', s * shown', s * minute', s * k1)
      PROVE  DiscoveryInv'
  BY <1>4 DEF DiscoveryInv, ReadSince, Age, SinceTick, Rotating
<1>5. b \in Int /\ c \in Nat /\ t \in Nat /\ s * (k + 1) = t + s /\ k + 1 \in Nat
  BY <1>2, NextMinute
<1> HIDE DEF s
<1>6. CASE Second
  <2>1. /\ wall' = wall + 1 /\ untilTick' = untilTick - 1
        /\ calm' = IF calm > s THEN calm ELSE calm + 1
        /\ UNCHANGED <<phase, minute, shown, upsets>>
    BY <1>6 DEF Second, s
  <2>2. DiscoveryTypeOK'
    BY <1>2, <2>1 DEF DiscoveryTypeOK, s
  <2>3. s * shown' = b /\ s * minute' = c
    BY <2>1
  <2> HIDE DEF b, c, t
  <2>4. Facts(wall', untilTick', phase', shown', calm', upsets', b, c, t)
    BY <1>2, <1>3, <1>5, <2>1
  <2> HIDE DEF Facts
  <2> QED
    BY <1>4, <2>2, <2>3, <2>4 DEF t
<1>7. ASSUME minute' = wall \div s, phase' = "publish", UNCHANGED <<wall, shown, calm, upsets>>,
             phase # "advertise", phase # "publish",
             \/ untilTick <= 0 /\ untilTick' = untilTick + s
             \/ untilTick' = untilTick
      PROVE  DiscoveryInv'
  <2> DEFINE q == wall \div s
             d == s * q
  <2>1. /\ d \in Nat /\ d <= wall /\ wall < d + s
        /\ t <= wall => t <= d
        /\ t <= wall + s => t <= d + s
    BY <1>2, LastFullMinute
  <2>2. q \in Nat
    BY <1>2, DivMod
  <2>3. DiscoveryTypeOK'
    BY <1>2, <1>7, <2>2 DEF DiscoveryTypeOK, Phases, s
  <2>4. s * shown' = b /\ s * minute' = d
    BY <1>7
  <2> HIDE DEF b, c, t, q, d
  <2>5. CASE untilTick' = untilTick
    <3>1. Facts(wall', untilTick', phase', shown', calm', upsets', b, d, t)
      BY <1>2, <1>3, <1>5, <1>7, <2>1, <2>5
    <3> HIDE DEF Facts
    <3> QED
      BY <1>4, <2>3, <2>4, <3>1 DEF t
  <2>6. CASE untilTick <= 0 /\ untilTick' = untilTick + s
    <3>1. Facts(wall', untilTick', phase', shown', calm', upsets', b, d, t + s)
      BY <1>2, <1>3, <1>5, <1>7, <2>1, <2>6
    <3> HIDE DEF Facts
    <3> QED
      BY <1>4, <1>5, <2>3, <2>4, <3>1
  <2> QED
    BY <1>7, <2>5, <2>6
<1>8. CASE Tick \/ RotateOnce
  BY <1>7, <1>8 DEF Tick, RotateOnce, MinuteIndex, s
<1>9. CASE ReloadStart \/ ReloadSkipped
  <2>1. /\ phase \in {"idle", "reload"} /\ phase' \in {"idle", "reload"}
        /\ UNCHANGED <<wall, untilTick, minute, shown, calm, upsets>>
    BY <1>9 DEF ReloadStart, ReloadSkipped
  <2>2. DiscoveryTypeOK'
    BY <1>2, <2>1 DEF DiscoveryTypeOK, Phases, s
  <2>3. s * shown' = b /\ s * minute' = c
    BY <2>1
  <2> HIDE DEF b, c, t
  <2>4. Facts(wall', untilTick', phase', shown', calm', upsets', b, c, t)
    BY <1>2, <1>3, <1>5, <2>1
  <2> HIDE DEF Facts
  <2> QED
    BY <1>4, <2>2, <2>3, <2>4 DEF t
<1>10. CASE TakeDown
  <2>1. /\ phase = "publish" /\ phase' = "advertise" /\ shown' = NoMinute
        /\ UNCHANGED <<wall, untilTick, minute, calm, upsets>>
    BY <1>10 DEF TakeDown
  <2>2. DiscoveryTypeOK'
    BY <1>2, <2>1 DEF DiscoveryTypeOK, Phases, s
  <2>3. s * minute' = c
    BY <2>1
  <2> DEFINE e == s * shown'
  <2> HIDE DEF b, c, t, e
  <2>4. Facts(wall', untilTick', phase', shown', calm', upsets', e, c, t)
    BY <1>2, <1>3, <1>5, <2>1
  <2> HIDE DEF Facts
  <2> QED
    BY <1>4, <2>2, <2>3, <2>4 DEF t, e
<1>11. CASE Advertise
  <2>1. /\ phase = "advertise" /\ phase' = "idle" /\ shown' = minute
        /\ UNCHANGED <<wall, untilTick, minute, calm, upsets>>
    BY <1>11 DEF Advertise
  <2>2. DiscoveryTypeOK' /\ shown' # NoMinute
    BY <1>2, <2>1 DEF DiscoveryTypeOK, Phases, NoMinute, s
  <2>3. s * shown' = c /\ s * minute' = c
    BY <2>1
  <2> HIDE DEF b, c, t
  <2>4. Facts(wall', untilTick', phase', shown', calm', upsets', c, c, t)
    BY <1>2, <1>3, <1>5, <2>1, <2>2
  <2> HIDE DEF Facts
  <2> QED
    BY <1>4, <2>2, <2>3, <2>4 DEF t
<1>12. ASSUME calm' = 0, upsets < MaxUpsets, upsets' = upsets + 1, wall' \in Nat,
              UNCHANGED <<untilTick, minute, shown>>, phase' \in Phases
       PROVE  DiscoveryInv'
  <2>1. DiscoveryTypeOK' /\ upsets' # 0
    BY <1>2, <1>12 DEF DiscoveryTypeOK, s
  <2>2. ~(calm' > age(phase', untilTick')) /\ ~(calm' > s - untilTick')
    BY <1>2, <1>12
  <2> DEFINE e == s * shown'
             f == s * minute'
  <2> HIDE DEF b, c, t, age, rotates, e, f
  <2>3. Facts(wall', untilTick', phase', shown', calm', upsets', e, f, t)
    BY <2>1, <2>2
  <2> HIDE DEF Facts
  <2> QED
    BY <1>4, <2>1, <2>3 DEF t, e, f
<1>13. CASE AdvertiseFails
  BY <1>2, <1>12, <1>13 DEF AdvertiseFails, Phases
<1>14. ASSUME NEW d, WallJumps(d) PROVE DiscoveryInv'
  <2>1. /\ wall' \in 0..WallHorizon /\ calm' = 0 /\ upsets < MaxUpsets /\ upsets' = upsets + 1
        /\ UNCHANGED <<untilTick, phase, minute, shown>>
    BY <1>14 DEF WallJumps
  <2>2. wall' \in Nat
    BY <1>2, <2>1
  <2> QED
    BY <1>2, <1>12, <2>1, <2>2
<1>15. CASE UNCHANGED discoveryVars
  BY <1>15 DEF discoveryVars, DiscoveryInv, DiscoveryTypeOK, ReadSince, Age, SinceTick, Rotating
<1> QED
  BY <1>6, <1>8, <1>9, <1>10, <1>11, <1>13, <1>14, <1>15 DEF DiscoveryNext

(* A minute that began within the last two is one the phone accepts.          *)
LEMMA LastTwoMinutes ==
    ASSUME NEW s \in Nat \ {0}, NEW a \in Nat, NEW m \in Nat, s * m <= a, a < (s * m + s) + s
    PROVE  m \in {a \div s, (a \div s) - 1}
<1>1. s * m \in Nat /\ s * (m + 1) = s * m + s /\ m + 1 \in Nat
  BY NextMinute
<1>2. CASE a < s * m + s
  BY <1>2, OneMinute
<1>3. CASE ~(a < s * m + s)
  <2>1. s * (m + 1) <= a /\ a < s * (m + 1) + s
    BY <1>1, <1>3
  <2>2. a \div s = m + 1
    BY <1>1, <2>1, OneMinute
  <2> QED
    BY <2>2
<1> QED
  BY <1>2, <1>3

LEMMA DiscoverySafe == DiscoveryAssumption /\ DiscoveryInv => InPhoneWindow
<1> SUFFICES ASSUME DiscoveryAssumption, DiscoveryInv PROVE InPhoneWindow
  OBVIOUS
<1> DEFINE s == SecondsPerMinute
           b == s * shown
<1>1. /\ s \in Nat \ {0} /\ wall \in Nat /\ Age \in Int /\ calm \in Int
      /\ shown \in Nat \cup {NoMinute}
      /\ calm > Age => phase = "advertise" \/ (shown # NoMinute /\ b <= wall /\ wall - Age < b + s)
      /\ upsets = 0 /\ shown # NoMinute => b <= wall /\ wall - Age <= b
  BY DEF DiscoveryAssumption, DiscoveryInv, DiscoveryTypeOK, ReadSince, Age, SinceTick
<1> HIDE DEF s
<1>2. shown # NoMinute => shown \in Nat /\ b \in Nat
  BY <1>1, NextMinute
<1>3. ASSUME calm > s, Age <= s, phase # "advertise"
      PROVE  shown \in {wall \div s, (wall \div s) - 1}
  <2>1. shown # NoMinute /\ b <= wall /\ wall < (b + s) + s
    <3>1. calm > Age
      BY <1>1, <1>3
    <3> HIDE DEF b
    <3> QED
      BY <1>1, <1>2, <1>3, <3>1
  <2> QED
    BY <1>1, <1>2, <2>1, LastTwoMinutes
<1>4. ASSUME upsets = 0, shown # NoMinute, Age < s PROVE shown = wall \div s
  <2>1. b <= wall /\ wall < b + s
    <3> HIDE DEF b
    <3> QED
      BY <1>1, <1>2, <1>4
  <2> QED
    BY <1>1, <1>2, <1>4, <2>1, OneMinute
<1>5. ASSUME upsets = 0, shown # NoMinute, Age < 2 * s
      PROVE  shown \in {wall \div s, (wall \div s) - 1}
  <2>1. b <= wall /\ wall < (b + s) + s
    <3> HIDE DEF b
    <3> QED
      BY <1>1, <1>2, <1>5
  <2> QED
    BY <1>1, <1>2, <1>5, <2>1, LastTwoMinutes
<1> QED
  BY <1>3, <1>4, <1>5 DEF InPhoneWindow, PhoneWindow, s

(* A minute after the last jump of the clock or failed rotation, the UUIDs on *)
(* the air are ones a phone accepts, although the interval is aligned only    *)
(* once, while its tick is not late; before the first upset they are those of *)
(* the current minute, and still accepted when a reload has delayed the tick  *)
(* by less than a minute.                                                     *)
THEOREM PhonesFindTheHost == DiscoverySpec => []InPhoneWindow
<1>1. DiscoveryInit => DiscoveryInv
  BY DiscoveryAssumption, DiscoveryStart
<1>2. DiscoveryInv /\ [DiscoveryNext]_discoveryVars => DiscoveryInv'
  BY DiscoveryAssumption, DiscoveryStep
<1>3. DiscoveryInv => InPhoneWindow
  BY DiscoveryAssumption, DiscoverySafe
<1> QED
  BY <1>1, <1>2, <1>3, PTL DEF DiscoverySpec

-----------------------------------------------------------------------------
(* Exchange.                                                                  *)

USE FrameAssumption, ExchangeAssumption
DEF FrameAssumption, ExchangeAssumption, VersionLen, HeaderLen, MinFrameLen

LEMMA ConcatFacts ==
    ASSUME NEW S, NEW a \in Seq(S), NEW b \in Seq(S)
    PROVE  /\ a \o b \in Seq(S) /\ Len(a \o b) = Len(a) + Len(b)
           /\ \A i \in 1..Len(a) : (a \o b)[i] = a[i]
  OBVIOUS

(* A function on 1..k is a sequence of its own values.                        *)
LEMMA Tabulated ==
    ASSUME NEW k \in Nat, NEW e, DOMAIN e = 1..k, e = [i \in 1..k |-> e[i]]
    PROVE  e \in Seq({e[i] : i \in 1..k}) /\ Len(e) = k
<1> DEFINE A == {e[i] : i \in 1..k}
<1>1. \A i \in 1..k : e[i] \in A
  OBVIOUS
<1> HIDE DEF A
<1>2. e \in [1..k -> A]
  BY <1>1
<1>3. e \in Seq(A) /\ Len(e) = k
  BY <1>2
<1> QED
  BY <1>3 DEF A

(* The body of the n-th challenge, the same for every phone.                  *)
Body(n) == <<V1>> \o NonceOf(n) \o <<>>
HeadBytes(n) == {V1, <<"nonce", n>>}

LEMMA BodyFacts ==
    ASSUME NEW n
    PROVE  /\ Body(n) \in Seq(HeadBytes(n)) /\ Len(Body(n)) = HeaderLen
           /\ Body(n)[2] = <<"nonce", n>>
<1> DEFINE e == <<"nonce", n>>
           a == NonceOf(n)
           H == {V1, e}
<1>1. a = [i \in 1..NonceLen |-> e]
  BY DEF NonceOf
<1> HIDE DEF a, e
<1>2. a \in Seq(H) /\ Len(a) = NonceLen /\ a[1] = e
  BY <1>1
<1>3. <<V1>> \in Seq(H) /\ Len(<<V1>>) = 1
  OBVIOUS
<1>4. /\ <<V1>> \o a \in Seq(H) /\ Len(<<V1>> \o a) = 1 + NonceLen
      /\ (<<V1>> \o a)[2] = e
  BY <1>2, <1>3
<1>5. (<<V1>> \o a) \o <<>> = <<V1>> \o a
  BY <1>4, ConcatEmptySeq
<1> QED
  BY <1>4, <1>5 DEF Body, HeadBytes, a, e

LEMMA ChallengeFacts ==
    ASSUME NEW p, NEW n
    PROVE  /\ BodyBytes(Challenge(p, n)) = Body(n)
           /\ Encode(Challenge(p, n)) = Body(n) \o ComputeTag(p, Body(n))
<1> DEFINE bare == [version |-> V1, nonce |-> NonceOf(n), payload |-> <<>>, tag |-> <<>>]
<1>1. BodyBytes(bare) = Body(n)
  BY DEF BodyBytes, Body
<1>2. Challenge(p, n) = [version |-> V1, nonce |-> NonceOf(n), payload |-> <<>>,
                         tag |-> ComputeTag(p, BodyBytes(bare))]
  BY DEF Challenge
<1> QED
  BY <1>1, <1>2 DEF BodyBytes, Encode, Body

(* A challenge on the wire: its body, then TagLen more bytes.                 *)
LEMMA WireFacts ==
    ASSUME NEW p, NEW n, NEW f, f = Encode(Challenge(p, n))
    PROVE  /\ Len(f) = HeaderLen + TagLen
           /\ \E S : f \in Seq(S)
           /\ f[2] = <<"nonce", n>>
           /\ SubSeq(f, 1, HeaderLen) = Body(n)
<1> DEFINE t == ComputeTag(p, Body(n))
           T == {t[i] : i \in 1..TagLen}
           S == HeadBytes(n) \cup T
           b == Body(n)
<1>1. t = [i \in 1..TagLen |-> <<"mac", p, Body(n), i>>]
  BY DEF ComputeTag
<1>2. b \in Seq(HeadBytes(n)) /\ Len(b) = HeaderLen /\ b[2] = <<"nonce", n>>
  BY BodyFacts
<1>3. f = b \o t
  BY ChallengeFacts
<1>4. t \in Seq(T) /\ Len(t) = TagLen
  <2>1. DOMAIN t = 1..TagLen /\ t = [i \in 1..TagLen |-> t[i]]
    BY <1>1
  <2> HIDE DEF t
  <2> QED
    BY <2>1, Tabulated
<1> HIDE DEF t, T, b
<1>5. b \in Seq(S) /\ t \in Seq(S)
  <2>1. \A i \in 1..Len(b) : b[i] \in S
    BY <1>2, ElementOfSeq
  <2>2. \A i \in 1..Len(t) : t[i] \in S
    BY <1>4, ElementOfSeq
  <2> QED
    BY <1>2, <1>4, <2>1, <2>2
<1> HIDE DEF S
<1>6. /\ f \in Seq(S) /\ Len(f) = HeaderLen + TagLen
      /\ \A i \in 1..HeaderLen : f[i] = b[i]
  <2>1. /\ b \o t \in Seq(S) /\ Len(b \o t) = Len(b) + Len(t)
        /\ \A i \in 1..Len(b) : (b \o t)[i] = b[i]
    BY <1>5, ConcatFacts
  <2>2. Len(b) = HeaderLen /\ Len(t) = TagLen
    BY <1>2, <1>4
  <2> QED
    BY <1>3, <2>1, <2>2
<1>7. SubSeq(f, 1, HeaderLen) = b
  <2>1. /\ SubSeq(f, 1, HeaderLen) \in Seq(S) /\ Len(SubSeq(f, 1, HeaderLen)) = HeaderLen
        /\ \A i \in 1..HeaderLen : SubSeq(f, 1, HeaderLen)[i] = f[i]
    BY <1>6
  <2> QED
    BY <1>2, <1>5, <1>6, <2>1, SeqEqual
<1>8. f[2] = <<"nonce", n>>
  <2>1. 2 \in 1..HeaderLen
    OBVIOUS
  <2> QED
    BY <1>2, <1>6, <2>1
<1> QED
  BY <1>6, <1>7, <1>8 DEF b

(* A signature tells who made it, and over which bytes.                       *)
LEMMA SignBinds ==
    ASSUME NEW p, NEW q, NEW b, NEW c, Sign(p, b) = Sign(q, c)
    PROVE  p = q /\ b = c
<1>1. Sign(p, b)[1] = <<"sig", p, b, 1>> /\ Sign(q, c)[1] = <<"sig", q, c, 1>>
  BY DEF Sign
<1>2. <<"sig", p, b, 1>> = <<"sig", q, c, 1>>
  BY <1>1
<1> QED
  BY <1>2

(* A denial, a framed answer and no answer at all are no signatures.          *)
LEMMA OnlySignaturesPass ==
    ASSUME NEW p, NEW n
    PROVE  /\ ~Accepts(p, n, Denied)
           /\ \A f : Len(f) # SignatureLen => ~Accepts(p, n, f)
<1>1. Denied[1] = <<"raw", 0>>
  BY DEF Denied, Raw
<1>2. \A b : Sign(p, b)[1] = <<"sig", p, b, 1>>
  BY DEF Sign
<1>3. \A b : <<"sig", p, b, 1>> # <<"raw", 0>>
  <2>1. \A b : Len(<<"sig", p, b, 1>>) = 4 /\ Len(<<"raw", 0>>) = 2
    OBVIOUS
  <2> QED
    BY <2>1
<1> QED
  BY <1>1, <1>2, <1>3 DEF Accepts, VerifySig

(* What the app signs, if it is the body of a challenge, is the body of the   *)
(* challenge the notification was cut from.                                   *)
LEMMA StripTellsNumber ==
    ASSUME NEW g, Genuine(g), NEW n, StripTag(g.bytes) = Body(n)
    PROVE  g.number = n
<1>1. PICK p \in Phones : \E len \in 1..Len(Encode(Challenge(p, g.number))) :
                             g.bytes = SubSeq(Encode(Challenge(p, g.number)), 1, len)
  BY DEF Genuine
<1> DEFINE f == Encode(Challenge(p, g.number))
<1>2. PICK len \in 1..Len(f) : g.bytes = SubSeq(f, 1, len)
  BY <1>1
<1>3. /\ Len(f) = HeaderLen + TagLen
      /\ f[2] = <<"nonce", g.number>>
  BY WireFacts
<1>4. PICK S : f \in Seq(S)
  BY WireFacts
<1> HIDE DEF f
<1>5. g.bytes \in Seq(S) /\ Len(g.bytes) = len /\ \A i \in 1..len : g.bytes[i] = f[i]
  BY <1>2, <1>4
<1> DEFINE h == StripTag(g.bytes)
<1>6. Len(h) = HeaderLen /\ h[2] = <<"nonce", n>>
  BY BodyFacts
<1>7. \A i \in 1..Len(h) : h[i] = f[i]
  <2>1. CASE Len(g.bytes) > StripLen
    <3>1. h = SubSeq(g.bytes, 1, len - StripLen) /\ len - StripLen \in 1..len
      BY <1>5, <2>1 DEF StripTag
    <3>2. Len(h) = len - StripLen /\ \A i \in 1..(len - StripLen) : h[i] = g.bytes[i]
      <4> HIDE DEF h
      <4> QED
        BY <1>5, <3>1
    <3> QED
      BY <1>5, <3>1, <3>2
  <2>2. CASE ~(Len(g.bytes) > StripLen)
    <3>1. h = g.bytes
      BY <2>2 DEF StripTag
    <3> QED
      BY <1>5, <3>1
  <2> QED
    BY <2>1, <2>2
<1>8. <<"nonce", n>> = <<"nonce", g.number>>
  <2>1. 2 \in 1..HeaderLen
    OBVIOUS
  <2> QED
    BY <1>3, <1>6, <1>7, <2>1
<1> QED
  BY <1>8

(* The bytes the app signs are the bytes the desktop verifies.                *)
LEMMA StripWhole ==
    ASSUME NEW p, NEW n, StripLen = TagLen
    PROVE  StripTag(Encode(Challenge(p, n))) = Body(n)
<1> DEFINE f == Encode(Challenge(p, n))
<1>1. Len(f) = HeaderLen + TagLen /\ SubSeq(f, 1, HeaderLen) = Body(n)
  BY WireFacts
<1> HIDE DEF f
<1>2. Len(f) > StripLen /\ Len(f) - StripLen = HeaderLen
  BY <1>1
<1> QED
  BY <1>1, <1>2 DEF StripTag, f

(* The framed response is longer than a signature.                            *)
LEMMA FramedIsLonger ==
    ASSUME NEW q, NEW b, NEW n
    PROVE  Len(ResponseFrame(q, b, NonceOf(n))) # SignatureLen
<1> DEFINE sig == Sign(q, BodyBytes(Decode(b).frame))
           bare == [version |-> V1, nonce |-> NonceOf(n), payload |-> sig, tag |-> <<>>]
           body == <<V1>> \o NonceOf(n) \o sig
           t == ComputeTag(q, BodyBytes(bare))
<1>1. ResponseFrame(q, b, NonceOf(n)) = body \o t
  <2>1. [bare EXCEPT !.tag = t] = [version |-> V1, nonce |-> NonceOf(n), payload |-> sig, tag |-> t]
    OBVIOUS
  <2>2. ResponseFrame(q, b, NonceOf(n)) = Encode([bare EXCEPT !.tag = t])
    BY DEF ResponseFrame
  <2> HIDE DEF t
  <2> QED
    BY <2>1, <2>2 DEF Encode, BodyBytes
<1>3. Len(sig) = SignatureLen /\ sig \in Seq({sig[i] : i \in 1..SignatureLen})
  <2>1. DOMAIN sig = 1..SignatureLen /\ sig = [i \in 1..SignatureLen |-> sig[i]]
    BY DEF Sign
  <2> HIDE DEF sig
  <2> QED
    BY <2>1, Tabulated
<1>4. Len(t) = TagLen /\ t \in Seq({t[i] : i \in 1..TagLen})
  <2>1. DOMAIN t = 1..TagLen /\ t = [i \in 1..TagLen |-> t[i]]
    BY DEF ComputeTag
  <2> HIDE DEF t
  <2> QED
    BY <2>1, Tabulated
<1>5. Len(NonceOf(n)) = NonceLen /\ NonceOf(n) \in Seq({NonceOf(n)[i] : i \in 1..NonceLen})
  <2>1. DOMAIN NonceOf(n) = 1..NonceLen /\ NonceOf(n) = [i \in 1..NonceLen |-> NonceOf(n)[i]]
    BY DEF NonceOf
  <2> QED
    BY <2>1, Tabulated
<1> DEFINE U == {V1} \cup {NonceOf(n)[i] : i \in 1..NonceLen} \cup {sig[i] : i \in 1..SignatureLen}
                \cup {t[i] : i \in 1..TagLen}
<1> HIDE DEF sig, t, bare
<1>6. ASSUME NEW A, NEW x \in Seq(A), A \subseteq U PROVE x \in Seq(U)
  <2>1. \A i \in 1..Len(x) : x[i] \in U
    BY <1>6, ElementOfSeq
  <2> QED
    BY <2>1
<1>7. <<V1>> \in Seq(U) /\ NonceOf(n) \in Seq(U) /\ sig \in Seq(U) /\ t \in Seq(U)
  <2>1. V1 \in U
    OBVIOUS
  <2>2. <<V1>> \in Seq(U)
    <3> HIDE DEF U
    <3> QED
      BY <2>1
  <2>3. NonceOf(n) \in Seq(U) /\ sig \in Seq(U) /\ t \in Seq(U)
    BY <1>3, <1>4, <1>5, <1>6
  <2> QED
    BY <2>2, <2>3
<1> HIDE DEF U
<1>8. <<V1>> \o NonceOf(n) \in Seq(U) /\ Len(<<V1>> \o NonceOf(n)) = 1 + NonceLen
  BY <1>5, <1>7, ConcatFacts
<1>9. body \in Seq(U) /\ Len(body) = 1 + NonceLen + SignatureLen
  BY <1>3, <1>7, <1>8, ConcatFacts
<1>10. Len(body \o t) = 1 + NonceLen + SignatureLen + TagLen
  BY <1>4, <1>7, <1>9, ConcatFacts
<1> HIDE DEF body
<1> QED
  BY <1>1, <1>10

LEMMA ExchangeStart == ExchangeInit => ExchangeInv
<1> SUFFICES ASSUME ExchangeInit PROVE ExchangeInv
  OBVIOUS
<1>1. \A p, n : ~Accepts(p, n, <<>>)
  <2>1. Len(<<>>) # SignatureLen
    OBVIOUS
  <2> QED
    BY <2>1, OnlySignaturesPass
<1>2. AnswersApproved /\ WholeIsAccepted
  BY <1>1 DEF ExchangeInit, AnswersApproved, WholeIsAccepted, NoResponse
<1> QED
  BY <1>2 DEF ExchangeInit, ExchangeInv, OkMeansThisChallenge, NoVerdict

(* Signing what was received makes an answer to that challenge only.          *)
LEMMA ApproveKeeps ==
    ASSUME ExchangeInv, NEW q \in Phones, Approve(q)
    PROVE  AnswersApproved' /\ WholeIsAccepted'
<1> DEFINE g == got[q]
           sig == Sign(q, StripTag(g.bytes))
<1>1. Genuine(g) /\ <<q, g.number>> \in approvals'
  BY DEF Approve, ExchangeInv
<1>2. /\ response'.bytes = sig /\ response'.by = q /\ response'.number = g.number
      /\ response'.how = IF g.bytes = Encode(Challenge(g.to, g.number)) THEN "whole" ELSE "cut"
  BY DEF Approve
<1>3. ASSUME NEW p \in Phones, NEW n \in 1..MaxChallenges, Accepts(p, n, sig)
      PROVE  <<p, n>> \in approvals'
  <2>1. Sign(p, Body(n)) = sig
    BY <1>3, ChallengeFacts DEF Accepts, VerifySig
  <2>2. p = q /\ StripTag(g.bytes) = Body(n)
    BY <2>1, SignBinds
  <2>3. g.number = n
    BY <1>1, <2>2, StripTellsNumber
  <2> QED
    BY <1>1, <2>2, <2>3
<1>4. ASSUME StripLen = TagLen, g.bytes = Encode(Challenge(g.to, g.number))
      PROVE  Accepts(q, g.number, sig)
  <2>1. sig = Sign(q, Body(g.number))
    BY <1>4, StripWhole
  <2>2. Len(sig) = SignatureLen
    <3>1. DOMAIN sig = 1..SignatureLen /\ sig = [i \in 1..SignatureLen |-> sig[i]]
      BY DEF Sign
    <3> HIDE DEF sig
    <3> QED
      BY <3>1, Tabulated
  <2> QED
    BY <2>1, <2>2, ChallengeFacts DEF Accepts, VerifySig
<1> HIDE DEF g, sig
<1>5. AnswersApproved'
  BY <1>2, <1>3 DEF AnswersApproved
<1>6. WholeIsAccepted'
  <2>1. response'.how = "whole" => g.bytes = Encode(Challenge(g.to, g.number))
    BY <1>2
  <2> QED
    BY <1>2, <1>4, <2>1 DEF WholeIsAccepted
<1> QED
  BY <1>5, <1>6

LEMMA ExchangeStep == ExchangeInv /\ [ExchangeNext]_exchangeVars => ExchangeInv'
<1> SUFFICES ASSUME ExchangeInv, [ExchangeNext]_exchangeVars PROVE ExchangeInv'
  OBVIOUS
<1>0. /\ issued \in 0..MaxChallenges /\ open.number \in 0..issued
      /\ open.number # 0 => open.to \in Phones
      /\ DOMAIN got = Phones
      /\ \A q \in Phones : got[q] = Nothing \/ Genuine(got[q])
      /\ AnswersApproved /\ WholeIsAccepted /\ OkMeansThisChallenge
  BY DEF ExchangeInv
<1>1. ASSUME UNCHANGED <<response, approvals>> PROVE AnswersApproved' /\ WholeIsAccepted'
  BY <1>0, <1>1 DEF AnswersApproved, WholeIsAccepted
<1>2. ASSUME UNCHANGED verdict, approvals \subseteq approvals' PROVE OkMeansThisChallenge'
  BY <1>0, <1>2 DEF OkMeansThisChallenge
<1>3. ASSUME NEW q \in Phones, NEW x, got' = [got EXCEPT ![q] = x], x = Nothing \/ Genuine(x)
      PROVE  DOMAIN got' = Phones /\ \A r \in Phones : got'[r] = Nothing \/ Genuine(got'[r])
  BY <1>0, <1>3
<1>4. ASSUME NEW f, response'.bytes = f, response'.how # "whole",
             \A p, n : ~Accepts(p, n, f)
      PROVE  AnswersApproved' /\ WholeIsAccepted'
  BY <1>4 DEF AnswersApproved, WholeIsAccepted
<1>5. ASSUME NEW p \in Phones, Issue(p) PROVE ExchangeInv'
  <2>1. /\ issued' = issued + 1 /\ issued < MaxChallenges /\ open'.to = p /\ open'.number = issued + 1
        /\ UNCHANGED <<got, response, approvals, verdict>>
    BY <1>5 DEF Issue
  <2>2. issued' \in 0..MaxChallenges /\ open'.number \in 0..issued'
    BY <1>0, <2>1
  <2> QED
    BY <1>0, <1>1, <1>2, <2>1, <2>2 DEF ExchangeInv
<1>6. ASSUME NEW q \in Phones, NEW len, Notify(q, len) PROVE ExchangeInv'
  <2> DEFINE f == Encode(Challenge(open.to, open.number))
             x == [bytes |-> SubSeq(f, 1, len), to |-> open.to, number |-> open.number]
  <2>1. /\ open.number # 0 /\ len \in 1..Len(f) /\ got' = [got EXCEPT ![q] = x]
        /\ UNCHANGED <<open, issued, response, approvals, verdict>>
    BY <1>6 DEF Notify
  <2>2. Genuine(x)
    <3>1. open.number \in 1..MaxChallenges /\ open.to \in Phones
      BY <1>0, <2>1
    <3> QED
      BY <2>1, <3>1 DEF Genuine
  <2> HIDE DEF x
  <2> QED
    BY <1>0, <1>1, <1>2, <1>3, <2>1, <2>2 DEF ExchangeInv
<1>7. ASSUME NEW q \in Phones, Approve(q) PROVE ExchangeInv'
  <2>1. got' = [got EXCEPT ![q] = Nothing] /\ approvals \subseteq approvals'
        /\ UNCHANGED <<open, issued, verdict>>
    BY <1>7 DEF Approve
  <2>2. AnswersApproved' /\ WholeIsAccepted'
    BY <1>7, ApproveKeeps
  <2> QED
    BY <1>0, <1>2, <1>3, <2>1, <2>2 DEF ExchangeInv
<1>8. ASSUME NEW q \in Phones, ApproveFramed(q) PROVE ExchangeInv'
  <2>1. got' = [got EXCEPT ![q] = Nothing] /\ approvals \subseteq approvals'
        /\ UNCHANGED <<open, issued, verdict>>
    BY <1>8 DEF ApproveFramed
  <2>2. response'.bytes = ResponseFrame(q, got[q].bytes, NonceOf(0)) /\ response'.how = "framed"
    BY <1>8 DEF ApproveFramed
  <2>3. AnswersApproved' /\ WholeIsAccepted'
    BY <1>4, <2>2, FramedIsLonger, OnlySignaturesPass
  <2> QED
    BY <1>0, <1>2, <1>3, <2>1, <2>3 DEF ExchangeInv
<1>9. ASSUME NEW q \in Phones, Refuse(q) PROVE ExchangeInv'
  <2>1. got' = [got EXCEPT ![q] = Nothing] /\ UNCHANGED <<open, issued, approvals, verdict>>
    BY <1>9 DEF Refuse
  <2>2. response'.bytes = Denied /\ response'.how = "denied"
    BY <1>9 DEF Refuse
  <2>3. AnswersApproved' /\ WholeIsAccepted'
    BY <1>4, <2>2, OnlySignaturesPass
  <2> QED
    BY <1>0, <1>2, <1>3, <2>1, <2>3 DEF ExchangeInv
<1>10. CASE Read
  <2>1. /\ open.number # 0 /\ open'.number = 0
        /\ response'.bytes = <<>> /\ response'.how = "none" /\ UNCHANGED <<issued, got, approvals>>
    BY <1>10 DEF Read, NoResponse
  <2>2. /\ verdict'.to = open.to /\ verdict'.number = open.number
        /\ verdict'.outcome = "ok" => Accepts(open.to, open.number, response.bytes)
    BY <1>10 DEF Read
  <2>3. OkMeansThisChallenge'
    <3>1. open.number \in 1..MaxChallenges /\ open.to \in Phones
      BY <1>0, <2>1
    <3> QED
      BY <1>0, <2>1, <2>2, <3>1 DEF OkMeansThisChallenge, AnswersApproved
  <2>4. AnswersApproved' /\ WholeIsAccepted'
    <3>1. Len(<<>>) # SignatureLen
      OBVIOUS
    <3> QED
      BY <1>4, <2>1, <3>1, OnlySignaturesPass
  <2>5. open'.number \in 0..issued'
    BY <1>0, <2>1
  <2> QED
    BY <1>0, <2>1, <2>3, <2>4, <2>5 DEF ExchangeInv
<1>11. CASE GiveUp
  <2>1. /\ open'.number = 0 /\ verdict'.outcome = "timeout"
        /\ UNCHANGED <<issued, got, response, approvals>>
    BY <1>11 DEF GiveUp
  <2>2. open'.number \in 0..issued' /\ OkMeansThisChallenge'
    BY <1>0, <2>1 DEF OkMeansThisChallenge
  <2> QED
    BY <1>0, <1>1, <2>1, <2>2 DEF ExchangeInv
<1>12. CASE UNCHANGED exchangeVars
  BY <1>0, <1>1, <1>2, <1>12 DEF ExchangeInv, exchangeVars
<1> QED
  BY <1>5, <1>6, <1>7, <1>8, <1>9, <1>10, <1>11, <1>12 DEF ExchangeNext

(* The inductive invariant of the exchange holds in every reachable state.    *)
THEOREM ExchangeInductive == ExchangeSpec => []ExchangeInv
  BY ExchangeStart, ExchangeStep, PTL DEF ExchangeSpec

(* An ok was approved by the user of the phone that was asked, for this very  *)
(* challenge: no cut, late, denied, framed or misdirected answer passes.      *)
THEOREM OkIsThisChallenge == ExchangeSpec => []OkMeansThisChallenge
<1>1. ExchangeInv => OkMeansThisChallenge
  BY DEF ExchangeInv
<1> QED
  BY <1>1, ExchangeInductive, PTL

(* As long as the app cuts off as many bytes as a tag has, the signature of a *)
(* notification that arrived whole is accepted.                               *)
THEOREM WholeAnswersUnlock == StripLen = TagLen => (ExchangeSpec => WholeApprovalUnlocks)
<1> SUFFICES ASSUME StripLen = TagLen PROVE ExchangeSpec => WholeApprovalUnlocks
  OBVIOUS
<1>1. ExchangeInv /\ [ExchangeNext]_exchangeVars => [WholeStep]_exchangeVars
  <2> SUFFICES ASSUME ExchangeInv, ExchangeNext, verdict' # verdict,
                      response.how = "whole", response.by = open.to,
                      response.number = open.number, verdict'.outcome # "timeout"
               PROVE  verdict'.outcome = "ok"
    BY DEF WholeStep
  <2>1. Accepts(open.to, open.number, response.bytes)
    BY DEF ExchangeInv, WholeIsAccepted
  <2>2. Read \/ GiveUp
    BY DEF ExchangeNext, Issue, Approve, ApproveFramed, Refuse, Notify
  <2> QED
    BY <2>1, <2>2 DEF Read, GiveUp
<1> QED
  BY <1>1, ExchangeInductive, PTL DEF ExchangeSpec, WholeApprovalUnlocks

-----------------------------------------------------------------------------
(* ReplayCache.                                                               *)

Suffix(s, m) == SubSeq(s, m, Len(s))

LEMMA SuffixFacts ==
    ASSUME NEW S, NEW s \in Seq(S), NEW m \in 1..(Len(s) + 1)
    PROVE  /\ Suffix(s, m) \in Seq(S) /\ Len(Suffix(s, m)) = Len(s) - m + 1
           /\ \A d \in 0..(Len(s) - m) : Newest(Suffix(s, m), d) = Newest(s, d)
<1> DEFINE t == SubSeq(s, m, Len(s))
<1>0. Len(s) \in Nat /\ m \in Nat /\ 1 <= m /\ m <= Len(s) + 1
  BY LenProperties
<1>1. \A i \in m..Len(s) : s[i] \in S
  BY <1>0, ElementOfSeq
<1>2. /\ t \in Seq(S)
      /\ Len(t) = IF m <= Len(s) THEN Len(s) - m + 1 ELSE 0
      /\ \A i \in 1..(Len(s) - m + 1) : t[i] = s[m + i - 1]
  BY <1>0, <1>1, SubSeqProperties
<1> HIDE DEF t
<1>3. Len(t) = Len(s) - m + 1
  BY <1>0, <1>2
<1>4. ASSUME NEW d \in 0..(Len(s) - m) PROVE t[Len(t) - d] = s[Len(s) - d]
  <2>1. /\ Len(t) - d \in 1..(Len(s) - m + 1)
        /\ m + (Len(t) - d) - 1 = Len(s) - d
    BY <1>0, <1>3
  <2> QED
    BY <1>2, <2>1
<1> QED
  BY <1>2, <1>3, <1>4 DEF Newest, Suffix, t

LEMMA TakeLastFacts ==
    ASSUME NEW S, NEW s \in Seq(S), NEW c \in Nat, NEW t, t = TakeLast(s, c)
    PROVE  /\ t \in Seq(S) /\ Len(t) = IF Len(s) > c THEN c ELSE Len(s)
           /\ \A d \in 0..(Len(t) - 1) : Newest(t, d) = Newest(s, d)
<1> DEFINE m == IF Len(s) > c THEN Len(s) - c + 1 ELSE 1
<1>1. Len(s) \in Nat
  BY LenProperties
<1>2. m \in 1..(Len(s) + 1) /\ Len(s) - m + 1 = IF Len(s) > c THEN c ELSE Len(s)
  BY <1>1
<1>3. t = Suffix(s, m)
  BY DEF TakeLast, Suffix
<1> HIDE DEF m
<1>4. /\ t \in Seq(S) /\ Len(t) = Len(s) - m + 1
      /\ \A d \in 0..(Len(s) - m) : Newest(t, d) = Newest(s, d)
  BY <1>2, <1>3, SuffixFacts
<1> QED
  BY <1>1, <1>2, <1>4

LEMMA PushedFacts ==
    ASSUME NEW S, NEW s \in Seq(S), NEW e \in S
    PROVE  /\ Append(s, e) \in Seq(S) /\ Len(Append(s, e)) = Len(s) + 1
           /\ Newest(Append(s, e), 0) = e
           /\ \A d \in 1..Len(s) : Newest(Append(s, e), d) = Newest(s, d - 1)
<1> DEFINE t == Append(s, e)
<1>1. Len(s) \in Nat
  BY LenProperties
<1>2. t \in Seq(S) /\ Len(t) = Len(s) + 1 /\ t[Len(s) + 1] = e /\ \A i \in 1..Len(s) : t[i] = s[i]
  <2>1. Append(s, e) \in Seq(S) /\ Len(Append(s, e)) = Len(s) + 1
    BY AppendProperties
  <2>2. \A i \in 1..Len(s) : Append(s, e)[i] = s[i]
    BY AppendProperties
  <2>3. Append(s, e)[Len(s) + 1] = e
    BY AppendProperties
  <2> QED
    BY <2>1, <2>2, <2>3
<1> HIDE DEF t
<1>3. Newest(t, 0) = e
  BY <1>1, <1>2 DEF Newest
<1>4. ASSUME NEW d \in 1..Len(s) PROVE Newest(t, d) = Newest(s, d - 1)
  <2>1. Len(t) - d \in 1..Len(s) /\ Len(t) - d = Len(s) - (d - 1)
    BY <1>1, <1>2
  <2> QED
    BY <1>2, <2>1 DEF Newest
<1> QED
  BY <1>2, <1>3, <1>4 DEF t

LEMMA LeastIndex ==
    ASSUME NEW I \in SUBSET Nat, I # {}
    PROVE  \E m \in I : \A j \in I : m <= j
<1> DEFINE Less == OpToRel(<, Nat)
<1>1. \A i, j \in Nat : i < j => <<i, j>> \in Less
  BY DEF OpToRel
<1>2. PICK m \in I : \A j \in I : ~(<<j, m>> \in Less)
  BY NatLessThanWellFounded, WFMin
<1> HIDE DEF Less
<1>3. ASSUME NEW j \in I PROVE m <= j
  <2>1. m \in Nat /\ j \in Nat
    OBVIOUS
  <2>2. ~(j < m)
    BY <1>1, <1>2, <2>1
  <2> QED
    BY <2>1, <2>2
<1> QED
  BY <1>3

(* evict_expired drops exactly the entries that have expired, because the     *)
(* entries are in the order they were accepted in.                            *)
LEMMA EvictFacts ==
    ASSUME clock \in Nat, ttl \in Nat, NEW es \in Seq(Entry), CacheHorizon \in Nat,
           \A d \in 0..(Len(es) - 1) : \A c \in 0..d : Newest(es, d)[2] <= Newest(es, c)[2],
           NEW t, t = EvictExpired(es)
    PROVE  /\ t \in Seq(Entry) /\ Len(t) <= Len(es)
           /\ \A d \in 0..(Len(t) - 1) : Newest(t, d) = Newest(es, d) /\ ~Expired(Newest(es, d))
           /\ \A d \in Len(t)..(Len(es) - 1) : Expired(Newest(es, d))
<1> DEFINE n == Len(es)
           alive == {i \in DOMAIN es : ~Expired(es[i])}
           m == CHOOSE i \in alive : \A j \in alive : i <= j
<1>0. n \in Nat /\ DOMAIN es = 1..n
  BY LenProperties
<1>1. \A i \in 1..n : es[i] \in Entry /\ es[i][2] \in Nat
  BY <1>0, ElementOfSeq DEF Entry
<1>2. \A d \in 0..(n - 1) : Newest(es, d) = es[n - d] /\ n - d \in 1..n
  BY <1>0 DEF Newest
<1>3. CASE alive = {}
  <2>1. t = <<>>
    BY <1>3 DEF EvictExpired
  <2>2. \A d \in 0..(n - 1) : Expired(Newest(es, d))
    BY <1>0, <1>2, <1>3
  <2>3. t \in Seq(Entry) /\ Len(t) = 0
    BY <2>1
  <2> QED
    BY <1>0, <2>2, <2>3
<1>4. CASE alive # {}
  <2>1. m \in alive /\ \A j \in alive : m <= j
    <3>1. alive \in SUBSET Nat
      BY <1>0
    <3> HIDE DEF alive
    <3>2. \E i \in alive : \A j \in alive : i <= j
      BY <1>4, <3>1, LeastIndex
    <3> QED
      BY <3>2
  <2>2. t = Suffix(es, m)
    BY <1>4 DEF EvictExpired, Suffix
  <2>3. m \in 1..n /\ ~Expired(es[m])
    BY <1>0, <2>1
  <2>4. \A i \in 1..n : i < m => Expired(es[i])
    <3>1. ASSUME NEW i \in 1..n, i < m, ~Expired(es[i]) PROVE FALSE
      <4>1. i \in alive
        BY <1>0, <3>1
      <4> HIDE DEF m, alive
      <4>2. m <= i
        BY <2>1, <4>1
      <4> QED
        BY <1>0, <2>3, <3>1, <4>2
    <3> QED
      BY <3>1
  <2> HIDE DEF m, alive
  <2>5. /\ t \in Seq(Entry) /\ Len(t) = n - m + 1
        /\ \A d \in 0..(n - m) : Newest(t, d) = Newest(es, d)
    <3>1. m \in 1..(n + 1)
      BY <1>0, <2>3
    <3> QED
      BY <2>2, <3>1, SuffixFacts
  <2>6. ASSUME NEW d \in 0..(Len(t) - 1) PROVE Newest(t, d) = Newest(es, d) /\ ~Expired(Newest(es, d))
    <3>1. d \in 0..(n - m) /\ n - m \in 0..(n - 1) /\ d \in 0..(n - 1) /\ n - (n - m) = m
      BY <1>0, <2>3, <2>5
    <3>2. Newest(es, n - m)[2] <= Newest(es, d)[2]
      BY <3>1
    <3>3. Newest(es, n - m) = es[m] /\ Newest(es, d)[2] \in Nat /\ es[m][2] \in Nat
      BY <1>1, <1>2, <2>3, <3>1
    <3>4. ~Expired(Newest(es, d))
      BY <2>3, <3>2, <3>3 DEF Expired
    <3> QED
      BY <2>5, <3>1, <3>4
  <2>7. ASSUME NEW d \in Len(t)..(n - 1) PROVE Expired(Newest(es, d))
    <3>1. d \in 0..(n - 1) /\ n - d \in 1..n /\ n - d < m
      BY <1>0, <2>3, <2>5
    <3> QED
      BY <1>2, <2>4, <3>1
  <2>8. Len(t) <= n
    BY <1>0, <2>3, <2>5
  <2> QED
    BY <2>5, <2>6, <2>7, <2>8
<1> QED
  BY <1>3, <1>4

Added(s, e, c) == TakeLast(Append(s, e), c)

LEMMA RememberFacts ==
    ASSUME NEW s \in Seq(Entry), NEW e \in Entry, NEW c \in Nat
    PROVE  /\ Added(s, e, c) \in Seq(Entry)
           /\ Len(Added(s, e, c)) = IF Len(s) + 1 > c THEN c ELSE Len(s) + 1
           /\ Len(Added(s, e, c)) > 0 => Newest(Added(s, e, c), 0) = e
           /\ \A d \in 1..(Len(Added(s, e, c)) - 1) : Newest(Added(s, e, c), d) = Newest(s, d - 1)
<1> DEFINE u == Append(s, e)
           t == TakeLast(u, c)
<1>0. u = Append(s, e)
  OBVIOUS
<1>2. t = TakeLast(u, c)
  OBVIOUS
<1> HIDE DEF u, t
<1>1. /\ u \in Seq(Entry) /\ Len(u) = Len(s) + 1 /\ Newest(u, 0) = e
      /\ \A d \in 1..Len(s) : Newest(u, d) = Newest(s, d - 1)
  BY <1>0, PushedFacts
<1>3. /\ t \in Seq(Entry) /\ Len(t) = IF Len(u) > c THEN c ELSE Len(u)
      /\ \A d \in 0..(Len(t) - 1) : Newest(t, d) = Newest(u, d)
  BY <1>1, <1>2, TakeLastFacts
<1>4. Len(s) \in Nat /\ Len(t) \in Nat
  BY <1>3, LenProperties
<1>5. ASSUME NEW d \in 1..(Len(t) - 1) PROVE Newest(t, d) = Newest(s, d - 1)
  <2>1. d \in 1..Len(s) /\ d \in 0..(Len(t) - 1)
    BY <1>1, <1>3, <1>4
  <2> QED
    BY <1>1, <1>3, <2>1
<1>6. Len(t) > 0 => Newest(t, 0) = e
  BY <1>1, <1>3, <1>4
<1> QED
  BY <1>1, <1>3, <1>5, <1>6 DEF t, u, Added

LEMMA CacheTypes ==
    ASSUME CacheInv
    PROVE  /\ cap \in Nat /\ ttl \in Nat /\ clock \in Nat /\ CacheHorizon \in Nat
           /\ LargestCap \in Nat /\ cap <= LargestCap
           /\ Len(entries) \in Nat /\ Len(accepted) \in Nat
           /\ \A d \in 0..(Len(accepted) - 1) :
                 Newest(accepted, d) \in Entry /\ Newest(accepted, d)[2] \in Nat
<1>1. /\ cap \in Nat /\ ttl \in Nat /\ clock \in Nat /\ CacheHorizon \in Nat
  BY ReplayCacheAssumption DEF CacheInv
<1>2. LargestCap \in Caps /\ \A d \in Caps : d <= LargestCap
  BY ReplayCacheAssumption DEF LargestCap
<1>3. LargestCap \in Nat /\ cap <= LargestCap
  BY <1>2, ReplayCacheAssumption DEF CacheInv
<1>4. Len(entries) \in Nat /\ Len(accepted) \in Nat /\ accepted \in Seq(Entry)
  BY LenProperties DEF CacheInv
<1>5. ASSUME NEW d \in 0..(Len(accepted) - 1)
      PROVE  Newest(accepted, d) \in Entry /\ Newest(accepted, d)[2] \in Nat
  <2>1. Len(accepted) - d \in 1..Len(accepted)
    BY <1>4
  <2>2. accepted[Len(accepted) - d] \in Entry
    BY <1>4, <2>1, ElementOfSeq
  <2> QED
    BY <1>1, <2>2 DEF Newest, Entry
<1> QED
  BY <1>1, <1>3, <1>4, <1>5

(* What an observation sees: as many of the newest accepted nonces as are     *)
(* alive and within the capacity.                                             *)
LEMMA AliveFacts ==
    ASSUME CacheInv, NEW a, a = EvictExpired(entries)
    PROVE  /\ a \in Seq(Entry) /\ Len(a) \in Nat /\ Len(a) <= cap /\ Len(a) <= Len(accepted)
           /\ \A d \in 0..(Len(a) - 1) :
                 Newest(a, d) = Newest(accepted, d) /\ ~Expired(Newest(accepted, d))
           /\ \A d \in Len(a)..(Len(accepted) - 1) : d < cap => Expired(Newest(accepted, d))
<1>1. /\ cap \in Nat /\ ttl \in Nat /\ clock \in Nat /\ CacheHorizon \in Nat
      /\ Len(entries) \in Nat /\ Len(accepted) \in Nat
  BY CacheTypes
<1>2. /\ entries \in Seq(Entry) /\ Len(entries) <= cap /\ Len(entries) <= Len(accepted)
      /\ \A d \in 0..(Len(entries) - 1) : Newest(entries, d) = Newest(accepted, d)
      /\ \A d \in Len(entries)..(Len(accepted) - 1) : d < cap => Expired(Newest(accepted, d))
  BY DEF CacheInv
<1>3. ASSUME NEW d \in 0..(Len(entries) - 1), NEW c \in 0..d
      PROVE  Newest(entries, d)[2] <= Newest(entries, c)[2]
  <2>1. d \in 0..(Len(accepted) - 1) /\ c \in 0..(Len(entries) - 1)
    BY <1>1, <1>2
  <2>2. Newest(accepted, d)[2] <= Newest(accepted, c)[2]
    BY <2>1 DEF CacheInv
  <2> QED
    BY <1>2, <2>1, <2>2
<1>4. /\ a \in Seq(Entry) /\ Len(a) <= Len(entries)
      /\ \A d \in 0..(Len(a) - 1) : Newest(a, d) = Newest(entries, d) /\ ~Expired(Newest(entries, d))
      /\ \A d \in Len(a)..(Len(entries) - 1) : Expired(Newest(entries, d))
  BY <1>1, <1>2, <1>3, EvictFacts
<1>5. Len(a) \in Nat
  BY <1>4, LenProperties
<1>6. Len(a) <= cap /\ Len(a) <= Len(accepted)
  BY <1>1, <1>2, <1>4, <1>5
<1>7. ASSUME NEW d \in 0..(Len(a) - 1)
      PROVE  Newest(a, d) = Newest(accepted, d) /\ ~Expired(Newest(accepted, d))
  <2>1. d \in 0..(Len(entries) - 1)
    BY <1>1, <1>4, <1>5
  <2> QED
    BY <1>2, <1>4, <2>1
<1>8. ASSUME NEW d \in Len(a)..(Len(accepted) - 1), d < cap PROVE Expired(Newest(accepted, d))
  <2>1. \/ d \in Len(a)..(Len(entries) - 1) /\ d \in 0..(Len(entries) - 1)
        \/ d \in Len(entries)..(Len(accepted) - 1)
    BY <1>1, <1>5
  <2> QED
    BY <1>2, <1>4, <1>8, <2>1
<1> QED
  BY <1>4, <1>5, <1>6, <1>7, <1>8

LEMMA CacheStart == CacheInit => CacheInv
<1> SUFFICES ASSUME CacheInit PROVE CacheInv
  OBVIOUS
<1>1. <<>> \in Seq(Entry) /\ Len(<<>>) = 0
  OBVIOUS
<1>2. 0 \in 0..CacheHorizon /\ cap \in Nat /\ 0 <= cap
  BY ReplayCacheAssumption DEF CacheInit
<1> QED
  BY <1>1, <1>2 DEF CacheInit, CacheInv

LEMMA TickKeepsCache ==
    ASSUME CacheInv, ClockTick
    PROVE  CacheInv'
<1>1. /\ cap \in Nat /\ ttl \in Nat /\ clock \in Nat /\ CacheHorizon \in Nat
      /\ Len(entries) \in Nat /\ Len(accepted) \in Nat
      /\ \A d \in 0..(Len(accepted) - 1) : Newest(accepted, d)[2] \in Nat
  BY CacheTypes
<1>2. clock' = clock + 1 /\ clock' \in 0..CacheHorizon
  BY <1>1 DEF ClockTick
<1>3. cap' = cap /\ ttl' = ttl /\ entries' = entries /\ accepted' = accepted
  BY DEF ClockTick
<1>4. \A d \in 0..(Len(accepted) - 1) :
         /\ Newest(accepted, d)[2] <= clock'
         /\ \A c \in 0..d : Newest(accepted, d)[2] <= Newest(accepted, c)[2]
  BY <1>1, <1>2 DEF CacheInv
<1>5. ASSUME NEW d \in Len(entries)..(Len(accepted) - 1), d < cap
      PROVE  clock' - Newest(accepted, d)[2] >= ttl
  <2>1. clock - Newest(accepted, d)[2] >= ttl
    BY <1>5 DEF CacheInv, Expired
  <2>2. d \in 0..(Len(accepted) - 1)
    BY <1>1
  <2> QED
    BY <1>1, <1>2, <2>1, <2>2
<1> QED
  BY <1>2, <1>3, <1>4, <1>5 DEF CacheInv, Expired, Newest

LEMMA ReplayKeepsCache ==
    ASSUME CacheInv, NEW a, a = EvictExpired(entries),
           entries' = a, UNCHANGED <<cap, ttl, clock, accepted>>
    PROVE  CacheInv'
<1>1. /\ a \in Seq(Entry) /\ Len(a) <= cap /\ Len(a) <= Len(accepted)
      /\ \A d \in 0..(Len(a) - 1) : Newest(a, d) = Newest(accepted, d)
      /\ \A d \in Len(a)..(Len(accepted) - 1) : d < cap => Expired(Newest(accepted, d))
  BY AliveFacts
<1> QED
  BY <1>1 DEF CacheInv, Expired, Newest

LEMMA FreshKeepsCache ==
    ASSUME CacheInv, NEW a, a = EvictExpired(entries), NEW n \in CacheNonces,
           entries' = IF cap = 0 THEN a ELSE Push(a, <<n, clock>>),
           accepted' = Remember(accepted, <<n, clock>>),
           UNCHANGED <<cap, ttl, clock>>
    PROVE  CacheInv'
<1> DEFINE e == <<n, clock>>
           es == entries'
           h == accepted'
<1>1. /\ cap \in Nat /\ ttl \in Nat /\ clock \in Nat
      /\ LargestCap \in Nat /\ cap <= LargestCap /\ Len(accepted) \in Nat
  BY CacheTypes
<1>2. /\ a \in Seq(Entry) /\ Len(a) \in Nat /\ Len(a) <= cap /\ Len(a) <= Len(accepted)
      /\ \A d \in 0..(Len(a) - 1) : Newest(a, d) = Newest(accepted, d)
      /\ \A d \in Len(a)..(Len(accepted) - 1) : d < cap => Expired(Newest(accepted, d))
  BY AliveFacts
<1>3. e \in Entry /\ e[2] = clock
  BY DEF CacheInv, Entry
<1>4. accepted \in Seq(Entry) /\ h = Added(accepted, e, LargestCap)
  BY DEF CacheInv, Remember, Added
<1>5. cap = 0 => es = a
  OBVIOUS
<1>6. cap # 0 => es = Added(a, e, cap)
  BY DEF Push, Added
<1>7. cap' = cap /\ ttl' = ttl /\ clock' = clock
  OBVIOUS
<1>8. \A x : Expired(x)' <=> Expired(x)
  BY <1>7 DEF Expired
<1> HIDE DEF e, es, h
<1>9. /\ h \in Seq(Entry) /\ Len(h) = IF Len(accepted) + 1 > LargestCap THEN LargestCap ELSE Len(accepted) + 1
      /\ Len(h) > 0 => Newest(h, 0) = e
      /\ \A d \in 1..(Len(h) - 1) : Newest(h, d) = Newest(accepted, d - 1)
  BY <1>1, <1>3, <1>4, RememberFacts
<1>10. /\ es \in Seq(Entry) /\ Len(es) = IF Len(a) + 1 > cap THEN cap ELSE Len(a) + 1
       /\ Len(es) > 0 => Newest(es, 0) = e
       /\ \A d \in 1..(Len(es) - 1) : Newest(es, d) = Newest(a, d - 1)
  <2>1. CASE cap = 0
    BY <1>1, <1>2, <1>5, <2>1
  <2>2. CASE cap # 0
    <3>1. es = Added(a, e, cap) /\ a \in Seq(Entry)
      BY <1>2, <1>6, <2>2
    <3>2. es \in Seq(Entry) /\ Len(es) = IF Len(a) + 1 > cap THEN cap ELSE Len(a) + 1
      BY <1>1, <1>3, <3>1, RememberFacts
    <3>3. Len(es) > 0 => Newest(es, 0) = e
      BY <1>1, <1>3, <3>1, RememberFacts
    <3>4. \A d \in 1..(Len(es) - 1) : Newest(es, d) = Newest(a, d - 1)
      BY <1>1, <1>3, <3>1, RememberFacts
    <3> QED
      BY <3>2, <3>3, <3>4
  <2> QED
    BY <2>1, <2>2
<1>11. Len(h) \in Nat /\ Len(es) \in Nat /\ Len(es) <= cap /\ Len(es) <= Len(h)
  BY <1>1, <1>2, <1>9, <1>10
<1>12. ASSUME NEW d \in 0..(Len(es) - 1) PROVE Newest(es, d) = Newest(h, d)
  <2>1. d \in 0..(Len(h) - 1) /\ (d = 0 \/ d - 1 \in 0..(Len(a) - 1))
    BY <1>1, <1>2, <1>10, <1>11
  <2> QED
    BY <1>2, <1>9, <1>10, <2>1
<1>13. ASSUME NEW d \in Len(es)..(Len(h) - 1), d < cap PROVE Expired(Newest(h, d))
  <2>1. /\ d # 0 /\ d - 1 \in Len(a)..(Len(accepted) - 1) /\ d - 1 < cap
        /\ d \in 0..(Len(h) - 1)
    BY <1>1, <1>2, <1>9, <1>10, <1>11, <1>13
  <2> QED
    BY <1>2, <1>9, <2>1
<1>14. ASSUME NEW d \in 0..(Len(h) - 1)
       PROVE  /\ Newest(h, d)[2] <= clock
              /\ \A c \in 0..d : Newest(h, d)[2] <= Newest(h, c)[2]
  <2>1. d = 0 \/ d - 1 \in 0..(Len(accepted) - 1)
    BY <1>1, <1>9, <1>11
  <2>2. Newest(h, d)[2] <= clock
    <3>1. CASE d = 0
      BY <1>1, <1>3, <1>9, <3>1
    <3>2. CASE d # 0
      BY <1>9, <2>1, <3>2 DEF CacheInv
    <3> QED
      BY <3>1, <3>2
  <2>3. ASSUME NEW c \in 0..d PROVE Newest(h, d)[2] <= Newest(h, c)[2]
    <3>1. c \in 0..(Len(h) - 1) /\ (c = 0 \/ (d # 0 /\ c - 1 \in 0..(d - 1)))
      BY <1>11
    <3>2. CASE c = 0
      BY <1>3, <1>9, <2>2, <3>1, <3>2
    <3>3. CASE c # 0
      <4>1. Newest(accepted, d - 1)[2] <= Newest(accepted, c - 1)[2]
        BY <2>1, <3>1, <3>3 DEF CacheInv
      <4> QED
        BY <1>9, <3>1, <3>3, <4>1
    <3> QED
      BY <3>2, <3>3
  <2> QED
    BY <2>2, <2>3
<1>15. \A d : Newest(entries, d)' = Newest(es, d) /\ Newest(accepted, d)' = Newest(h, d)
  BY DEF Newest, es, h
<1>16. /\ cap' \in Caps /\ ttl' \in Ttls /\ clock' \in 0..CacheHorizon
       /\ es \in Seq(Entry) /\ h \in Seq(Entry)
       /\ Len(es) <= cap' /\ Len(es) <= Len(h)
       /\ \A d \in 0..(Len(es) - 1) : Newest(es, d) = Newest(h, d)
       /\ \A d \in Len(es)..(Len(h) - 1) : d < cap' => clock' - Newest(h, d)[2] >= ttl'
       /\ \A d \in 0..(Len(h) - 1) :
             /\ Newest(h, d)[2] <= clock'
             /\ \A c \in 0..d : Newest(h, d)[2] <= Newest(h, c)[2]
       => CacheInv'
  BY DEF CacheInv, Newest, es, h, Expired
<1>17. cap \in Caps /\ ttl \in Ttls /\ clock \in 0..CacheHorizon
  BY DEF CacheInv
<1>18. \A d \in Len(es)..(Len(h) - 1) : d < cap => clock - Newest(h, d)[2] >= ttl
  BY <1>13 DEF Expired
<1> QED
  BY <1>7, <1>9, <1>10, <1>11, <1>12, <1>14, <1>16, <1>17, <1>18

LEMMA CacheStep == CacheInv /\ [CacheNext]_cacheVars => CacheInv'
<1> SUFFICES ASSUME CacheInv, [CacheNext]_cacheVars PROVE CacheInv'
  OBVIOUS
<1>1. CASE UNCHANGED cacheVars
  BY <1>1 DEF CacheInv, cacheVars, Newest, Expired
<1>2. CASE ClockTick
  BY <1>2, TickKeepsCache
<1>3. ASSUME NEW n \in CacheNonces, Observe(n) PROVE CacheInv'
  <2>1. \/ entries' = EvictExpired(entries) /\ UNCHANGED <<cap, ttl, clock, accepted>>
        \/ /\ entries' = IF cap = 0 THEN EvictExpired(entries) ELSE Push(EvictExpired(entries), <<n, clock>>)
           /\ accepted' = Remember(accepted, <<n, clock>>)
           /\ UNCHANGED <<cap, ttl, clock>>
    BY <1>3 DEF Observe
  <2>2. CASE entries' = EvictExpired(entries) /\ UNCHANGED <<cap, ttl, clock, accepted>>
    BY <2>2, ReplayKeepsCache
  <2>3. CASE /\ entries' = IF cap = 0 THEN EvictExpired(entries) ELSE Push(EvictExpired(entries), <<n, clock>>)
             /\ accepted' = Remember(accepted, <<n, clock>>)
             /\ UNCHANGED <<cap, ttl, clock>>
    BY <2>3, FreshKeepsCache
  <2> QED
    BY <2>1, <2>2, <2>3
<1> QED
  BY <1>1, <1>2, <1>3 DEF CacheNext

(* The inductive invariant of the replay cache holds in every reachable state.*)
THEOREM CacheInductive == CacheSpec => []CacheInv
  BY CacheStart, CacheStep, PTL DEF CacheSpec

(* For every capacity, lifetime and sequence of observations, the bounded     *)
(* queue of observe_at answers like the sliding window over the whole history:*)
(* Replayed exactly for the last cap accepted nonces that are younger than ttl*)
THEOREM CacheIsAWindow == CacheSpec => AnswersLikeWindow
<1>1. CacheInv /\ [CacheNext]_cacheVars => [WindowStep]_cacheVars
  <2> SUFFICES ASSUME CacheInv, CacheNext, answer' # answer \/ accepted' # accepted
               PROVE  answer'.acceptance = "Replayed"
                        <=> \E i \in {i \in DOMAIN accepted : i > Len(accepted) - cap} :
                              accepted[i][1] = answer'.nonce /\ clock - accepted[i][2] < ttl
    BY DEF WindowStep
  <2>1. PICK n \in CacheNonces : Observe(n)
    BY DEF CacheNext, ClockTick
  <2> DEFINE a == EvictExpired(entries)
             A == Len(accepted)
  <2>2. answer'.nonce = n /\ (answer'.acceptance = "Replayed" <=> \E i \in DOMAIN a : a[i][1] = n)
    BY <2>1 DEF Observe
  <2>3. /\ a \in Seq(Entry) /\ Len(a) \in Nat /\ Len(a) <= cap /\ Len(a) <= A
        /\ \A d \in 0..(Len(a) - 1) :
              Newest(a, d) = Newest(accepted, d) /\ ~Expired(Newest(accepted, d))
        /\ \A d \in Len(a)..(A - 1) : d < cap => Expired(Newest(accepted, d))
    BY AliveFacts
  <2> HIDE DEF a
  <2>4. /\ cap \in Nat /\ ttl \in Nat /\ clock \in Nat /\ A \in Nat
        /\ \A d \in 0..(A - 1) : Newest(accepted, d)[2] \in Nat
    BY CacheTypes
  <2>5. DOMAIN a = 1..Len(a) /\ DOMAIN accepted = 1..A
    BY <2>3, LenProperties DEF CacheInv
  <2> HIDE DEF A
  <2>6. ASSUME NEW i \in DOMAIN a, a[i][1] = n
        PROVE  \E j \in 1..A : j > A - cap /\ accepted[j][1] = n /\ clock - accepted[j][2] < ttl
    <3> DEFINE d == Len(a) - i
               j == A - d
    <3>1. /\ d \in 0..(Len(a) - 1) /\ d \in 0..(A - 1) /\ j \in 1..A /\ j > A - cap
          /\ Len(a) - d = i
      BY <2>3, <2>4, <2>5
    <3>2. accepted[j] = Newest(accepted, d) /\ a[i] = Newest(a, d)
      BY <3>1 DEF Newest, A
    <3> HIDE DEF d, j
    <3>3. accepted[j][1] = n /\ ~Expired(accepted[j]) /\ accepted[j][2] \in Nat
      BY <2>3, <2>4, <2>6, <3>1, <3>2
    <3>4. clock - accepted[j][2] < ttl
      BY <2>4, <3>3 DEF Expired
    <3> QED
      BY <3>1, <3>3, <3>4
  <2>7. ASSUME NEW j \in 1..A, j > A - cap, accepted[j][1] = n, clock - accepted[j][2] < ttl
        PROVE  \E i \in DOMAIN a : a[i][1] = n
    <3> DEFINE d == A - j
               i == Len(a) - d
    <3>1. d \in 0..(A - 1) /\ d < cap /\ A - d = j
      BY <2>4, <2>7
    <3>2. accepted[j] = Newest(accepted, d)
      BY <3>1 DEF Newest, A
    <3>3. a[i] = Newest(a, d)
      BY DEF Newest
    <3> HIDE DEF d, i
    <3>4. ~Expired(Newest(accepted, d))
      <4>1. accepted[j][2] \in Nat
        BY <2>4, <3>1, <3>2
      <4> QED
        BY <2>4, <2>7, <3>2, <4>1 DEF Expired
    <3>5. d < Len(a)
      BY <2>3, <2>4, <3>1, <3>4
    <3>6. d \in 0..(Len(a) - 1) /\ i \in 1..Len(a)
      BY <2>3, <2>4, <3>1, <3>5 DEF i
    <3> QED
      BY <2>3, <2>5, <2>7, <3>2, <3>3, <3>6
  <2> QED
    BY <2>2, <2>5, <2>6, <2>7 DEF A
<1> QED
  BY <1>1, CacheInductive, PTL DEF CacheSpec, AnswersLikeWindow

-----------------------------------------------------------------------------
(* Frame.                                                                     *)

(* A byte string is its first byte and its parts up to two later places.      *)
LEMMA FrontPieces ==
    ASSUME NEW S, NEW w \in Seq(S), NEW h \in Nat, NEW e \in Nat, 1 <= h, h <= e, e <= Len(w)
    PROVE  (<<w[1]>> \o SubSeq(w, 2, h)) \o SubSeq(w, h + 1, e) = SubSeq(w, 1, e)
<1>1. SubSeq(w, 1, 1) = <<w[1]>>
  <2>1. SubSeq(w, 1, 1) = <<w[1]>> \o SubSeq(w, 2, 1)
    BY SubSeqRecursiveFirst
  <2>2. SubSeq(w, 2, 1) = <<>>
    BY SubSeqEmpty
  <2>3. <<w[1]>> \in Seq(S)
    BY ElementOfSeq
  <2> QED
    BY <2>1, <2>2, <2>3, ConcatEmptySeq
<1>2. SubSeq(w, 1, 1) \o SubSeq(w, 2, h) = SubSeq(w, 1, h)
  BY ConcatAdjacentSubSeq
<1>3. SubSeq(w, 1, h) \o SubSeq(w, h + 1, e) = SubSeq(w, 1, e)
  BY ConcatAdjacentSubSeq
<1> DEFINE a == <<w[1]>> \o SubSeq(w, 2, h)
<1>4. a = SubSeq(w, 1, h)
  BY <1>1, <1>2, Zenon
<1> HIDE DEF a
<1>5. a \o SubSeq(w, h + 1, e) = SubSeq(w, 1, e)
  BY <1>3, <1>4, Zenon
<1> QED
  BY <1>5 DEF a

(* A byte string is the concatenation of decode's four slices.                *)
LEMMA Pieces ==
    ASSUME NEW S, NEW w \in Seq(S), NEW h \in Nat, NEW e \in Nat, 1 <= h, h <= e, e <= Len(w)
    PROVE  ((<<w[1]>> \o SubSeq(w, 2, h)) \o SubSeq(w, h + 1, e)) \o SubSeq(w, e + 1, Len(w)) = w
<1> DEFINE b == (<<w[1]>> \o SubSeq(w, 2, h)) \o SubSeq(w, h + 1, e)
<1>1. b = SubSeq(w, 1, e)
  BY FrontPieces
<1>2. SubSeq(w, 1, e) \o SubSeq(w, e + 1, Len(w)) = SubSeq(w, 1, Len(w))
  <2>1. 1 \in 1..(Len(w) + 1) /\ e \in (1 - 1)..Len(w) /\ Len(w) \in e..Len(w)
    OBVIOUS
  <2> QED
    BY <2>1, ConcatAdjacentSubSeq
<1>3. SubSeq(w, 1, Len(w)) = w
  BY SubSeqFull
<1> HIDE DEF b
<1>4. b \o SubSeq(w, e + 1, Len(w)) = w
  BY <1>1, <1>2, <1>3, Zenon
<1> QED
  BY <1>4 DEF b

(* The cases of decode.                                                       *)
Split(w) ==
    [version |-> w[1],
     nonce   |-> SubSeq(w, 2, HeaderLen),
     payload |-> SubSeq(w, HeaderLen + 1, Len(w) - TagLen),
     tag     |-> SubSeq(w, Len(w) - TagLen + 1, Len(w))]

(* What decode answers: too short, a version it does not know, or the slices. *)
LEMMA DecodeCases ==
    ASSUME NEW S, NEW w \in Seq(S)
    PROVE  /\ Len(w) < MinFrameLen => Decode(w) = Err("TooShort")
           /\ Len(w) >= MinFrameLen =>
                /\ w[1] # V1 => Decode(w) = Err("BadVersion")
                /\ w[1] = V1 /\ Len(w) > MinFrameLen + MaxPayload => Decode(w) = Err("BadLength")
                /\ w[1] = V1 /\ Len(w) <= MinFrameLen + MaxPayload =>
                      Decode(w) = [ok |-> TRUE, frame |-> Split(w)]
<1>1. Len(w) \in Nat
  OBVIOUS
<1>2. ASSUME Len(w) >= MinFrameLen
      PROVE  HeaderLen + (Len(w) - MinFrameLen) = Len(w) - TagLen /\ (Len(w) - TagLen) + TagLen = Len(w)
  BY <1>1, <1>2
<1>3. (Len(w) - MinFrameLen > MaxPayload) <=> (Len(w) > MinFrameLen + MaxPayload)
  BY <1>1
<1>4. CASE Len(w) < MinFrameLen
  BY <1>1, <1>4 DEF Decode
<1>5. CASE Len(w) >= MinFrameLen
  <2>1. w[1] # V1 => Decode(w) = Err("BadVersion")
    BY <1>1, <1>5 DEF Decode
  <2>2. w[1] = V1 /\ Len(w) > MinFrameLen + MaxPayload => Decode(w) = Err("BadLength")
    BY <1>1, <1>3, <1>5 DEF Decode
  <2>3. ASSUME w[1] = V1, Len(w) <= MinFrameLen + MaxPayload
        PROVE  Decode(w) = [ok |-> TRUE, frame |-> Split(w)]
    <3>1. ~(Len(w) < MinFrameLen) /\ ~(Len(w) - MinFrameLen > MaxPayload)
      BY <1>1, <1>3, <1>5, <2>3
    <3> DEFINE e == HeaderLen + (Len(w) - MinFrameLen)
               f == [version |-> w[1], nonce |-> SubSeq(w, 2, HeaderLen),
                     payload |-> SubSeq(w, HeaderLen + 1, e),
                     tag |-> SubSeq(w, e + 1, e + TagLen)]
    <3>2. Decode(w) = [ok |-> TRUE, frame |-> f]
      BY <2>3, <3>1 DEF Decode
    <3>3. e = Len(w) - TagLen /\ e + TagLen = Len(w)
      BY <1>1
    <3> HIDE DEF e
    <3>4. f = Split(w)
      BY <3>3 DEF Split
    <3> QED
      BY <3>2, <3>4
  <2> QED
    BY <1>1, <1>5, <2>1, <2>2, <2>3
<1> QED
  BY <1>1, <1>4, <1>5

(* A refusal carries no frame.                                                *)
LEMMA ErrFacts ==
    ASSUME NEW e, NEW f
    PROVE  /\ Err(e).ok = FALSE /\ Err(e).error = e
           /\ [ok |-> TRUE, frame |-> f].ok = TRUE /\ [ok |-> TRUE, frame |-> f].frame = f
  BY DEF Err

(* What decode returns is what encode was given.                              *)
LEMMA SplitEncodes ==
    ASSUME NEW S, NEW w \in Seq(S), Len(w) >= MinFrameLen
    PROVE  Encode(Split(w)) = w
<1> DEFINE h == HeaderLen
           e == Len(w) - TagLen
<1>1. h \in Nat /\ e \in Nat /\ 1 <= h /\ h <= e /\ e <= Len(w)
  OBVIOUS
<1> HIDE DEF h, e
<1>2. ((<<w[1]>> \o SubSeq(w, 2, h)) \o SubSeq(w, h + 1, e)) \o SubSeq(w, e + 1, Len(w)) = w
  BY <1>1, Pieces
<1> QED
  BY <1>2 DEF h, e, Split, Encode, BodyBytes

(* A legal frame on the wire.                                                 *)
LEMMA LegalWire ==
    ASSUME NEW f \in LegalFrames
    PROVE  /\ Encode(f) \in Seq(PlainBytes)
           /\ Len(Encode(f)) = MinFrameLen + Len(f.payload)
           /\ Len(f.payload) \in 0..MaxPayload
           /\ Encode(f)[1] = V1
<1>1. /\ f.version = V1 /\ f.nonce \in [1..NonceLen -> PlainBytes]
      /\ f.tag \in [1..TagLen -> PlainBytes]
      /\ f.payload \in PayloadsUpTo(MaxPayload)
  BY DEF LegalFrames
<1>2. PICK k \in 0..MaxPayload : f.payload \in [1..k -> PlainBytes]
  BY <1>1 DEF PayloadsUpTo
<1>3. f.nonce \in Seq(PlainBytes) /\ Len(f.nonce) = NonceLen
  BY <1>1
<1>4. f.tag \in Seq(PlainBytes) /\ Len(f.tag) = TagLen
  BY <1>1
<1>5. f.payload \in Seq(PlainBytes) /\ Len(f.payload) = k
  BY <1>2
<1>6. <<f.version>> \in Seq(PlainBytes) /\ Len(<<f.version>>) = 1 /\ <<f.version>>[1] = V1
  <2>1. f.version \in PlainBytes
    BY <1>1 DEF PlainBytes
  <2> QED
    BY <1>1, <2>1
<1> DEFINE a == <<f.version>> 
           b == a \o f.nonce
           c == b \o f.payload
           d == c \o f.tag
<1> HIDE DEF a
<1>7. b \in Seq(PlainBytes) /\ Len(b) = 1 + NonceLen /\ b[1] = V1
  BY <1>3, <1>6, ConcatFacts DEF a
<1> HIDE DEF b
<1>8. c \in Seq(PlainBytes) /\ Len(c) = 1 + NonceLen + k /\ c[1] = V1
  BY <1>5, <1>7, ConcatFacts
<1> HIDE DEF c
<1>9. d \in Seq(PlainBytes) /\ Len(d) = 1 + NonceLen + k + TagLen /\ d[1] = V1
  BY <1>4, <1>8, ConcatFacts
<1>10. d = Encode(f)
  BY DEF a, b, c, d, Encode, BodyBytes
<1> QED
  BY <1>5, <1>9, <1>10

(* A part of a byte string, by its length.                                    *)
LEMMA PartOf ==
    ASSUME NEW S, NEW w \in Seq(S), NEW i \in Nat, NEW j \in Nat,
           1 <= i, i <= j + 1, j <= Len(w)
    PROVE  /\ SubSeq(w, i, j) \in [1..((j - i) + 1) -> S]
           /\ SubSeq(w, i, j) \in Seq(S) /\ Len(SubSeq(w, i, j)) = (j - i) + 1
           /\ \A m \in 1..((j - i) + 1) : SubSeq(w, i, j)[m] = w[(i + m) - 1]
<1>1. \A m \in 1..Len(w) : w[m] \in S
  BY ElementOfSeq
<1>2. i \in Int /\ j \in Int /\ \A m \in i..j : w[m] \in S
  BY <1>1
<1>3. /\ SubSeq(w, i, j) \in Seq(S)
      /\ Len(SubSeq(w, i, j)) = IF i <= j THEN j - i + 1 ELSE 0
      /\ \A m \in 1..(j - i + 1) : SubSeq(w, i, j)[m] = w[i + m - 1]
  BY <1>2, SubSeqProperties
<1>4. Len(SubSeq(w, i, j)) = (j - i) + 1
  BY <1>3
<1>5. SubSeq(w, i, j) \in [1..Len(SubSeq(w, i, j)) -> S]
  BY <1>3, LenProperties
<1>6. SubSeq(w, i, j) \in [1..((j - i) + 1) -> S]
  BY <1>4, <1>5
<1>7. \A m \in 1..((j - i) + 1) : SubSeq(w, i, j)[m] = w[(i + m) - 1]
  BY <1>3
<1> QED
  BY <1>3, <1>4, <1>6, <1>7

(* decode's slices of a long enough string are a frame of the right lengths.  *)
LEMMA SplitIsLegal ==
    ASSUME NEW w \in Seq(PlainBytes), w[1] = V1,
           Len(w) >= MinFrameLen, Len(w) <= MinFrameLen + MaxPayload
    PROVE  Split(w) \in LegalFrames
<1>1. Len(w) \in Nat /\ \A i \in 1..Len(w) : w[i] \in PlainBytes
  BY ElementOfSeq
<1> DEFINE n == SubSeq(w, 2, HeaderLen)
           p == SubSeq(w, HeaderLen + 1, Len(w) - TagLen)
           t == SubSeq(w, Len(w) - TagLen + 1, Len(w))
           k == Len(w) - MinFrameLen
<1>2. n \in [1..NonceLen -> PlainBytes]
  <2>1. 2 \in Nat /\ 1 <= 2 /\ HeaderLen \in Nat /\ 2 <= HeaderLen + 1 /\ HeaderLen <= Len(w)
    BY <1>1
  <2>2. (HeaderLen - 2) + 1 = NonceLen
    OBVIOUS
  <2>3. SubSeq(w, 2, HeaderLen) \in [1..((HeaderLen - 2) + 1) -> PlainBytes]
    BY <2>1, PartOf
  <2> QED
    BY <2>2, <2>3
<1>3. t \in [1..TagLen -> PlainBytes]
  <2> DEFINE i == Len(w) - TagLen + 1
             j == Len(w)
  <2>1. i \in Nat /\ 1 <= i /\ j \in Nat /\ i <= j + 1 /\ j <= Len(w)
    BY <1>1
  <2>2. (j - i) + 1 = TagLen
    BY <1>1
  <2> HIDE DEF i, j
  <2>3. SubSeq(w, i, j) \in [1..((j - i) + 1) -> PlainBytes]
    BY <2>1, PartOf
  <2> QED
    BY <2>2, <2>3 DEF i, j
<1>4. k \in 0..MaxPayload /\ p \in [1..k -> PlainBytes]
  <2> DEFINE i == HeaderLen + 1
             j == Len(w) - TagLen
  <2>1. /\ i \in Nat /\ 1 <= i /\ j \in Nat /\ i <= j + 1 /\ j <= Len(w)
        /\ k \in 0..MaxPayload
    BY <1>1
  <2>2. (j - i) + 1 = k
    BY <1>1
  <2> HIDE DEF i, j
  <2>3. SubSeq(w, i, j) \in [1..((j - i) + 1) -> PlainBytes]
    BY <2>1, PartOf
  <2> QED
    BY <2>1, <2>2, <2>3 DEF i, j
<1> HIDE DEF n, p, t, k
<1>5. p \in PayloadsUpTo(MaxPayload)
  BY <1>4 DEF PayloadsUpTo
<1> QED
  BY <1>2, <1>3, <1>5 DEF LegalFrames, Split, n, p, t

(* The shortest frame.                                                        *)
LEMMA EmptyFrame ==
    \E f \in LegalFrames : Len(Encode(f)) = MinFrameLen
<1> DEFINE f == [version |-> V1, nonce |-> [i \in 1..NonceLen |-> V1], payload |-> <<>>,
                 tag |-> [i \in 1..TagLen |-> V1]]
<1>1. V1 \in PlainBytes
  BY DEF PlainBytes
<1>2. <<>> \in PayloadsUpTo(MaxPayload)
  <2>1. <<>> \in [1..0 -> PlainBytes] /\ 0 \in 0..MaxPayload
    OBVIOUS
  <2> QED
    BY <2>1 DEF PayloadsUpTo
<1>3. f \in LegalFrames
  BY <1>1, <1>2 DEF LegalFrames
<1>4. Len(f.payload) = 0
  OBVIOUS
<1> HIDE DEF f
<1>5. Len(Encode(f)) = MinFrameLen + Len(f.payload)
  BY <1>3, LegalWire, Zenon
<1> QED
  BY <1>3, <1>4, <1>5

(* decode accepts exactly the encodings and returns what was encoded.         *)
LEMMA DecodeIsInverse ==
    ASSUME wire \in Seq(PlainBytes)
    PROVE  DecodeInvertsEncode
<1> DEFINE r == Decode(wire)
           made == \E f \in LegalFrames : Encode(f) = wire
           short == \A f \in LegalFrames : Len(wire) < Len(Encode(f))
<1> SUFFICES ASSUME wire # <<>>
             PROVE  /\ r.ok <=> made
                    /\ r.ok => Encode(r.frame) = wire /\ BodyBytes(r.frame) \o r.frame.tag = wire
                    /\ (~r.ok /\ r.error = "TooShort") <=> short
                    /\ (~r.ok /\ r.error = "BadLength") <=>
                          Len(wire) > MinFrameLen + MaxPayload /\ Head(wire) = V1
  BY DEF DecodeInvertsEncode
<1>1. Head(wire) = wire[1] /\ Len(wire) \in Nat \ {0}
  OBVIOUS
<1>2. ASSUME NEW f \in LegalFrames
      PROVE  Len(Encode(f)) \in MinFrameLen..(MinFrameLen + MaxPayload) /\ Encode(f)[1] = V1
  <2>1. /\ Len(Encode(f)) = MinFrameLen + Len(f.payload)
        /\ Len(f.payload) \in 0..MaxPayload /\ Encode(f)[1] = V1
    BY LegalWire, Zenon
  <2> DEFINE l == Len(Encode(f))
             k == Len(f.payload)
  <2>2. l = MinFrameLen + k /\ k \in 0..MaxPayload
    BY <2>1
  <2> HIDE DEF l, k
  <2>3. l \in MinFrameLen..(MinFrameLen + MaxPayload)
    BY <2>2
  <2> QED
    BY <2>1, <2>3 DEF l
<1>3. PICK f0 \in LegalFrames : Len(Encode(f0)) = MinFrameLen
  BY EmptyFrame
<1>4. CASE Len(wire) < MinFrameLen
  <2>1. r = Err("TooShort")
    BY <1>4, DecodeCases
  <2>2. r.ok = FALSE /\ r.error = "TooShort"
    BY <2>1, ErrFacts
  <2>3. \A f \in LegalFrames : Len(wire) < Len(Encode(f))
    BY <1>1, <1>2, <1>4
  <2>4. ASSUME NEW f \in LegalFrames PROVE Encode(f) # wire
    BY <1>1, <1>4, <2>3
  <2>5. ~made /\ short
    BY <2>3, <2>4
  <2>6. ~(Len(wire) > MinFrameLen + MaxPayload)
    BY <1>1, <1>4
  <2> HIDE DEF r, made, short
  <2> QED
    BY <2>2, <2>5, <2>6
<1>5. CASE Len(wire) >= MinFrameLen /\ wire[1] # V1
  <2>1. r = Err("BadVersion")
    BY <1>5, DecodeCases
  <2>2. r.ok = FALSE /\ r.error = "BadVersion"
    BY <2>1, ErrFacts
  <2>3. ~(Len(wire) < Len(Encode(f0)))
    BY <1>1, <1>3, <1>5
  <2>4. ~made /\ ~short
    BY <1>2, <1>3, <1>5, <2>3
  <2> HIDE DEF r, made, short
  <2> QED
    BY <1>1, <1>5, <2>2, <2>4
<1>6. CASE Len(wire) > MinFrameLen + MaxPayload /\ wire[1] = V1
  <2>1. r = Err("BadLength")
    BY <1>1, <1>6, DecodeCases
  <2>2. r.ok = FALSE /\ r.error = "BadLength"
    BY <2>1, ErrFacts
  <2>3. ~(Len(wire) < Len(Encode(f0)))
    BY <1>1, <1>3, <1>6
  <2>4. ASSUME NEW f \in LegalFrames PROVE Encode(f) # wire
    BY <1>1, <1>2, <1>6
  <2>5. ~made /\ ~short
    BY <1>3, <2>3, <2>4
  <2> HIDE DEF r, made, short
  <2> QED
    BY <1>1, <1>6, <2>2, <2>5
<1>7. CASE Len(wire) >= MinFrameLen /\ Len(wire) <= MinFrameLen + MaxPayload /\ wire[1] = V1
  <2>1. r = [ok |-> TRUE, frame |-> Split(wire)]
    BY <1>7, DecodeCases
  <2>2. r.ok = TRUE /\ r.frame = Split(wire)
    BY <2>1, ErrFacts
  <2>3. Split(wire) \in LegalFrames /\ Encode(Split(wire)) = wire
    BY <1>7, SplitIsLegal, SplitEncodes
  <2>4. ~(Len(wire) < Len(Encode(f0)))
    BY <1>1, <1>3, <1>7
  <2>5. made /\ ~short
    BY <1>3, <2>3, <2>4
  <2> HIDE DEF r, made, short
  <2>6. Encode(r.frame) = wire /\ BodyBytes(r.frame) \o r.frame.tag = wire
    BY <2>2, <2>3 DEF Encode
  <2> QED
    BY <1>1, <1>7, <2>2, <2>5, <2>6
<1> HIDE DEF r, made, short
<1>8. \/ Len(wire) < MinFrameLen
      \/ Len(wire) >= MinFrameLen /\ wire[1] # V1
      \/ Len(wire) > MinFrameLen + MaxPayload /\ wire[1] = V1
      \/ Len(wire) >= MinFrameLen /\ Len(wire) <= MinFrameLen + MaxPayload /\ wire[1] = V1
  BY <1>1
<1> QED
  BY <1>4, <1>5, <1>6, <1>7, <1>8, Zenon

-----------------------------------------------------------------------------
(* Reassembly.                                                                *)

(* Induction from k up to n, for a set in the place of a predicate.           *)
LEMMA SetInduction ==
    ASSUME NEW k \in Nat, NEW n \in Nat, NEW T, k \in T,
           \A i \in k..(n - 1) : i \in T => i + 1 \in T
    PROVE  \A i \in k..n : i \in T
<1> DEFINE B == {i \in k..n : i \notin T}
<1>1. SUFFICES ASSUME B # {} PROVE FALSE
  OBVIOUS
<1>2. B \in SUBSET Nat
  OBVIOUS
<1>3. PICK m \in B : \A j \in B : m <= j
  BY <1>1, <1>2, LeastIndex
<1>4. m \in k..n /\ m \notin T /\ m # k
  BY <1>3
<1>5. m - 1 \in k..(n - 1) /\ ~(m <= m - 1)
  BY <1>4
<1>6. m - 1 \in T
  BY <1>3, <1>5
<1>7. (m - 1) + 1 = m
  BY <1>4
<1> QED
  BY <1>4, <1>5, <1>6, <1>7

(* What FlattenSeq builds: f[i] is the first i parts put together.            *)
Flattens(s, n, f) ==
    f = [i \in 1..n |-> IF i = 1 THEN s[i] ELSE f[i - 1] \o s[i]]

(* The function that concatenates the first parts exists, for any number of   *)
(* parts.                                                                     *)
LEMMA FlattensExists ==
    ASSUME NEW n \in Nat, NEW s
    PROVE  \E f : Flattens(s, n, f)
<1> DEFINE T == {i \in Nat : \E f : Flattens(s, i, f)}
<1>1. 0 \in T
  <2>1. Flattens(s, 0, <<>>)
    BY DEF Flattens
  <2> QED
    BY <2>1
<1>2. ASSUME NEW i \in 0..(n - 1), i \in T PROVE i + 1 \in T
  <2>1. PICK f : Flattens(s, i, f)
    BY <1>2
  <2> DEFINE g == [j \in 1..(i + 1) |-> IF j <= i THEN f[j]
                       ELSE IF j = 1 THEN s[j] ELSE f[j - 1] \o s[j]]
             h == [j \in 1..(i + 1) |-> IF j = 1 THEN s[j] ELSE g[j - 1] \o s[j]]
  <2>2. ASSUME NEW j \in 1..(i + 1) PROVE g[j] = h[j]
    <3>1. CASE j <= i
      <4>1. j \in 1..i /\ g[j] = f[j]
        BY <3>1
      <4>2. f[j] = IF j = 1 THEN s[j] ELSE f[j - 1] \o s[j]
        BY <2>1, <4>1 DEF Flattens
      <4>3. j # 1 => g[j - 1] = f[j - 1]
        BY <3>1
      <4> QED
        BY <4>1, <4>2, <4>3
    <3>2. CASE ~(j <= i)
      <4>1. j # 1 => g[j - 1] = f[j - 1]
        BY <3>2
      <4>2. g[j] = IF j = 1 THEN s[j] ELSE f[j - 1] \o s[j]
        BY <3>2
      <4> QED
        BY <4>1, <4>2
    <3> QED
      BY <3>1, <3>2
  <2>3. g = [j \in 1..(i + 1) |-> g[j]] /\ h = [j \in 1..(i + 1) |-> h[j]]
    OBVIOUS
  <2> HIDE DEF g, h
  <2>4. g = h
    BY <2>2, <2>3, Zenon
  <2>5. Flattens(s, i + 1, g)
    BY <2>4 DEF Flattens, h
  <2> QED
    BY <2>5
<1> HIDE DEF T
<1>3. \A i \in 0..n : i \in T
  BY <1>1, <1>2, SetInduction
<1>4. n \in T
  BY <1>3
<1> QED
  BY <1>4 DEF T

(* FlattenSeq is that function at its end.                                    *)
LEMMA FlattenSeqIs ==
    ASSUME NEW S, NEW s \in Seq(S), s # <<>>
    PROVE  \E f : Flattens(s, Len(s), f) /\ FlattenSeq(s) = f[Len(s)]
<1> DEFINE f == CHOOSE g : Flattens(s, Len(s), g)
<1>1. Len(s) \in Nat \ {0}
  OBVIOUS
<1>2. Flattens(s, Len(s), f)
  BY <1>1, FlattensExists
<1>3. FlattenSeq(s) = f[Len(s)]
  BY <1>1 DEF FlattenSeq, Flattens
<1> QED
  BY <1>2, <1>3

(* Putting parts together: each part is found again between where the parts   *)
(* before it end and where it ends.                                           *)
LEMMA FlattenedParts ==
    ASSUME NEW S, NEW s \in Seq(Seq(S)), s # <<>>
    PROVE  \E ends \in [1..Len(s) -> 0..Len(FlattenSeq(s))] :
              /\ FlattenSeq(s) \in Seq(S)
              /\ \A i \in 1..(Len(s) - 1) : ends[i] <= ends[i + 1]
              /\ ends[Len(s)] = Len(FlattenSeq(s))
              /\ \A i \in 1..Len(s) :
                    SubSeq(FlattenSeq(s), IF i = 1 THEN 1 ELSE ends[i - 1] + 1, ends[i]) = s[i]
<1> DEFINE n == Len(s)
           all == FlattenSeq(s)
<1>1. n \in Nat \ {0} /\ \A i \in 1..n : s[i] \in Seq(S)
  BY ElementOfSeq
<1>2. PICK f : Flattens(s, n, f) /\ all = f[n]
  BY FlattenSeqIs
<1> HIDE DEF n, all
<1>3. f[1] = s[1] /\ \A i \in 1..(n - 1) : f[i + 1] = f[i] \o s[i + 1]
  <2>1. f[1] = s[1]
    BY <1>1, <1>2 DEF Flattens
  <2>2. ASSUME NEW i \in 1..(n - 1) PROVE f[i + 1] = f[i] \o s[i + 1]
    <3>1. i + 1 \in 1..n /\ i + 1 # 1 /\ (i + 1) - 1 = i
      BY <1>1
    <3>2. f[i + 1] = f[(i + 1) - 1] \o s[i + 1]
      BY <1>2, <3>1 DEF Flattens
    <3> QED
      BY <3>1, <3>2
  <2> QED
    BY <2>1, <2>2
<1>4. \A i \in 1..n : f[i] \in Seq(S)
  <2> DEFINE T == {i \in Nat : f[i] \in Seq(S)}
  <2>1. 1 \in T
    BY <1>1, <1>3
  <2>2. ASSUME NEW i \in 1..(n - 1), i \in T PROVE i + 1 \in T
    <3>1. s[i + 1] \in Seq(S) /\ i \in Nat
      BY <1>1
    <3>2. f[i] \o s[i + 1] \in Seq(S)
      BY <2>2, <3>1, ConcatProperties
    <3>3. f[i + 1] = f[i] \o s[i + 1] /\ i + 1 \in Nat
      <4>1. i + 1 \in Nat
        BY <3>1
      <4> QED
        BY <1>3, <4>1, Zenon
    <3>4. f[i + 1] \in Seq(S)
      BY <3>2, <3>3, Zenon
    <3> QED
      BY <3>3, <3>4, Zenon
  <2> HIDE DEF T
  <2>3. \A i \in 1..n : i \in T
    BY <1>1, <2>1, <2>2, SetInduction
  <2> QED
    BY <2>3 DEF T
<1>5. ASSUME NEW i \in 1..(n - 1)
      PROVE  /\ Len(f[i + 1]) = Len(f[i]) + Len(s[i + 1])
             /\ \A m \in 1..Len(f[i]) : f[i + 1][m] = f[i][m]
             /\ \A m \in 1..Len(s[i + 1]) : f[i + 1][Len(f[i]) + m] = s[i + 1][m]
  <2>0. i \in 1..n /\ i + 1 \in 1..n
    BY <1>1
  <2>1. f[i] \in Seq(S) /\ s[i + 1] \in Seq(S) /\ f[i + 1] = f[i] \o s[i + 1]
    BY <1>1, <1>3, <1>4, <2>0, Zenon
  <2> DEFINE a == f[i]
             b == s[i + 1]
  <2>2. a \in Seq(S) /\ b \in Seq(S)
    BY <2>1
  <2> HIDE DEF a, b
  <2>3. /\ Len(a \o b) = Len(a) + Len(b)
        /\ \A m \in 1..Len(a) : (a \o b)[m] = a[m]
        /\ \A m \in 1..Len(b) : (a \o b)[Len(a) + m] = b[m]
    BY <2>2
  <2> QED
    BY <2>1, <2>3 DEF a, b
<1>6. ASSUME NEW j \in 1..n
      PROVE  Len(f[j]) \in 0..Len(all) /\ \A m \in 1..Len(f[j]) : all[m] = f[j][m]
  <2> DEFINE T == {i \in 1..n : Len(f[j]) <= Len(f[i]) /\ \A m \in 1..Len(f[j]) : f[i][m] = f[j][m]}
  <2>0. \A i \in 1..n : Len(f[i]) \in Nat
    BY <1>4
  <2>1. j \in T
    BY <2>0
  <2>2. ASSUME NEW i \in j..(n - 1), i \in T PROVE i + 1 \in T
    <3>1. i \in 1..(n - 1) /\ i + 1 \in 1..n
      BY <1>1
    <3>2. Len(s[i + 1]) \in Nat /\ Len(f[i]) \in Nat /\ Len(f[j]) \in Nat
      BY <1>1, <2>0, <3>1
    <3>3. Len(f[j]) <= Len(f[i + 1])
      <4>1. Len(f[i + 1]) = Len(f[i]) + Len(s[i + 1])
        BY <1>5, <3>1, Zenon
      <4>2. Len(f[j]) <= Len(f[i])
        BY <2>2
      <4> DEFINE x == Len(f[i + 1])
                 y == Len(f[i])
                 z == Len(s[i + 1])
                 v == Len(f[j])
      <4>3. x = y + z /\ v <= y /\ y \in Nat /\ z \in Nat /\ v \in Nat
        BY <3>2, <4>1, <4>2, Zenon
      <4> HIDE DEF x, y, z, v
      <4>4. v <= x
        BY <4>3
      <4> QED
        BY <4>4 DEF v, x
    <3>4. \A m \in 1..Len(f[j]) : m \in 1..Len(f[i])
      BY <2>2, <3>2
    <3>5. \A m \in 1..Len(f[j]) : f[i + 1][m] = f[j][m]
      BY <1>5, <2>2, <3>1, <3>4
    <3> QED
      BY <3>1, <3>3, <3>5
  <2> HIDE DEF T
  <2>3. j \in Nat /\ n \in j..n
    BY <1>1
  <2>4. n \in T
    BY <1>1, <2>1, <2>2, <2>3, SetInduction
  <2> QED
    BY <1>1, <1>2, <2>0, <2>4 DEF T
<1> DEFINE ends == [i \in 1..n |-> Len(f[i])]
<1>7. all \in Seq(S) /\ ends \in [1..n -> 0..Len(all)] /\ ends[n] = Len(all)
  BY <1>1, <1>2, <1>4, <1>6
<1>8. \A i \in 1..(n - 1) : ends[i] <= ends[i + 1]
  <2> SUFFICES ASSUME NEW i \in 1..(n - 1) PROVE ends[i] <= ends[i + 1]
    OBVIOUS
  <2>1. i \in 1..n /\ i + 1 \in 1..n
    BY <1>1
  <2>2. Len(f[i]) \in Nat /\ Len(s[i + 1]) \in Nat
    BY <1>1, <1>4, <2>1
  <2>3. Len(f[i + 1]) = Len(f[i]) + Len(s[i + 1])
    BY <1>5
  <2>4. Len(f[i]) <= Len(f[i + 1])
    <3> DEFINE x == Len(f[i + 1])
               y == Len(f[i])
               z == Len(s[i + 1])
    <3>1. x = y + z /\ y \in Nat /\ z \in Nat
      BY <2>2, <2>3, Zenon
    <3> HIDE DEF x, y, z
    <3>2. y <= x
      BY <3>1
    <3> QED
      BY <3>2 DEF x, y
  <2>5. ends[i] = Len(f[i]) /\ ends[i + 1] = Len(f[i + 1])
    BY <2>1
  <2> QED
    BY <2>4, <2>5, Zenon
<1>9. ASSUME NEW i \in 1..n
      PROVE  SubSeq(all, IF i = 1 THEN 1 ELSE ends[i - 1] + 1, ends[i]) = s[i]
  <2> DEFINE b == IF i = 1 THEN 0 ELSE Len(f[i - 1])
             e == Len(f[i])
             t == s[i]
  <2>1. t \in Seq(S) /\ e \in 0..Len(all)
    BY <1>1, <1>6
  <2>2. b \in Nat /\ e = b + Len(t) /\ \A m \in 1..Len(t) : f[i][b + m] = t[m]
    <3>1. CASE i = 1
      BY <1>3, <2>1, <3>1
    <3>2. CASE i # 1
      <4>1. i - 1 \in 1..(n - 1) /\ (i - 1) + 1 = i /\ i - 1 \in 1..n
        BY <1>1, <3>2
      <4>2. Len(f[i - 1]) \in Nat
        BY <1>4, <4>1
      <4>3. /\ Len(f[i]) = Len(f[i - 1]) + Len(s[i])
            /\ \A m \in 1..Len(s[i]) : f[i][Len(f[i - 1]) + m] = s[i][m]
        <5> DEFINE k == i - 1
        <5>1. k \in 1..(n - 1) /\ k + 1 = i
          BY <4>1
        <5> HIDE DEF k
        <5>2. /\ Len(f[k + 1]) = Len(f[k]) + Len(s[k + 1])
              /\ \A m \in 1..Len(s[k + 1]) : f[k + 1][Len(f[k]) + m] = s[k + 1][m]
          BY <1>5, <5>1, Zenon
        <5>3. /\ Len(f[i]) = Len(f[k]) + Len(s[i])
              /\ \A m \in 1..Len(s[i]) : f[i][Len(f[k]) + m] = s[i][m]
          BY <5>1, <5>2, Zenon
        <5> QED
          BY <5>3 DEF k
      <4> QED
        BY <3>2, <4>2, <4>3
    <3> QED
      BY <3>1, <3>2
  <2>3. \A m \in 1..e : all[m] = f[i][m]
    BY <1>6
  <2>4. (IF i = 1 THEN 1 ELSE ends[i - 1] + 1) = b + 1 /\ ends[i] = e
    <3>1. i # 1 => i - 1 \in 1..n
      BY <1>1
    <3> QED
      BY <3>1
  <2> HIDE DEF b, e, t
  <2> DEFINE u == SubSeq(all, b + 1, e)
  <2>5. b + 1 \in Nat /\ e \in Nat /\ 1 <= b + 1 /\ b + 1 <= e + 1 /\ e <= Len(all)
        /\ (e - (b + 1)) + 1 = Len(t) /\ Len(t) \in Nat
    <3>1. Len(t) \in Nat /\ Len(all) \in Nat
      BY <1>7, <2>1
    <3> QED
      BY <2>1, <2>2, <3>1
  <2>6. /\ u \in Seq(S) /\ Len(u) = Len(t)
        /\ \A m \in 1..Len(t) : u[m] = all[((b + 1) + m) - 1]
    <3> DEFINE lo == b + 1
    <3>1. lo \in Nat /\ e \in Nat /\ 1 <= lo /\ lo <= e + 1 /\ e <= Len(all)
      BY <2>5
    <3> HIDE DEF lo
    <3>2. /\ SubSeq(all, lo, e) \in Seq(S) /\ Len(SubSeq(all, lo, e)) = (e - lo) + 1
          /\ \A m \in 1..((e - lo) + 1) : SubSeq(all, lo, e)[m] = all[(lo + m) - 1]
      BY <1>7, <3>1, PartOf
    <3> QED
      BY <2>5, <3>2, Zenon DEF lo
  <2>7. ASSUME NEW m \in 1..Len(t) PROVE u[m] = t[m]
    <3>1. ((b + 1) + m) - 1 = b + m /\ b + m \in 1..e
      BY <2>2, <2>5
    <3> HIDE DEF u
    <3> QED
      BY <2>2, <2>3, <2>6, <3>1
  <2> HIDE DEF u
  <2>8. u = t
    BY <2>1, <2>6, <2>7, SeqEqual
  <2> QED
    BY <2>4, <2>8 DEF u, t
<1> HIDE DEF ends
<1> QED
  BY <1>7, <1>8, <1>9 DEF n, all

(* A segment is empty, or has a header that is one of two bytes.              *)
SegmentBytes == {Raw("more"), Raw("last"), Raw(0), V1}
Headed(s) == s \in Seq(SegmentBytes) /\ s # <<>> /\ s[1] \in {Raw("more"), Raw("last")}

(* Every segment that can arrive is one of these.                             *)
LEMMA SegmentShape ==
    ASSUME NEW s \in Segment
    PROVE  s = <<>> \/ Headed(s)
<1> SUFFICES ASSUME s # <<>> PROVE Headed(s)
  OBVIOUS
<1>1. PICK h \in {"more", "last"}, t \in {<<>>, <<Raw(0)>>, <<V1>>} : s = <<Raw(h)>> \o t
  BY DEF Segment
<1> DEFINE B == SegmentBytes
<1>2. Raw(h) \in B /\ Raw(0) \in B /\ V1 \in B /\ Raw(h) \in {Raw("more"), Raw("last")}
  BY DEF SegmentBytes
<1> HIDE DEF B
<1>3. <<Raw(h)>> \in Seq(B) /\ t \in Seq(B) /\ Len(<<Raw(h)>>) = 1
  <2>1. <<Raw(h)>> \in Seq(B) /\ Len(<<Raw(h)>>) = 1
    BY <1>2
  <2>2. <<>> \in Seq(B) /\ <<Raw(0)>> \in Seq(B) /\ <<V1>> \in Seq(B)
    BY <1>2
  <2>3. t = <<>> \/ t = <<Raw(0)>> \/ t = <<V1>>
    BY <1>1
  <2> QED
    BY <2>1, <2>2, <2>3, Zenon
<1>4. /\ <<Raw(h)>> \o t \in Seq(B)
      /\ (<<Raw(h)>> \o t)[1] = Raw(h)
  BY <1>3, ConcatFacts
<1> QED
  BY <1>1, <1>2, <1>4 DEF B, Headed

(* A segment with a header is that byte and its payload.                      *)
LEMMA HeaderAndRest ==
    ASSUME NEW S, NEW s \in Seq(S), s # <<>>
    PROVE  Tail(s) \in Seq(S) /\ <<s[1]>> \o Tail(s) = s
<1>1. Len(s) \in Nat \ {0} /\ s[1] \in S
  BY EmptySeq, ElementOfSeq
<1>2. Tail(s) = SubSeq(s, 2, Len(s)) /\ Tail(s) \in Seq(S)
  BY TailIsSubSeq, HeadTailProperties
<1>3. SubSeq(s, 1, Len(s)) = <<s[1]>> \o SubSeq(s, 2, Len(s))
  <2>1. 1 \in 1..Len(s) /\ Len(s) \in 1..Len(s) /\ 1 + 1 = 2
    BY <1>1
  <2>2. SubSeq(s, 1, Len(s)) = <<s[1]>> \o SubSeq(s, 1 + 1, Len(s))
    BY <2>1, SubSeqRecursiveFirst
  <2> QED
    BY <2>1, <2>2
<1> QED
  BY <1>2, <1>3, SubSeqFull

(* The header byte in front, then the rest.                                   *)
LEMMA HeaderInFront ==
    ASSUME NEW S, NEW t \in Seq(S), NEW b
    PROVE  <<b>> \o t # <<>> /\ (<<b>> \o t)[1] = b
<1> DEFINE B == S \cup {b}
<1>1. t \in Seq(B)
  BY SeqMonotonic
<1>2. b \in B
  OBVIOUS
<1> HIDE DEF B
<1>3. <<b>> \in Seq(B) /\ Len(<<b>>) = 1
  BY <1>2
<1>4. /\ (<<b>> \o t) \in Seq(B) /\ Len(<<b>> \o t) = 1 + Len(t) /\ Len(t) \in Nat
      /\ (<<b>> \o t)[1] = b
  BY <1>1, <1>3, ConcatFacts
<1> QED
  BY <1>4

(* Every segment has its header, and only the last says that none follows.    *)
WellHeaded ==
    /\ segments # <<>>
    /\ \A i \in DOMAIN segments :
          segments[i] # <<>> /\ (segments[i][1] = Raw("more") <=> i # Len(segments))

(* When reassemble accepts, and that it then joins the payloads.              *)
LEMMA ReassembleCases ==
    /\ WellHeaded => Reassemble(segments) =
          [ok |-> TRUE, bytes |-> FlattenSeq([i \in DOMAIN segments |-> Tail(segments[i])])]
    /\ ~WellHeaded => Reassemble(segments) = Err("IncompleteReassembly")
<1> DEFINE bad == \E i \in DOMAIN segments :
              \/ segments[i] = <<>>
              \/ (i = Len(segments)) = (segments[i][1] = Raw("more"))
<1>1. WellHeaded <=> segments # <<>> /\ ~bad
  BY DEF WellHeaded
<1>2. Reassemble(segments) =
        IF segments = <<>> THEN Err("IncompleteReassembly")
        ELSE IF bad THEN Err("IncompleteReassembly")
        ELSE [ok |-> TRUE, bytes |-> FlattenSeq([i \in DOMAIN segments |-> Tail(segments[i])])]
  BY Zenon DEF Reassemble
<1> HIDE DEF bad
<1> QED
  BY <1>1, <1>2

(* reassemble undoes cutting and accepts nothing that no cutting produces.    *)
LEMMA ReassembleIsInverse ==
    ASSUME segments \in Seq(Segment)
    PROVE  ReassembleInvertsCut
<1> DEFINE r == Reassemble(segments)
           n == Len(segments)
           parts == [i \in DOMAIN segments |->
                        IF segments[i] = <<>> THEN <<>> ELSE Tail(segments[i])]
           all == FlattenSeq(parts)
           Fits(ends) == /\ \A i \in 1..(n - 1) : ends[i] <= ends[i + 1]
                         /\ ends[n] = Len(all)
                         /\ Cut(all, ends) = segments
           cuts == n > 0 /\ \E ends \in [1..n -> 0..Len(all)] : Fits(ends)
<1> SUFFICES (r.ok <=> cuts) /\ (r.ok => r.bytes = all)
  BY DEF ReassembleInvertsCut
<1>1. /\ n \in Nat /\ DOMAIN segments = 1..n /\ (segments # <<>> <=> n > 0)
      /\ segments = [i \in 1..n |-> segments[i]]
  BY LenProperties
<1>2. \A i \in 1..n : segments[i] = <<>> \/ Headed(segments[i])
  <2>1. \A i \in 1..n : segments[i] \in Segment
    BY ElementOfSeq
  <2> QED
    BY <2>1, SegmentShape
<1>3. parts \in Seq(Seq(SegmentBytes)) /\ Len(parts) = n
  <2>1. \A i \in 1..n : parts[i] \in Seq(SegmentBytes)
    BY <1>1, <1>2, HeaderAndRest, EmptySeq DEF Headed
  <2>2. parts \in [1..n -> Seq(SegmentBytes)]
    BY <1>1, <2>1
  <2> HIDE DEF parts
  <2> QED
    BY <1>1, <2>2
<1>4. ASSUME WellHeaded PROVE r.ok = TRUE /\ r.bytes = all /\ cuts
  <2>1. r.ok = TRUE /\ r.bytes = FlattenSeq([i \in DOMAIN segments |-> Tail(segments[i])])
    <3>1. r = [ok |-> TRUE, bytes |-> FlattenSeq([i \in DOMAIN segments |-> Tail(segments[i])])]
      BY <1>4, ReassembleCases
    <3> QED
      BY <3>1
  <2>2. parts = [i \in DOMAIN segments |-> Tail(segments[i])]
    BY <1>4 DEF WellHeaded
  <2>3. n > 0 /\ parts # <<>>
    BY <1>1, <1>3, <1>4 DEF WellHeaded
  <2>4. \A i \in 1..n : Headed(segments[i]) /\ parts[i] = Tail(segments[i])
    BY <1>1, <1>2, <1>4 DEF WellHeaded
  <2> HIDE DEF parts
  <2>5. PICK ends \in [1..n -> 0..Len(all)] :
              /\ all \in Seq(SegmentBytes)
              /\ \A i \in 1..(n - 1) : ends[i] <= ends[i + 1]
              /\ ends[n] = Len(all)
              /\ \A i \in 1..n :
                    SubSeq(all, IF i = 1 THEN 1 ELSE ends[i - 1] + 1, ends[i]) = parts[i]
    <3> DEFINE k == Len(parts)
    <3>1. \E ends \in [1..k -> 0..Len(all)] :
              /\ all \in Seq(SegmentBytes)
              /\ \A i \in 1..(k - 1) : ends[i] <= ends[i + 1]
              /\ ends[k] = Len(all)
              /\ \A i \in 1..k :
                    SubSeq(all, IF i = 1 THEN 1 ELSE ends[i - 1] + 1, ends[i]) = parts[i]
      BY <1>3, <2>3, FlattenedParts, Zenon
    <3>2. k = n
      BY <1>3
    <3> HIDE DEF k, all, n
    <3> QED
      BY <3>1, <3>2
  <2>6. Len(ends) = n /\ DOMAIN ends = 1..n
    BY <1>1, <2>5
  <2>7. ASSUME NEW i \in 1..n PROVE Cut(all, ends)[i] = segments[i]
    <3>1. Cut(all, ends)[i] = <<Raw(IF i = n THEN "last" ELSE "more")>> \o parts[i]
      BY <2>5, <2>6, Zenon DEF Cut
    <3>2. segments[i][1] = Raw(IF i = n THEN "last" ELSE "more")
      BY <1>1, <1>4, <2>4 DEF WellHeaded, Headed
    <3>3. <<segments[i][1]>> \o Tail(segments[i]) = segments[i]
      BY <2>4, HeaderAndRest DEF Headed
    <3> QED
      BY <2>4, <3>1, <3>2, <3>3, Zenon
  <2>8. Cut(all, ends) = segments
    <3>1. Cut(all, ends) = [i \in 1..n |-> Cut(all, ends)[i]]
      BY <2>6 DEF Cut
    <3> QED
      BY <1>1, <2>7, <3>1
  <2>9. Fits(ends)
    BY <2>5, <2>8
  <2> HIDE DEF Fits
  <2>10. cuts
    BY <2>3, <2>5, <2>9
  <2> QED
    BY <2>1, <2>2, <2>10
<1>5. ASSUME cuts PROVE WellHeaded
  <2>1. PICK ends \in [1..n -> 0..Len(all)] : Fits(ends)
    BY <1>5
  <2>2. n > 0 /\ Len(ends) = n /\ DOMAIN ends = 1..n /\ Cut(all, ends) = segments
    BY <1>1, <1>5, <2>1
  <2>3. all \in Seq(SegmentBytes)
    <3>0. n > 0
      BY <1>5
    <3> HIDE DEF parts, n
    <3>1. parts # <<>>
      BY <1>3, <3>0
    <3> QED
      BY <1>3, <3>1, FlattenedParts
  <2>4. ASSUME NEW i \in 1..n
        PROVE  segments[i] # <<>> /\ segments[i][1] = Raw(IF i = n THEN "last" ELSE "more")
    <3> DEFINE a == IF i = 1 THEN 1 ELSE ends[i - 1] + 1
               b == Raw(IF i = n THEN "last" ELSE "more")
               t == SubSeq(all, a, ends[i])
    <3>1. segments[i] = <<b>> \o t
      BY <2>2, Zenon DEF Cut
    <3>2. a \in Nat /\ 1 <= a /\ ends[i] \in Nat /\ ends[i] <= Len(all)
      <4>1. i # 1 => i - 1 \in 1..n
        BY <1>1
      <4>2. Len(all) \in Nat
        BY <2>3
      <4> HIDE DEF all
      <4> QED
        BY <4>1, <4>2
    <3> HIDE DEF a, b, all
    <3>3. t \in Seq(SegmentBytes)
      <4>1. \A m \in 1..Len(all) : all[m] \in SegmentBytes
        BY <2>3, ElementOfSeq
      <4>2. \A m \in a..ends[i] : all[m] \in SegmentBytes
        BY <3>2, <4>1, <2>3
      <4> QED
        BY <3>2, <4>2, SubSeqProperties
    <3> HIDE DEF t
    <3>4. <<b>> \o t # <<>> /\ (<<b>> \o t)[1] = b
      BY <3>3, HeaderInFront
    <3> QED
      BY <3>1, <3>4 DEF b
  <2>5. Raw("more") # Raw("last")
    BY DEF Raw
  <2> QED
    BY <1>1, <2>2, <2>4, <2>5 DEF WellHeaded
<1>6. ASSUME ~WellHeaded PROVE r.ok = FALSE
  BY <1>6, ReassembleCases, ErrFacts
<1> HIDE DEF r, cuts, all
<1> QED
  BY <1>4, <1>5, <1>6

-----------------------------------------------------------------------------
(* Invite.                                                                    *)

ScanStart == [host |-> Unset, pubkey |-> Unset, stop |-> FALSE]
Scans(n, f) == f = [i \in 0..n |-> IF i = 0 THEN ScanStart ELSE Step(f[i - 1], query[i])]

(* The parser's loop state after each pair exists, for any number of pairs.   *)
LEMMA ScansExists ==
    ASSUME NEW n \in Nat
    PROVE  \E f : Scans(n, f)
<1> DEFINE T == {i \in Nat : \E f : Scans(i, f)}
<1>1. 0 \in T
  <2> DEFINE g == [j \in 0..0 |-> ScanStart]
  <2>1. g = [j \in 0..0 |-> IF j = 0 THEN ScanStart ELSE Step(g[j - 1], query[j])]
    OBVIOUS
  <2>2. Scans(0, g)
    BY <2>1 DEF Scans
  <2> QED
    BY <2>2
<1>2. ASSUME NEW i \in 0..(n - 1), i \in T PROVE i + 1 \in T
  <2>1. PICK f : Scans(i, f)
    BY <1>2
  <2> DEFINE g == [j \in 0..(i + 1) |-> IF j <= i THEN f[j] ELSE Step(f[j - 1], query[j])]
             h == [j \in 0..(i + 1) |-> IF j = 0 THEN ScanStart ELSE Step(g[j - 1], query[j])]
  <2>2. ASSUME NEW j \in 0..(i + 1) PROVE g[j] = h[j]
    <3>1. j # 0 => g[j - 1] = f[j - 1]
      OBVIOUS
    <3>2. CASE j <= i
      <4>1. j \in 0..i /\ g[j] = f[j]
        BY <3>2
      <4>2. f[j] = IF j = 0 THEN ScanStart ELSE Step(f[j - 1], query[j])
        BY <2>1, <4>1 DEF Scans
      <4> QED
        BY <3>1, <4>1, <4>2
    <3>3. CASE ~(j <= i)
      <4>1. g[j] = Step(f[j - 1], query[j]) /\ j # 0
        BY <3>3
      <4> QED
        BY <3>1, <4>1
    <3> QED
      BY <3>2, <3>3
  <2>3. g = [j \in 0..(i + 1) |-> g[j]] /\ h = [j \in 0..(i + 1) |-> h[j]]
    OBVIOUS
  <2>4. g = h
    BY <2>2, <2>3
  <2>5. Scans(i + 1, g)
    BY <2>4 DEF Scans
  <2> QED
    BY <2>5
<1> HIDE DEF T
<1>3. \A i \in 0..n : i \in T
  BY <1>1, <1>2, SetInduction
<1>4. n \in T
  BY <1>3
<1> QED
  BY <1>4 DEF T

(* One turn of the parser's loop.                                             *)
LEMMA ScanSteps ==
    ASSUME query \in Seq(Pairs)
    PROVE  /\ Scan[0] = ScanStart
           /\ \A i \in 1..Len(query) : Scan[i] = Step(Scan[i - 1], query[i])
<1>1. Len(query) \in Nat
  OBVIOUS
<1>2. Scan = CHOOSE f : Scans(Len(query), f)
  BY DEF Scan, Scans, ScanStart
<1>3. Scans(Len(query), Scan)
  BY <1>1, <1>2, ScansExists
<1>4. Scan = [i \in 0..Len(query) |-> IF i = 0 THEN ScanStart ELSE Step(Scan[i - 1], query[i])]
  BY <1>3 DEF Scans
<1> HIDE DEF Scan
<1> QED
  BY <1>1, <1>4

(* The i-th pair is the last of the first n with its key, and has value v.    *)
LastIs(key, n, v) ==
    \E i \in 1..n : query[i] = <<key, v>> /\ \A j \in (i + 1)..n : query[j][1] # key
NoneOf(key, n) == \A i \in 1..n : query[i][1] # key

(* What the loop over the pairs knows after n of them.                        *)
Knows(n, a) ==
    /\ a \in [host : HostValues \cup {Unset}, pubkey : PubkeyValues \cup {Unset}, stop : BOOLEAN]
    /\ a.stop <=> \E i \in 1..n : query[i] = <<"host", "">>
    /\ ~a.stop =>
          /\ IF a.host = Unset THEN NoneOf("host", n) ELSE LastIs("host", n, a.host)
          /\ IF a.pubkey = Unset THEN NoneOf("pubkey", n) ELSE LastIs("pubkey", n, a.pubkey)

(* A pair with another key leaves the last value of a key as it was.          *)
LEMMA StillLast ==
    ASSUME NEW key, NEW n \in Nat
    PROVE  /\ query[n + 1][1] # key =>
                /\ NoneOf(key, n) => NoneOf(key, n + 1)
                /\ \A v : LastIs(key, n, v) => LastIs(key, n + 1, v)
           /\ \A v : query[n + 1] = <<key, v>> => LastIs(key, n + 1, v)
<1>1. ASSUME query[n + 1][1] # key, NoneOf(key, n) PROVE NoneOf(key, n + 1)
  <2>1. ASSUME NEW i \in 1..(n + 1) PROVE query[i][1] # key
    <3>1. i = n + 1 \/ i \in 1..n
      OBVIOUS
    <3> QED
      BY <1>1, <3>1 DEF NoneOf
  <2> QED
    BY <2>1 DEF NoneOf
<1>2. ASSUME query[n + 1][1] # key, NEW v, LastIs(key, n, v) PROVE LastIs(key, n + 1, v)
  <2>1. PICK i \in 1..n : query[i] = <<key, v>> /\ \A j \in (i + 1)..n : query[j][1] # key
    BY <1>2 DEF LastIs
  <2>2. ASSUME NEW j \in (i + 1)..(n + 1) PROVE query[j][1] # key
    <3>1. j = n + 1 \/ j \in (i + 1)..n
      OBVIOUS
    <3> QED
      BY <1>2, <2>1, <3>1
  <2>3. i \in 1..(n + 1)
    OBVIOUS
  <2> QED
    BY <2>1, <2>2, <2>3 DEF LastIs
<1>3. ASSUME NEW v, query[n + 1] = <<key, v>> PROVE LastIs(key, n + 1, v)
  <2>1. n + 1 \in 1..(n + 1) /\ \A j \in ((n + 1) + 1)..(n + 1) : query[j][1] # key
    OBVIOUS
  <2> QED
    BY <1>3, <2>1 DEF LastIs
<1> QED
  BY <1>1, <1>2, <1>3

(* The pairs of a query.                                                      *)
LEMMA PairShape ==
    ASSUME NEW q \in Pairs
    PROVE  \E k, v : /\ q = <<k, v>> /\ q[1] = k /\ q[2] = v
                     /\ \/ k = "host" /\ v \in HostValues
                        \/ k = "pubkey" /\ v \in PubkeyValues
                        \/ k \notin {"host", "pubkey"}
<1>1. CASE q \in {"host"} \X HostValues
  BY <1>1
<1>2. CASE q \in {"pubkey"} \X PubkeyValues
  BY <1>2
<1>3. CASE q = <<"other", "x">>
  BY <1>3
<1>4. CASE q = <<"", "">>
  <2>1. "" \notin {"host", "pubkey"}
    OBVIOUS
  <2>2. q[1] = "" /\ q[2] = ""
    BY <1>4
  <2> QED
    BY <1>4, <2>1, <2>2, Zenon
<1>5. \/ q \in {"host"} \X HostValues \/ q \in {"pubkey"} \X PubkeyValues
      \/ q = <<"other", "x">> \/ q = <<"", "">>
  BY Zenon DEF Pairs
<1> QED
  BY <1>1, <1>2, <1>3, <1>4, <1>5, Zenon

(* One turn of the loop keeps what is known of the last value of each key.    *)
LEMMA StepKnows ==
    ASSUME NEW n \in Nat, NEW a, NEW b, query[n + 1] \in Pairs, Knows(n, a),
           b = Step(a, query[n + 1])
    PROVE  Knows(n + 1, b)
<1> DEFINE q == query[n + 1]
           R == [host : HostValues \cup {Unset}, pubkey : PubkeyValues \cup {Unset}, stop : BOOLEAN]
           empty(m) == \E i \in 1..m : query[i] = <<"host", "">>
<1>1. a \in R /\ (a.stop <=> empty(n))
  BY DEF Knows
<1>2. empty(n + 1) <=> empty(n) \/ q = <<"host", "">>
  <2>1. \A i \in 1..(n + 1) : i = n + 1 \/ i \in 1..n
    OBVIOUS
  <2>2. n + 1 \in 1..(n + 1) /\ \A i \in 1..n : i \in 1..(n + 1)
    OBVIOUS
  <2> QED
    BY <2>1, <2>2
<1>3. PICK k, v : /\ q = <<k, v>> /\ q[1] = k /\ q[2] = v
                  /\ \/ k = "host" /\ v \in HostValues
                     \/ k = "pubkey" /\ v \in PubkeyValues
                     \/ k \notin {"host", "pubkey"}
  BY PairShape
<1>0. q = <<"host", "">> <=> k = "host" /\ v = ""
  BY <1>3
<1>9. b = IF a.stop \/ k \notin {"host", "pubkey"} THEN a
          ELSE IF k = "host" /\ v = "" THEN [a EXCEPT !.stop = TRUE]
          ELSE [a EXCEPT ![k] = v]
  BY <1>0, <1>3, Zenon DEF Step
<1>4. CASE a.stop
  <2>1. b = a
    BY <1>4, <1>9
  <2> QED
    BY <1>1, <1>2, <1>4, <2>1 DEF Knows
<1>5. CASE ~a.stop /\ k \notin {"host", "pubkey"}
  <2>1. b = a
    BY <1>5, <1>9
  <2>2. q # <<"host", "">> /\ q[1] # "host" /\ q[1] # "pubkey"
    BY <1>0, <1>3, <1>5
  <2>3. /\ IF a.host = Unset THEN NoneOf("host", n) ELSE LastIs("host", n, a.host)
        /\ IF a.pubkey = Unset THEN NoneOf("pubkey", n) ELSE LastIs("pubkey", n, a.pubkey)
    BY <1>5 DEF Knows
  <2>4. /\ IF a.host = Unset THEN NoneOf("host", n + 1) ELSE LastIs("host", n + 1, a.host)
        /\ IF a.pubkey = Unset THEN NoneOf("pubkey", n + 1) ELSE LastIs("pubkey", n + 1, a.pubkey)
    BY <2>2, <2>3, StillLast
  <2> QED
    BY <1>1, <1>2, <1>5, <2>1, <2>2, <2>4 DEF Knows
<1>6. CASE ~a.stop /\ k = "host" /\ v = ""
  <2>1. b = [a EXCEPT !.stop = TRUE]
    BY <1>6, <1>9
  <2>2. b \in R /\ b.stop = TRUE
    BY <1>1, <2>1
  <2>3. empty(n + 1)
    BY <1>0, <1>2, <1>6
  <2> QED
    BY <2>2, <2>3 DEF Knows
<1>7. CASE ~a.stop /\ k = "host" /\ v \in HostValues /\ v # ""
  <2>1. b = [a EXCEPT !["host"] = v]
    BY <1>7, <1>9
  <2>2. q = <<"host", v>> /\ v # Unset /\ q[1] # "pubkey" /\ q # <<"host", "">>
    BY <1>0, <1>3, <1>7 DEF HostValues, Unset
  <2>3. b \in R /\ b.stop = a.stop /\ b.host = v /\ b.pubkey = a.pubkey
    BY <1>1, <1>7, <2>1, <2>2
  <2>4. LastIs("host", n + 1, v)
    BY <2>2, StillLast
  <2>5. IF a.pubkey = Unset THEN NoneOf("pubkey", n) ELSE LastIs("pubkey", n, a.pubkey)
    BY <1>7 DEF Knows
  <2>6. IF a.pubkey = Unset THEN NoneOf("pubkey", n + 1) ELSE LastIs("pubkey", n + 1, a.pubkey)
    BY <2>2, <2>5, StillLast
  <2> QED
    BY <1>1, <1>2, <1>7, <2>2, <2>3, <2>4, <2>6 DEF Knows
<1>8. CASE ~a.stop /\ k = "pubkey" /\ v \in PubkeyValues
  <2>1. b = [a EXCEPT !["pubkey"] = v]
    BY <1>8, <1>9
  <2>2. /\ q = <<"pubkey", v>> /\ v # Unset
        /\ q[1] # "host" /\ q # <<"host", "">>
    BY <1>0, <1>3, <1>8 DEF PubkeyValues, Unset
  <2>3. b \in R /\ b.stop = a.stop /\ b.pubkey = v /\ b.host = a.host
    BY <1>1, <1>8, <2>1, <2>2
  <2>4. LastIs("pubkey", n + 1, v)
    BY <2>2, StillLast
  <2>5. IF a.host = Unset THEN NoneOf("host", n) ELSE LastIs("host", n, a.host)
    BY <1>8 DEF Knows
  <2>6. IF a.host = Unset THEN NoneOf("host", n + 1) ELSE LastIs("host", n + 1, a.host)
    BY <2>2, <2>5, StillLast
  <2> QED
    BY <1>1, <1>2, <1>8, <2>2, <2>3, <2>4, <2>6 DEF Knows
<1> QED
  BY <1>0, <1>3, <1>4, <1>5, <1>6, <1>7, <1>8

(* After any number of pairs the loop holds the last value of each key.       *)
LEMMA ScanKnows ==
    ASSUME query \in Seq(Pairs)
    PROVE  Knows(Len(query), Scan[Len(query)])
<1> DEFINE n == Len(query)
           T == {i \in 0..n : Knows(i, Scan[i])}
<1>1. n \in Nat /\ \A i \in 1..n : query[i] \in Pairs
  BY ElementOfSeq
<1>2. 0 \in T
  <2>1. Scan[0] = ScanStart
    BY ScanSteps
  <2>2. Knows(0, ScanStart)
    BY DEF Knows, ScanStart, NoneOf
  <2> QED
    BY <1>1, <2>1, <2>2
<1>3. ASSUME NEW i \in 0..(n - 1), i \in T PROVE i + 1 \in T
  <2>1. i \in Nat /\ i + 1 \in 1..n /\ i + 1 \in 0..n /\ (i + 1) - 1 = i
    BY <1>1
  <2>2. Scan[i + 1] = Step(Scan[i], query[i + 1])
    <3>1. Scan[i + 1] = Step(Scan[(i + 1) - 1], query[i + 1])
      BY <2>1, ScanSteps
    <3> QED
      BY <2>1, <3>1
  <2>3. Knows(i, Scan[i]) /\ query[i + 1] \in Pairs
    BY <1>1, <1>3, <2>1
  <2>4. Knows(i + 1, Scan[i + 1])
    BY <2>1, <2>2, <2>3, StepKnows
  <2> QED
    BY <2>1, <2>4
<1> HIDE DEF T
<1>4. \A i \in 0..n : i \in T
  BY <1>1, <1>2, <1>3, SetInduction
<1>5. n \in T
  BY <1>1, <1>4
<1> QED
  BY <1>5 DEF T

(* The reference's last value is the loop's.                                  *)
LEMMA LastOfIs ==
    ASSUME query \in Seq(Pairs), NEW key, NEW v, LastIs(key, Len(query), v)
    PROVE  At(key) # {} /\ LastOf(key) = v
<1> DEFINE n == Len(query)
           A == At(key)
<1>1. n \in Nat /\ DOMAIN query = 1..n
  OBVIOUS
<1>2. PICK i \in 1..n : query[i] = <<key, v>> /\ \A j \in (i + 1)..n : query[j][1] # key
  BY DEF LastIs
<1>3. A = {j \in 1..n : query[j][1] = key}
  BY <1>1 DEF At
<1>4. i \in A
  BY <1>2, <1>3
<1>5. \A j \in A : j <= i
  BY <1>1, <1>2, <1>3
<1>6. A \subseteq Nat
  BY <1>1, <1>3
<1> HIDE DEF A
<1> DEFINE m == CHOOSE k \in A : \A j \in A : j <= k
<1>7. m \in A /\ \A j \in A : j <= m
  BY <1>4, <1>5
<1> HIDE DEF m
<1>8. m = i
  BY <1>4, <1>5, <1>6, <1>7
<1>9. LastOf(key) = query[m][2]
  BY DEF LastOf, m, A
<1> QED
  BY <1>2, <1>4, <1>8, <1>9 DEF A

(* The reference's missing key is the loop's unset field.                     *)
LEMMA NoneOfIs ==
    ASSUME query \in Seq(Pairs), NEW key
    PROVE  NoneOf(key, Len(query)) <=> At(key) = {}
  BY DEF NoneOf, At

(* The invite parser returns what the reference reads from the query.         *)
LEMMA InviteAgrees ==
    ASSUME query \in Seq(Pairs), prefix \in {"none", "scheme", "invite"}
    PROVE  ParsesLikeReference
<1> DEFINE n == Len(query)
           s == Scan[n]
           r == ParseInviteUri
           clean == \A i \in At("host") : query[i][2] # ""
           ref == /\ prefix = "invite"
                  /\ At("host") # {} /\ At("pubkey") # {}
                  /\ clean
                  /\ LastOf("pubkey") = "good"
<1> SUFFICES (r.ok <=> ref) /\ (r.ok => r.host = LastOf("host") /\ r.pubkey = LastOf("pubkey"))
  BY DEF ParsesLikeReference
<1>1. Knows(n, s)
  BY ScanKnows
<1>2. s.stop <=> ~clean
  <2>1. s.stop <=> \E i \in 1..n : query[i] = <<"host", "">>
    BY <1>1 DEF Knows
  <2>2. DOMAIN query = 1..n /\ \A i \in 1..n : query[i] \in Pairs
    BY ElementOfSeq
  <2>3. ASSUME NEW i \in 1..n PROVE query[i] = <<"host", "">> <=> query[i][1] = "host" /\ query[i][2] = ""
    <3>1. PICK k, v : query[i] = <<k, v>> /\ query[i][1] = k /\ query[i][2] = v
      BY <2>2, PairShape
    <3> QED
      BY <3>1
  <2> QED
    BY <2>1, <2>2, <2>3 DEF At
<1>3. r = IF prefix = "none" THEN Bad("scheme")
          ELSE IF prefix = "scheme" THEN Bad("path")
          ELSE IF s.stop THEN Bad("empty host")
          ELSE IF s.host = Unset THEN Bad("missing host")
          ELSE IF s.pubkey = Unset THEN Bad("missing pubkey")
          ELSE IF s.pubkey # "good" THEN Bad(PubkeyError(s.pubkey))
          ELSE [ok |-> TRUE, host |-> s.host, pubkey |-> s.pubkey]
  BY DEF ParseInviteUri
<1>4. \A e : Bad(e).ok = FALSE
  BY DEF Bad
<1>5. "good" # Unset
  BY DEF Unset
<1>6. CASE prefix # "invite" \/ s.stop
  <2>1. \E e : r = Bad(e)
    BY <1>3, <1>6, Zenon
  <2>2. r.ok = FALSE /\ ~ref
    BY <1>2, <1>4, <1>6, <2>1
  <2> HIDE DEF r, ref
  <2> QED
    BY <2>2
<1>7. CASE prefix = "invite" /\ ~s.stop
  <2>1. /\ IF s.host = Unset THEN NoneOf("host", n) ELSE LastIs("host", n, s.host)
        /\ IF s.pubkey = Unset THEN NoneOf("pubkey", n) ELSE LastIs("pubkey", n, s.pubkey)
    BY <1>1, <1>7 DEF Knows
  <2>2. /\ s.host = Unset <=> At("host") = {}
        /\ s.host # Unset => LastOf("host") = s.host
    BY <2>1, LastOfIs, NoneOfIs
  <2>3. /\ s.pubkey = Unset <=> At("pubkey") = {}
        /\ s.pubkey # Unset => LastOf("pubkey") = s.pubkey
    BY <2>1, LastOfIs, NoneOfIs
  <2>4. CASE s.host = Unset \/ s.pubkey = Unset \/ s.pubkey # "good"
    <3>1. \E e : r = Bad(e)
      BY <1>3, <1>7, <2>4
    <3>2. r.ok = FALSE /\ ~ref
      BY <1>4, <2>2, <2>3, <2>4, <3>1
    <3> HIDE DEF r, ref
    <3> QED
      BY <3>2
  <2>5. CASE s.host # Unset /\ s.pubkey = "good"
    <3>1. r = [ok |-> TRUE, host |-> s.host, pubkey |-> s.pubkey]
      BY <1>3, <1>5, <1>7, <2>5
    <3>2. r.ok = TRUE /\ r.host = s.host /\ r.pubkey = s.pubkey
      BY <3>1
    <3>3. ref
      BY <1>2, <1>5, <1>7, <2>2, <2>3, <2>5
    <3> HIDE DEF r, ref
    <3> QED
      BY <1>5, <2>2, <2>3, <2>5, <3>2, <3>3
  <2> QED
    BY <2>4, <2>5
<1> QED
  BY <1>6, <1>7

-----------------------------------------------------------------------------
(* What the bindings' check makes of a challenge.                             *)

(* decode of a whole challenge finds the nonce's body and its tag.            *)
LEMMA WholeChallenge ==
    ASSUME NEW p, NEW n, NEW w, w = Encode(Challenge(p, n))
    PROVE  /\ Len(w) = MinFrameLen
           /\ Decode(w).ok = TRUE
           /\ BodyBytes(Decode(w).frame) = Body(n)
           /\ Decode(w).frame.tag = ComputeTag(p, Body(n))
<1> DEFINE b == Body(n)
           t == ComputeTag(p, b)
           h == HeaderLen
<1>1. PICK S : w \in Seq(S)
  BY WireFacts
<1>2. Len(w) = MinFrameLen /\ SubSeq(w, 1, h) = b /\ Len(w) - TagLen = h
  BY WireFacts
<1>3. w = b \o t
  BY ChallengeFacts
<1>4. w[1] = V1
  <2>1. PICK T : NonceOf(n) \in Seq(T)
    <3>1. NonceOf(n) \in Seq({<<"nonce", n>>})
      BY DEF NonceOf
    <3> QED
      BY <3>1
  <2>2. <<V1>> \in Seq(T \cup {V1}) /\ NonceOf(n) \in Seq(T \cup {V1})
    BY <2>1, SeqMonotonic
  <2>3. <<V1>> \o NonceOf(n) \in Seq(T \cup {V1})
    BY <2>2, ConcatProperties
  <2>4. b = <<V1>> \o NonceOf(n)
    BY <2>3, ConcatEmptySeq DEF Body
  <2>5. b[1] = V1
    BY <2>1, <2>4, HeaderInFront
  <2>6. SubSeq(w, 1, h)[1] = w[1]
    BY <1>1, <1>2
  <2> QED
    BY <1>2, <2>5, <2>6, Zenon
<1>5. Decode(w) = [ok |-> TRUE, frame |-> Split(w)]
  BY <1>1, <1>2, <1>4, DecodeCases
<1>6. Decode(w).ok = TRUE /\ Decode(w).frame = Split(w)
  BY <1>5, ErrFacts
<1>7. BodyBytes(Split(w)) = b
  <2>1. BodyBytes(Split(w)) = (<<w[1]>> \o SubSeq(w, 2, h)) \o SubSeq(w, h + 1, Len(w) - TagLen)
    BY DEF BodyBytes, Split
  <2>2. h \in Nat /\ 1 <= h /\ h <= h /\ h <= Len(w)
    BY <1>2
  <2> HIDE DEF h
  <2>3. (<<w[1]>> \o SubSeq(w, 2, h)) \o SubSeq(w, h + 1, h) = SubSeq(w, 1, h)
    BY <1>1, <2>2, FrontPieces
  <2> QED
    BY <1>2, <2>1, <2>3, Zenon
<1>8. Split(w).tag = t
  <2>1. Split(w).tag = SubSeq(w, h + 1, Len(w))
    BY <1>2 DEF Split
  <2>2. b \in Seq(HeadBytes(n)) /\ Len(b) = h
    BY BodyFacts
  <2>3. PICK T : t \in Seq(T) /\ Len(t) = TagLen
    <3>1. DOMAIN t = 1..TagLen /\ t = [i \in 1..TagLen |-> t[i]]
      BY DEF ComputeTag
    <3> HIDE DEF t
    <3> QED
      BY <3>1, Tabulated
  <2> DEFINE U == T \cup HeadBytes(n)
  <2>4. b \in Seq(U) /\ t \in Seq(U)
    BY <2>2, <2>3, SeqMonotonic
  <2> HIDE DEF U, b, t
  <2>5. SubSeq(b \o t, h + 1, h + TagLen) = SubSeq(t, 1, TagLen)
    <3>1. /\ h + 1 \in (Len(b) + 1)..(Len(b) + Len(t)) /\ h + TagLen \in (Len(b) + 1)..(Len(b) + Len(t))
          /\ (h + 1) - Len(b) = 1 /\ (h + TagLen) - Len(b) = TagLen
      BY <2>2, <2>3
    <3>2. SubSeq(b \o t, h + 1, h + TagLen) = SubSeq(t, (h + 1) - Len(b), (h + TagLen) - Len(b))
      BY <2>4, <3>1, SubSeqOfConcat2
    <3> QED
      BY <3>1, <3>2, Zenon
  <2>6. SubSeq(t, 1, TagLen) = t
    BY <2>3, SubSeqFull
  <2>7. Len(w) = h + TagLen
    BY <1>2
  <2> QED
    BY <1>3, <2>1, <2>5, <2>6, <2>7, Zenon
<1> QED
  BY <1>2, <1>6, <1>7, <1>8

(* A tag tells whose bond key made it.                                        *)
LEMMA TagBinds ==
    ASSUME NEW p, NEW q, NEW b, ComputeTag(p, b) = ComputeTag(q, b)
    PROVE  p = q
<1>1. ComputeTag(p, b)[1] = <<"mac", p, b, 1>> /\ ComputeTag(q, b)[1] = <<"mac", q, b, 1>>
  BY DEF ComputeTag
<1>2. <<"mac", p, b, 1>> = <<"mac", q, b, 1>>
  BY <1>1
<1> QED
  BY <1>2

(* The bindings accept exactly the challenge their own bond key tagged.       *)
LEMMA VerifiesGenuine == ExchangeInv => VerifiesExactlyGenuine
<1> SUFFICES ASSUME ExchangeInv, NEW q \in Phones, got[q] # Nothing
             PROVE  VerifyChallengeFrame(q, got[q].bytes)
                      <=> got[q].bytes = Encode(Challenge(q, got[q].number))
  BY DEF VerifiesExactlyGenuine
<1> DEFINE n == got[q].number
           w == got[q].bytes
           r == Decode(w)
<1>1. PICK p \in Phones : \E len \in 1..Len(Encode(Challenge(p, n))) :
                              w = SubSeq(Encode(Challenge(p, n)), 1, len)
  BY DEF ExchangeInv, Genuine
<1> DEFINE f == Encode(Challenge(p, n))
<1>2. PICK len \in 1..Len(f) : w = SubSeq(f, 1, len)
  BY <1>1
<1>3. Len(f) = MinFrameLen /\ \E S : f \in Seq(S)
  BY WireFacts
<1> HIDE DEF n, w
<1>4. ASSUME VerifyChallengeFrame(q, w) PROVE w = Encode(Challenge(q, n))
  <2>1. r.ok /\ ComputeTag(q, BodyBytes(r.frame)) = r.frame.tag
    BY <1>4 DEF VerifyChallengeFrame, VerifyTag
  <2>2. PICK S : f \in Seq(S)
    BY <1>3
  <2> HIDE DEF f
  <2>3. w \in Seq(S) /\ Len(w) = len
    BY <1>2, <2>2
  <2>4. len = MinFrameLen
    <3>1. len < MinFrameLen => r = Err("TooShort")
      BY <2>3, DecodeCases
    <3>2. Err("TooShort").ok = FALSE
      BY ErrFacts
    <3>3. ~(len < MinFrameLen)
      BY <2>1, <3>1, <3>2
    <3> QED
      BY <1>2, <1>3, <3>3
  <2>5. w = f
    BY <1>2, <1>3, <2>2, <2>4, SubSeqFull
  <2>6. BodyBytes(r.frame) = Body(n) /\ r.frame.tag = ComputeTag(p, Body(n))
    BY <2>5, WholeChallenge DEF f
  <2>7. p = q
    BY <2>1, <2>6, TagBinds
  <2> QED
    BY <2>5, <2>7 DEF f
<1>5. ASSUME w = Encode(Challenge(q, n)) PROVE VerifyChallengeFrame(q, w)
  <2>1. r.ok = TRUE /\ BodyBytes(r.frame) = Body(n) /\ r.frame.tag = ComputeTag(q, Body(n))
    BY <1>5, WholeChallenge
  <2> QED
    BY <2>1 DEF VerifyChallengeFrame, VerifyTag
<1> QED
  BY <1>4, <1>5 DEF n, w

-----------------------------------------------------------------------------
(* All of it together.                                                        *)

(* The cache's inductive invariant implies its type invariant.                *)
LEMMA CacheWellTyped == CacheInv => CacheTypeOK
<1> SUFFICES ASSUME CacheInv PROVE CacheTypeOK
  OBVIOUS
<1>1. /\ cap \in Caps /\ ttl \in Ttls /\ clock \in 0..CacheHorizon
      /\ entries \in Seq(Entry) /\ Len(entries) <= cap /\ Len(entries) <= Len(accepted)
  BY DEF CacheInv
<1>2. Len(entries) \in Nat /\ Len(accepted) \in Nat /\ DOMAIN entries = 1..Len(entries)
  BY <1>1, CacheTypes, LenProperties
<1>3. ASSUME NEW i \in 1..Len(entries)
      PROVE  entries[i] \in CacheNonces \X (0..CacheHorizon) /\ entries[i][2] <= clock
  <2> DEFINE d == Len(entries) - i
  <2>1. d \in 0..(Len(entries) - 1) /\ d \in 0..(Len(accepted) - 1) /\ Len(entries) - d = i
    BY <1>1, <1>2
  <2>2. entries[i] \in Entry
    BY <1>1, ElementOfSeq
  <2> HIDE DEF d
  <2>3. Newest(entries, d) = Newest(accepted, d) /\ Newest(accepted, d)[2] <= clock
    BY <2>1 DEF CacheInv
  <2>4. Newest(entries, d) = entries[i]
    BY <2>1 DEF Newest
  <2> QED
    BY <2>2, <2>3, <2>4, Zenon DEF Entry
<1> QED
  BY <1>1, <1>2, <1>3 DEF CacheTypeOK

(* The inputs start empty.                                                    *)
LEMMA InputsStart == Init => InputsOK
  BY DEF Init, FrameInit, InviteInit, InputsOK

(* The inputs grow by bytes, segments and pairs of the alphabet only.         *)
LEMMA InputsStep == InputsOK /\ [Next]_vars => InputsOK'
<1> SUFFICES ASSUME InputsOK, [Next]_vars PROVE InputsOK'
  OBVIOUS
<1> USE DEF InputsOK
<1>1. ASSUME NEW b \in PlainBytes, ReceiveByte(b), UNCHANGED inviteVars PROVE InputsOK'
  BY <1>1, AppendProperties DEF ReceiveByte, inviteVars
<1>2. ASSUME NEW s \in Segment, ReceiveSegment(s), UNCHANGED inviteVars PROVE InputsOK'
  BY <1>2, AppendProperties DEF ReceiveSegment, inviteVars
<1>3. ASSUME NEW p \in {"scheme", "invite"}, Prefix(p), UNCHANGED frameVars PROVE InputsOK'
  BY <1>3 DEF Prefix, frameVars
<1>4. ASSUME NEW q \in Pairs, AddPair(q), UNCHANGED frameVars PROVE InputsOK'
  BY <1>4, AppendProperties DEF AddPair, frameVars
<1>5. ASSUME UNCHANGED frameVars, UNCHANGED inviteVars PROVE InputsOK'
  BY <1>5 DEF frameVars, inviteVars
<1>6. \/ FrameNext /\ UNCHANGED inviteVars
      \/ InviteNext /\ UNCHANGED frameVars
      \/ UNCHANGED frameVars /\ UNCHANGED inviteVars
  BY DEF Next, vars, DriveFrame, DriveExchange, DriveCache, DriveDiscovery, DriveInvite
<1> QED
  BY <1>1, <1>2, <1>3, <1>4, <1>5, <1>6 DEF FrameNext, InviteNext

(* A behaviour of the drivers is one of each part.                            *)
LEMMA PartsMove ==
    /\ Init => ExchangeInit /\ CacheInit /\ DiscoveryInit
    /\ [Next]_vars => /\ [ExchangeNext]_exchangeVars
                      /\ [CacheNext]_cacheVars
                      /\ [DiscoveryNext]_discoveryVars
<1>1. Init => ExchangeInit /\ CacheInit /\ DiscoveryInit
  BY DEF Init
<1>2. [Next]_vars => [ExchangeNext]_exchangeVars
  BY DEF Next, vars, DriveFrame, DriveExchange, DriveCache, DriveDiscovery, DriveInvite
<1>3. [Next]_vars => [CacheNext]_cacheVars
  BY DEF Next, vars, DriveFrame, DriveExchange, DriveCache, DriveDiscovery, DriveInvite
<1>4. [Next]_vars => [DiscoveryNext]_discoveryVars
  BY DEF Next, vars, DriveFrame, DriveExchange, DriveCache, DriveDiscovery, DriveInvite
<1> QED
  BY <1>1, <1>2, <1>3, <1>4

(* A behaviour of the composed library is a behaviour of the exchange, of the *)
(* replay cache and of the minute rotation, so every theorem above about one  *)
(* of them is one about the composition the runs check.                       *)
THEOREM DriversDriveTheParts == Spec => ExchangeSpec /\ CacheSpec /\ DiscoverySpec
  BY PartsMove, PTL DEF Spec, ExchangeSpec, CacheSpec, DiscoverySpec

(* The inductive invariant of the library code: every input is made of the    *)
(* alphabet the code can receive, what the exchange has on the air was cut    *)
(* from a genuine challenge, and the cache holds the newest nonces it         *)
(* accepted.                                                                  *)
THEOREM LibraryInductive == Spec => []LibraryInv
<1>1. Init => LibraryInv
  BY InputsStart, PartsMove, ExchangeStart, CacheStart DEF LibraryInv
<1>2. LibraryInv /\ [Next]_vars => LibraryInv'
  BY InputsStep, PartsMove, ExchangeStep, CacheStep DEF LibraryInv
<1> QED
  BY <1>1, <1>2, PTL DEF Spec

(* The frame codec, the segment reassembly, the bindings' challenge check and *)
(* the invite parser compute what their reference definitions say, for every  *)
(* field length, alphabet and input of any length the model can build.        *)
THEOREM PureCodeIsRight == Spec => []PureCodeAgrees
<1>1. LibraryInv => PureCodeAgrees
  BY DecodeIsInverse, ReassembleIsInverse, VerifiesGenuine, InviteAgrees, CacheWellTyped
     DEF LibraryInv, InputsOK, PureCodeAgrees
<1> QED
  BY <1>1, LibraryInductive, PTL
====

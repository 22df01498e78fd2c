--------------------------- MODULE BondFilesProofs ---------------------------
(* Theorems about BondFiles, for every number of phones, writers and          *)
(* operations, and every combination of failures.                             *)
EXTENDS BondFiles, SequenceTheorems, WellFoundedInduction, TLAPS

USE BondFilesAssumption DEF BondFilesAssumption

-----------------------------------------------------------------------------
(* BondStore in memory: what find_index, remove, add and mark_revoked do to a *)
(* store in which no peer has two records.                                    *)

(* A set of natural numbers has a least element, and Min is it.               *)
LEMMA LeastIndex ==
    ASSUME NEW I \in SUBSET Nat, I # {}
    PROVE  Min(I) \in I
<1> DEFINE Less == OpToRel(<, Nat)
<1>1. \A i, j \in Nat : i < j => <<i, j>> \in Less
  BY DEF OpToRel
<1>2. PICK m \in I : \A j \in I : ~(<<j, m>> \in Less)
  BY NatLessThanWellFounded, WFMin
<1> HIDE DEF Less
<1>3. ASSUME NEW j \in I PROVE m <= j
  <2>1. m \in Nat /\ j \in Nat
    OBVIOUS
  <2>2. ~(j < m)
    BY <1>1, <1>2, <2>1
  <2> QED
    BY <2>1, <2>2
<1> QED
  BY <1>3 DEF Min

LEMMA FindFacts ==
    ASSUME NEW s \in Seq(Bond), NEW p
    PROVE  /\ Has(s, p) <=> \E i \in DOMAIN s : s[i].peer_id = p
           /\ Has(s, p) => FindIndex(s, p) \in DOMAIN s /\ s[FindIndex(s, p)].peer_id = p
<1> DEFINE I == {i \in 1..Len(s) : s[i].peer_id = p}
<1>1. FindIndex(s, p) = IF I # {} THEN Min(I) ELSE 0
  BY DEF FindIndex, SelectInSeq
<1>2. DOMAIN s = 1..Len(s) /\ Len(s) \in Nat
  BY LenProperties
<1>3. I \in SUBSET Nat /\ 0 \notin I
  BY <1>2
<1>4. \A i : i \in I <=> i \in DOMAIN s /\ s[i].peer_id = p
  BY <1>2
<1> HIDE DEF I
<1>5. I # {} => Min(I) \in I /\ Min(I) # 0
  BY <1>3, LeastIndex
<1> QED
  BY <1>1, <1>4, <1>5 DEF Has

(* The sequence without its k-th element.                                     *)
LEMMA RemoveAtFacts ==
    ASSUME NEW S, NEW s \in Seq(S), NEW k \in DOMAIN s, NEW t, t = RemoveAt(s, k)
    PROVE  /\ t \in Seq(S)
           /\ DOMAIN t = 1..(Len(s) - 1)
           /\ \A i \in DOMAIN t : t[i] = IF i < k THEN s[i] ELSE s[i + 1]
<1>0. DOMAIN s = 1..Len(s) /\ Len(s) \in Nat /\ k \in Nat /\ k <= Len(s) /\ 1 <= k
  BY LenProperties
<1> DEFINE a == SubSeq(s, 1, k - 1)
           b == SubSeq(s, k + 1, Len(s))
<1>1. t = a \o b
  BY DEF RemoveAt
<1> HIDE DEF a, b
<1>2. a \in Seq(S) /\ Len(a) = k - 1 /\ \A i \in 1..(k - 1) : a[i] = s[i]
  <2>1. 1 \in Int /\ k - 1 \in Int /\ \A i \in 1..(k - 1) : s[i] \in S
    BY <1>0, ElementOfSeq
  <2> QED
    BY <1>0, <2>1, SubSeqProperties DEF a
<1>3. b \in Seq(S) /\ Len(b) = Len(s) - k /\ \A i \in 1..(Len(s) - k) : b[i] = s[k + i]
  <2>1. k + 1 \in Int /\ Len(s) \in Int /\ \A i \in (k + 1)..Len(s) : s[i] \in S
    BY <1>0, ElementOfSeq
  <2>2. /\ b \in Seq(S)
        /\ Len(b) = IF k + 1 <= Len(s) THEN Len(s) - (k + 1) + 1 ELSE 0
        /\ \A i \in 1..(Len(s) - (k + 1) + 1) : b[i] = s[(k + 1) + i - 1]
    BY <2>1, SubSeqProperties DEF b
  <2>3. Len(b) = Len(s) - k
    BY <1>0, <2>2
  <2>4. ASSUME NEW i \in 1..(Len(s) - k) PROVE b[i] = s[k + i]
    <3>1. i \in 1..(Len(s) - (k + 1) + 1) /\ (k + 1) + i - 1 = k + i
      BY <1>0
    <3> QED
      BY <2>2, <3>1
  <2> QED
    BY <2>2, <2>3, <2>4
<1>4. /\ a \o b \in Seq(S) /\ Len(a \o b) = Len(a) + Len(b)
      /\ \A i \in 1..(Len(a) + Len(b)) :
            (a \o b)[i] = IF i <= Len(a) THEN a[i] ELSE b[i - Len(a)]
  <2>1. a \in Seq(S) /\ b \in Seq(S)
    BY <1>2, <1>3
  <2> QED
    BY <2>1
<1>5. t \in Seq(S) /\ DOMAIN t = 1..(Len(s) - 1)
  <2>1. Len(a) + Len(b) = Len(s) - 1
    BY <1>0, <1>2, <1>3
  <2> QED
    BY <1>1, <1>4, <2>1, LenProperties
<1>6. ASSUME NEW i \in 1..(Len(s) - 1) PROVE t[i] = IF i < k THEN s[i] ELSE s[i + 1]
  <2>1. i \in 1..(Len(a) + Len(b)) /\ (i <= Len(a) <=> i < k) /\ i - Len(a) = i - (k - 1)
    BY <1>0, <1>2, <1>3
  <2>2. t[i] = IF i < k THEN a[i] ELSE b[i - (k - 1)]
    BY <1>1, <1>4, <2>1
  <2>3. CASE i < k
    <3>1. i \in 1..(k - 1)
      BY <1>0, <2>3
    <3> QED
      BY <1>2, <2>2, <2>3, <3>1
  <2>4. CASE ~(i < k)
    <3>1. i - (k - 1) \in 1..(Len(s) - k) /\ k + (i - (k - 1)) = i + 1
      BY <1>0, <2>4
    <3> QED
      BY <1>3, <2>2, <2>4, <3>1
  <2> QED
    BY <2>3, <2>4
<1> QED
  BY <1>5, <1>6

LEMMA AppendFacts ==
    ASSUME NEW S, NEW s \in Seq(S), NEW e \in S, NEW t, t = Append(s, e)
    PROVE  /\ t \in Seq(S)
           /\ DOMAIN t = 1..(Len(s) + 1)
           /\ t[Len(s) + 1] = e
           /\ \A i \in DOMAIN s : i \in DOMAIN t /\ t[i] = s[i]
           /\ \A i \in DOMAIN t : i \in DOMAIN s \/ i = Len(s) + 1
<1>1. DOMAIN s = 1..Len(s) /\ Len(s) \in Nat
  BY LenProperties
<1>2. Append(s, e) \in Seq(S) /\ Len(Append(s, e)) = Len(s) + 1
  BY AppendProperties
<1>3. \A i \in 1..Len(s) : Append(s, e)[i] = s[i]
  BY AppendProperties
<1>4. Append(s, e)[Len(s) + 1] = e
  BY AppendProperties
<1>5. DOMAIN t = 1..(Len(s) + 1)
  BY <1>2, LenProperties
<1> QED
  BY <1>1, <1>2, <1>3, <1>4, <1>5

(* What one record of each peer amounts to.                                   *)
Sound(s) == s \in Seq(Bond) /\ UniqueIds(s) /\ Matching(s)

(* A peer's one record is the one find_index finds.                           *)
LEMMA RecordFound ==
    ASSUME NEW s, Sound(s), NEW p, Has(s, p)
    PROVE  \A b : b \in ToSet(s) /\ b.peer_id = p <=> b = s[FindIndex(s, p)]
  BY FindFacts DEF Sound, UniqueIds, ToSet

LEMMA RemovedFacts ==
    ASSUME NEW s, Sound(s), NEW p, Has(s, p), NEW t, t = StoreRemove(s, p)
    PROVE  /\ Sound(t)
           /\ \A i \in DOMAIN t : t[i].peer_id # p
           /\ \A b : b \in ToSet(t) <=> b \in ToSet(s) /\ b.peer_id # p
<1> DEFINE k == FindIndex(s, p)
<1>1. k \in DOMAIN s /\ s[k].peer_id = p
  BY FindFacts DEF Sound
<1>2. DOMAIN s = 1..Len(s) /\ Len(s) \in Nat
  BY LenProperties DEF Sound
<1>3. t = RemoveAt(s, k)
  BY DEF StoreRemove
<1> HIDE DEF k
<1>4. /\ t \in Seq(Bond)
      /\ DOMAIN t = 1..(Len(s) - 1)
      /\ \A i \in DOMAIN t : t[i] = IF i < k THEN s[i] ELSE s[i + 1]
  BY <1>1, <1>3, RemoveAtFacts DEF Sound
<1>5. ASSUME NEW i \in DOMAIN s, NEW j \in DOMAIN s, s[i].peer_id = s[j].peer_id PROVE i = j
  BY <1>5 DEF Sound, UniqueIds
<1>6. ASSUME NEW i \in DOMAIN t
      PROVE  \E j \in DOMAIN s \ {k} : t[i] = s[j] /\ j = IF i < k THEN i ELSE i + 1
  BY <1>1, <1>2, <1>4
<1>7. ASSUME NEW j \in DOMAIN s \ {k} PROVE \E i \in DOMAIN t : t[i] = s[j]
  <2>1. CASE j < k
    BY <1>1, <1>2, <1>4, <2>1
  <2>2. CASE j > k
    <3>1. j - 1 \in DOMAIN t /\ ~(j - 1 < k) /\ (j - 1) + 1 = j
      BY <1>1, <1>2, <1>4, <2>2
    <3> QED
      BY <1>4, <3>1
  <2> QED
    BY <1>1, <1>2, <2>1, <2>2
<1>8. UniqueIds(t)
  <2>1. SUFFICES ASSUME NEW i \in DOMAIN t, NEW j \in DOMAIN t, t[i].peer_id = t[j].peer_id
        PROVE  i = j
    BY DEF UniqueIds
  <2>2. PICK x \in DOMAIN s \ {k} : t[i] = s[x] /\ x = IF i < k THEN i ELSE i + 1
    BY <1>6
  <2>3. PICK y \in DOMAIN s \ {k} : t[j] = s[y] /\ y = IF j < k THEN j ELSE j + 1
    BY <1>6
  <2>4. x = y
    BY <1>5, <2>1, <2>2, <2>3
  <2> QED
    BY <1>1, <1>2, <1>4, <2>2, <2>3, <2>4
<1>9. Matching(t)
  BY <1>6 DEF Sound, Matching
<1>10. \A i \in DOMAIN t : t[i].peer_id # p
  BY <1>1, <1>5, <1>6
<1>11. ASSUME NEW b, b \in ToSet(s), b.peer_id # p PROVE b \in ToSet(t)
  BY <1>1, <1>7, <1>11 DEF ToSet
<1>12. ASSUME NEW b, b \in ToSet(t) PROVE b \in ToSet(s) /\ b.peer_id # p
  BY <1>6, <1>10, <1>12 DEF ToSet
<1> QED
  BY <1>4, <1>8, <1>9, <1>10, <1>11, <1>12 DEF Sound

LEMMA NewBondType ==
    ASSUME NEW p \in Peers, NEW n \in 0..MaxOps
    PROVE  NewBond(p, n) \in Bond /\ NewBond(p, n).peer_id = p /\ NewBond(p, n).pubkey = p
  BY DEF NewBond, Bond

(* add: the peer has no record yet.                                           *)
LEMMA AddedFacts ==
    ASSUME NEW s, Sound(s), NEW p \in Peers, NEW n \in 0..MaxOps,
           \A i \in DOMAIN s : s[i].peer_id # p, NEW t, t = Append(s, NewBond(p, n))
    PROVE  /\ Sound(t)
           /\ \A b : b \in ToSet(t) <=> b \in ToSet(s) \/ b = NewBond(p, n)
<1> DEFINE e == NewBond(p, n)
<1>1. e \in Bond /\ e.peer_id = p /\ e.pubkey = p
  BY NewBondType
<1> HIDE DEF e
<1>2. /\ t \in Seq(Bond)
      /\ DOMAIN t = 1..(Len(s) + 1)
      /\ t[Len(s) + 1] = e
      /\ \A i \in DOMAIN s : i \in DOMAIN t /\ t[i] = s[i]
      /\ \A i \in DOMAIN t : i \in DOMAIN s \/ i = Len(s) + 1
  BY <1>1, AppendFacts DEF Sound, e
<1>3. Len(s) + 1 \in DOMAIN t
  BY <1>2, LenProperties DEF Sound
<1>4. UniqueIds(t)
  BY <1>1, <1>2 DEF Sound, UniqueIds
<1>5. Matching(t)
  BY <1>1, <1>2 DEF Sound, Matching
<1>6. \A b : b \in ToSet(t) <=> b \in ToSet(s) \/ b = e
  BY <1>2, <1>3 DEF ToSet
<1> QED
  BY <1>2, <1>4, <1>5, <1>6 DEF Sound, e

(* remove, then add: the peer's record is the new one, the others stay.       *)
LEMMA ReplacedFacts ==
    ASSUME NEW s, Sound(s), NEW p \in Peers, NEW n \in 0..MaxOps, NEW t, t = Replace(s, p, n)
    PROVE  /\ Sound(t)
           /\ \A b : b \in ToSet(t) <=>
                 b = NewBond(p, n) \/ (b \in ToSet(s) /\ b.peer_id # p)
<1>1. CASE Has(s, p)
  <2> DEFINE r == StoreRemove(s, p)
  <2>1. /\ Sound(r)
        /\ \A i \in DOMAIN r : r[i].peer_id # p
        /\ \A b : b \in ToSet(r) <=> b \in ToSet(s) /\ b.peer_id # p
    BY <1>1, RemovedFacts
  <2>2. t = Append(r, NewBond(p, n))
    BY <1>1 DEF Replace
  <2> HIDE DEF r
  <2> QED
    BY <2>1, <2>2, AddedFacts
<1>2. CASE ~Has(s, p)
  <2>1. t = Append(s, NewBond(p, n)) /\ \A i \in DOMAIN s : s[i].peer_id # p
    BY <1>2, FindFacts DEF Replace, Sound
  <2>2. \A b \in ToSet(s) : b.peer_id # p
    BY <2>1 DEF ToSet
  <2> QED
    BY <2>1, <2>2, AddedFacts
<1> QED
  BY <1>1, <1>2

Revoked(b, n) == [b EXCEPT !.status = "revoked", !.reason = n]

(* mark_revoked changes the one record of the peer, if that is not revoked.   *)
LEMMA MarkedFacts ==
    ASSUME NEW s, Sound(s), NEW p \in Peers, NEW n \in 0..MaxOps, Has(s, p),
           NEW t, t = MarkRevoked(s, p, n), NEW b0, b0 = s[FindIndex(s, p)]
    PROVE  /\ Sound(t)
           /\ \A b : b \in ToSet(t) <=>
                 \/ b \in ToSet(s) /\ b.peer_id # p
                 \/ b = IF b0.status = "revoked" THEN b0 ELSE Revoked(b0, n)
<1> DEFINE k == FindIndex(s, p)
<1>1. k \in DOMAIN s /\ s[k].peer_id = p /\ b0 = s[k]
  BY FindFacts DEF Sound
<1>2. b0 \in Bond
  BY <1>1, ElementOfSeq, LenProperties DEF Sound
<1>3. \A b : b \in ToSet(s) /\ b.peer_id = p <=> b = b0
  BY RecordFound
<1>4. CASE b0.status = "revoked"
  <2>1. t = s
    BY <1>1, <1>4 DEF MarkRevoked
  <2> QED
    BY <1>3, <1>4, <2>1
<1>5. CASE b0.status # "revoked"
  <2> DEFINE r == Revoked(b0, n)
  <2>1. t = [s EXCEPT ![k] = r]
    BY <1>1, <1>5 DEF MarkRevoked, Revoked
  <2>2. r \in Bond /\ r.peer_id = b0.peer_id /\ r.pubkey = b0.pubkey
    BY <1>2 DEF Revoked, Bond
  <2> HIDE DEF k, r
  <2>3. t \in Seq(Bond) /\ DOMAIN t = DOMAIN s /\ t[k] = r /\ \A i \in DOMAIN s \ {k} : t[i] = s[i]
    BY <1>1, <2>1, <2>2 DEF Sound
  <2>4. \A i \in DOMAIN s : t[i].peer_id = s[i].peer_id /\ t[i].pubkey = s[i].pubkey
    BY <1>1, <2>2, <2>3
  <2>5. Sound(t)
    BY <2>3, <2>4 DEF Sound, UniqueIds, Matching
  <2>6. \A i \in DOMAIN s \ {k} : s[i].peer_id # p
    BY <1>1 DEF Sound, UniqueIds
  <2>7. ASSUME NEW b, b \in ToSet(t) PROVE b = r \/ (b \in ToSet(s) /\ b.peer_id # p)
    BY <2>3, <2>6, <2>7 DEF ToSet
  <2>8. ASSUME NEW b, b \in ToSet(s), b.peer_id # p PROVE b \in ToSet(t)
    BY <1>1, <2>3, <2>8 DEF ToSet
  <2>9. r \in ToSet(t)
    BY <1>1, <2>3 DEF ToSet
  <2> QED
    BY <1>5, <2>5, <2>7, <2>8, <2>9 DEF r
<1> QED
  BY <1>4, <1>5

(* load refuses exactly the files that are not to be touched.                 *)
LEMMA LoadFacts ==
    ASSUME NEW f, FileOK(f)
    PROVE  /\ LoadError(f) = "none" <=> ~Foreign(f)
           /\ ~Foreign(f) => Matching(f.bonds)
  BY DEF LoadError, Foreign, Matching, ToSet, FileOK, BOND_SCHEMA_VERSION_LATEST

LEMMA TomlFacts ==
    ASSUME NEW s, Sound(s)
    PROVE  /\ FileOK(Toml(BOND_SCHEMA_VERSION_LATEST, s))
           /\ ~Foreign(Toml(BOND_SCHEMA_VERSION_LATEST, s))
           /\ Toml(BOND_SCHEMA_VERSION_LATEST, s).bonds = s
  BY DEF Toml, FileOK, Foreign, Sound, Matching, ToSet, BOND_SCHEMA_VERSION_LATEST

(* The change an operation makes to a store is what it means for the records  *)
(* of its peer, and leaves those of the others alone.                         *)
LEMMA ChangedFacts ==
    ASSUME NEW w, proc[w] \in Writer, NEW s, Sound(s),
           proc[w].op = "revoke" => Has(s, proc[w].peer)
    PROVE  /\ Sound(Changed(w, s))
           /\ Records(Changed(w, s)) =
                 [Records(s) EXCEPT ![proc[w].peer] = Intended(w, Records(s)[proc[w].peer])]
           /\ proc[w].op # "revoke" =>
                 NewBond(proc[w].peer, proc[w].stamp) \in ToSet(Changed(w, s))
<1> DEFINE p == proc[w].peer
           n == proc[w].stamp
           t == Changed(w, s)
<1>1. p \in Peers /\ n \in 0..MaxOps
  BY DEF Writer
<1>2. ASSUME Sound(t), NEW R, \A b \in R : b.peer_id = p,
             \A b : b \in ToSet(t) <=> (b \in ToSet(s) /\ b.peer_id # p) \/ b \in R,
             R = Intended(w, Records(s)[p])
      PROVE  Records(t) = [Records(s) EXCEPT ![p] = Intended(w, Records(s)[p])]
  <2>1. ASSUME NEW q \in Peers, q # p PROVE {b \in ToSet(t) : b.peer_id = q} = Records(s)[q]
    BY <1>2, <2>1 DEF Records
  <2>2. {b \in ToSet(t) : b.peer_id = p} = R
    BY <1>2
  <2> HIDE DEF p, t
  <2>3. Records(s) = [q \in Peers |-> Records(s)[q]] /\ Records(t) = [q \in Peers |-> {b \in ToSet(t) : b.peer_id = q}]
    BY DEF Records
  <2> QED
    BY <1>1, <1>2, <2>1, <2>2, <2>3
<1>3. CASE proc[w].op = "revoke"
  <2> DEFINE b0 == s[FindIndex(s, p)]
             r == IF b0.status = "revoked" THEN b0 ELSE Revoked(b0, n)
  <2>1. t = MarkRevoked(s, p, n)
    BY <1>3 DEF Changed
  <2>2. /\ Sound(t)
        /\ \A b : b \in ToSet(t) <=> (b \in ToSet(s) /\ b.peer_id # p) \/ b = r
    BY <1>1, <1>3, <2>1, MarkedFacts
  <2>3. \A b : b \in ToSet(s) /\ b.peer_id = p <=> b = b0
    BY <1>3, RecordFound
  <2>4. Records(s)[p] = {b0}
    BY <1>1, <2>3 DEF Records
  <2>5. b0 \in Bond /\ b0.peer_id = p
    BY <1>3, FindFacts, ElementOfSeq, LenProperties DEF Sound
  <2>6. r.peer_id = p
    BY <2>5 DEF Revoked, Bond
  <2>7. Intended(w, Records(s)[p]) = {r}
    BY <1>3, <2>4 DEF Intended, Revoked
  <2> HIDE DEF r, p, n, t
  <2>8. Records(t) = [Records(s) EXCEPT ![p] = Intended(w, Records(s)[p])]
    BY <1>2, <2>2, <2>6, <2>7
  <2> QED
    BY <1>3, <2>2, <2>8 DEF p, t
<1>4. CASE proc[w].op # "revoke"
  <2>1. t = Replace(s, p, n)
    BY <1>4 DEF Changed
  <2>2. /\ Sound(t)
        /\ \A b : b \in ToSet(t) <=> b = NewBond(p, n) \/ (b \in ToSet(s) /\ b.peer_id # p)
    BY <1>1, <2>1, ReplacedFacts
  <2>3. NewBond(p, n).peer_id = p
    BY <1>1, NewBondType
  <2>4. Intended(w, Records(s)[p]) = {NewBond(p, n)}
    BY <1>4 DEF Intended
  <2> HIDE DEF p, n, t
  <2>5. Records(t) = [Records(s) EXCEPT ![p] = Intended(w, Records(s)[p])]
    BY <1>2, <2>2, <2>3, <2>4
  <2> QED
    BY <2>2, <2>5 DEF p, n, t
<1> QED
  BY <1>3, <1>4

-----------------------------------------------------------------------------
(* The steps a writer takes.                                                  *)

Others(w) == \A v \in Procs \ {w} : proc'[v] = proc[v]
SameOp(w) == /\ proc'[w].op = proc[w].op
             /\ proc'[w].peer = proc[w].peer
             /\ proc'[w].stamp = proc[w].stamp

LEMMA FinishFacts ==
    ASSUME proc \in [Procs -> Writer], NEW w \in Procs, NEW r \in Outcome, Finish(w, r)
    PROVE  /\ proc' \in [Procs -> Writer]
           /\ Others(w) /\ SameOp(w)
           /\ proc'[w].pc = "idle" /\ proc'[w].out = r /\ proc'[w].store = <<>>
<1>1. <<>> \in Seq(Bond)
  OBVIOUS
<1>2. proc[w] \in Writer /\ "idle" \in Steps
  BY DEF Steps
<1>3. ASSUME NEW e, e = <<>>, e \in Seq(Bond),
             proc' = [proc EXCEPT ![w] = [proc[w] EXCEPT !.pc = "idle", !.out = r, !.store = e,
                                                         !.synced = FALSE]]
      PROVE  /\ proc' \in [Procs -> Writer]
             /\ Others(w) /\ SameOp(w)
             /\ proc'[w].pc = "idle" /\ proc'[w].out = r /\ proc'[w].store = e
  BY <1>2, <1>3 DEF Writer, Others, SameOp
<1>4. proc' = [proc EXCEPT ![w] = [proc[w] EXCEPT !.pc = "idle", !.out = r, !.store = <<>>,
                                                  !.synced = FALSE]]
  BY DEF Finish
<1> QED
  BY <1>1, <1>3, <1>4

LEMMA GotoFacts ==
    ASSUME proc \in [Procs -> Writer], NEW w \in Procs, NEW step \in Steps, Goto(w, step)
    PROVE  /\ proc' \in [Procs -> Writer]
           /\ Others(w) /\ SameOp(w)
           /\ proc'[w].pc = step /\ proc'[w].out = proc[w].out
           /\ proc'[w].store = proc[w].store /\ proc'[w].synced = proc[w].synced
  BY DEF Goto, Writer, Others, SameOp

(* An operation that ends without having done what it was asked to.           *)
EndsBadly(w) ==
    /\ proc[w].pc # "idle"
    /\ \E r \in Outcome \ {"bonded", "none"} : Finish(w, r)
    /\ UNCHANGED <<dir, file, disk, key, keyDisk, ops, last, ideal, overlap>>
    /\ failed' \in {failed, TRUE}

LEMMA BadEnds ==
    ASSUME TypeOK, NEW w \in Procs,
           \/ LoadRefused(w) \/ RevokeUnknown(w) \/ RevokeAgain(w) \/ PairAgain(w)
           \/ EnsureDirRefused(w) \/ SaveFails(w) \/ KeyFails(w) \/ Crash(w)
    PROVE  EndsBadly(w)
<1>1. {"UnknownPeer", "already-revoked", "AlreadyBonded", "ParentDirTooPermissive", "Io",
       "key-io", "crashed"} \subseteq Outcome \ {"bonded", "none"}
  BY DEF Outcome, BondError
<1>2. LoadError(file) \in Outcome \ {"bonded"}
  BY DEF LoadError, Outcome, BondError
<1> QED
  BY <1>1, <1>2 DEF EndsBadly, LoadRefused, RevokeUnknown, RevokeAgain, PairAgain,
     EnsureDirRefused, SaveFails, KeyFails, Crash, filesUnchanged, history

(* A step of the save that touches neither file.                              *)
SaveMoves(w) ==
    \/ EnsureDir(w) \/ EnsureDirMissing(w) \/ MakeDir(w) \/ SetDirMode(w) \/ WriteTemp(w)
    \/ SyncTemp(w)

LEMMA SyncFacts ==
    ASSUME proc \in [Procs -> Writer], NEW w \in Procs,
           proc' = [proc EXCEPT ![w].pc = "rename", ![w].synced = TRUE]
    PROVE  /\ proc' \in [Procs -> Writer]
           /\ Others(w) /\ SameOp(w)
           /\ proc'[w].pc = "rename" /\ proc'[w].out = proc[w].out
           /\ proc'[w].store = proc[w].store /\ proc'[w].synced
  BY DEF Writer, Others, SameOp, Steps

LEMMA SaveMoveFacts ==
    ASSUME TypeOK, NEW w \in Procs, SaveMoves(w)
    PROVE  /\ proc' \in [Procs -> Writer]
           /\ Others(w) /\ SameOp(w)
           /\ proc[w].pc \in Saving /\ proc'[w].pc \in Saving
           /\ proc'[w].out = proc[w].out /\ proc'[w].store = proc[w].store
           /\ UNCHANGED <<file, disk, key, keyDisk, ops, history>>
           /\ dir' \in {"absent", "tight", "loose", "notdir"}
           /\ dir = "tight" => dir' = "tight"
           /\ proc'[w].pc \in {"write", "sync", "rename"} =>
                 dir' = "tight" \/ (proc[w].pc \in {"write", "sync", "rename"} /\ dir' = dir)
           /\ proc'[w].pc = "rename" => proc'[w].synced
<1>0. proc \in [Procs -> Writer] /\ {"write", "mkdir", "chmod", "sync"} \subseteq Steps
  BY DEF TypeOK, Steps
<1>1. CASE EnsureDir(w)
  BY <1>0, <1>1, GotoFacts DEF EnsureDir, filesUnchanged, Saving, TypeOK
<1>2. CASE EnsureDirMissing(w)
  BY <1>0, <1>2, GotoFacts DEF EnsureDirMissing, filesUnchanged, Saving, TypeOK
<1>3. CASE MakeDir(w)
  BY <1>0, <1>3, GotoFacts DEF MakeDir, MadeDir, filesUnchanged, Saving, TypeOK
<1>4. CASE SetDirMode(w)
  BY <1>0, <1>4, GotoFacts DEF SetDirMode, filesUnchanged, Saving, TypeOK
<1>5. CASE WriteTemp(w)
  BY <1>0, <1>5, GotoFacts DEF WriteTemp, filesUnchanged, Saving, TypeOK
<1>6. CASE SyncTemp(w)
  BY <1>0, <1>6, SyncFacts DEF SyncTemp, filesUnchanged, Saving, TypeOK
<1> QED
  BY <1>1, <1>2, <1>3, <1>4, <1>5, <1>6 DEF SaveMoves

LEMMA LoadChangeFacts ==
    ASSUME TypeOK, NEW w \in Procs, LoadAndChange(w), Changed(w, file.bonds) \in Seq(Bond)
    PROVE  /\ proc' \in [Procs -> Writer]
           /\ Others(w) /\ SameOp(w)
           /\ proc'[w].pc = "dir" /\ proc'[w].out = proc[w].out
           /\ proc'[w].store = Changed(w, file.bonds)
<1> DEFINE c == Changed(w, file.bonds)
<1>1. proc' = [proc EXCEPT ![w].pc = "dir", ![w].store = c] /\ proc \in [Procs -> Writer]
  BY DEF LoadAndChange, TypeOK
<1>2. c \in Seq(Bond) /\ "dir" \in Steps
  BY DEF Steps
<1> HIDE DEF c
<1>3. /\ proc' \in [Procs -> Writer]
      /\ Others(w) /\ SameOp(w)
      /\ proc'[w].pc = "dir" /\ proc'[w].out = proc[w].out
      /\ proc'[w].store = c
  BY <1>1, <1>2 DEF Writer, Others, SameOp
<1> QED
  BY <1>3 DEF c

LEMMA IdleType == Idle \in Writer /\ Idle.out = "none" /\ Idle.store = <<>> /\ Idle.synced = FALSE
<1>1. <<>> \in Seq(Bond) /\ (CHOOSE p \in Peers : TRUE) \in Peers
  OBVIOUS
<1>2. 0 \in 0..MaxOps /\ "idle" \in Steps /\ "none" \in Outcome
  BY DEF Steps, Outcome
<1> QED
  BY <1>1, <1>2 DEF Idle, Writer

LEMMA BeginFacts ==
    ASSUME TypeOK, NEW w \in Procs, NEW op \in {"pair", "force", "revoke", "daemon"},
           NEW p \in Peers, Begin(w, op, p)
    PROVE  /\ proc' \in [Procs -> Writer]
           /\ Others(w)
           /\ proc[w].pc = "idle"
           /\ proc'[w].pc = IF op = "daemon" THEN "keyopen" ELSE "load"
           /\ proc'[w].op = op /\ (op = "daemon" <=> w = Daemon)
           /\ proc'[w].peer = p /\ proc'[w].stamp = ops + 1 /\ proc'[w].out = "none"
           /\ proc'[w].store = <<>>
           /\ last' = [last EXCEPT ![p] = ops + 1] /\ ops' = ops + 1 /\ ops + 1 \in 0..MaxOps
<1> DEFINE pc == IF op = "daemon" THEN "keyopen" ELSE "load"
           n == ops + 1
<1>1. proc' = [proc EXCEPT ![w] = [Idle EXCEPT !.pc = pc, !.op = op, !.peer = p, !.stamp = n]]
  BY DEF Begin
<1>2. pc \in Steps /\ n \in 0..MaxOps /\ proc \in [Procs -> Writer]
  BY DEF TypeOK, Steps, Begin
<1>3. op = "daemon" <=> w = Daemon
  BY DEF Begin
<1> HIDE DEF pc, n
<1>4. /\ proc' \in [Procs -> Writer]
      /\ Others(w)
      /\ proc'[w].pc = pc /\ proc'[w].op = op /\ proc'[w].peer = p /\ proc'[w].stamp = n
      /\ proc'[w].out = "none" /\ proc'[w].store = <<>>
  BY <1>1, <1>2, IdleType DEF Writer, Others
<1> QED
  BY <1>2, <1>3, <1>4 DEF pc, n, Begin

LEMMA PersistFacts ==
    ASSUME TypeOK, NEW w \in Procs, Persist(w)
    PROVE  /\ proc' \in [Procs -> Writer]
           /\ Others(w) /\ SameOp(w)
           /\ proc[w].pc = "rename"
           /\ \/ proc[w].op = "revoke" /\ proc'[w].pc = "idle" /\ proc'[w].out = "revoked"
                 /\ proc'[w].store = <<>>
              \/ /\ proc[w].op # "revoke" /\ proc'[w].out = proc[w].out
                 /\ proc'[w].store = proc[w].store
                 /\ proc'[w].pc = IF w = Daemon THEN "signal" ELSE "keyopen"
<1>1. proc \in [Procs -> Writer] /\ "revoked" \in Outcome /\ {"signal", "keyopen"} \subseteq Steps
  BY DEF TypeOK, Outcome, Steps
<1>2. CASE proc[w].op = "revoke"
  BY <1>1, <1>2, FinishFacts DEF Persist
<1>3. CASE proc[w].op # "revoke"
  BY <1>1, <1>3, GotoFacts DEF Persist
<1> QED
  BY <1>2, <1>3

(* The three steps after which only the key, or nothing, has changed.         *)
LEMMA KeyOpenFacts ==
    ASSUME TypeOK, NEW w \in Procs, KeyOpen(w)
    PROVE  /\ proc' \in [Procs -> Writer]
           /\ Others(w) /\ SameOp(w)
           /\ proc[w].pc = "keyopen" /\ proc'[w].pc = "keywrite"
           /\ proc'[w].out = proc[w].out /\ proc'[w].store = proc[w].store
  BY GotoFacts DEF KeyOpen, TypeOK, Steps

LEMMA KeyWriteFacts ==
    ASSUME TypeOK, NEW w \in Procs, KeyWrite(w)
    PROVE  /\ proc' \in [Procs -> Writer]
           /\ Others(w) /\ SameOp(w)
           /\ proc[w].pc = "keywrite"
           /\ \/ /\ w = Daemon /\ proc'[w].pc = "load" /\ proc'[w].out = proc[w].out
                 /\ proc'[w].store = proc[w].store
              \/ /\ w # Daemon /\ proc'[w].pc = "idle" /\ proc'[w].out = "bonded"
                 /\ proc'[w].store = <<>>
<1>1. proc \in [Procs -> Writer] /\ "bonded" \in Outcome /\ "load" \in Steps
  BY DEF TypeOK, Outcome, Steps
<1>2. CASE w = Daemon
  BY <1>1, <1>2, GotoFacts DEF KeyWrite
<1>3. CASE w # Daemon
  BY <1>1, <1>3, FinishFacts DEF KeyWrite
<1> QED
  BY <1>2, <1>3

LEMMA SignalFacts ==
    ASSUME TypeOK, NEW w \in Procs, Signal(w)
    PROVE  /\ proc' \in [Procs -> Writer]
           /\ Others(w) /\ SameOp(w)
           /\ proc[w].pc = "signal" /\ proc'[w].pc = "idle" /\ proc'[w].out = "bonded"
           /\ proc'[w].store = <<>>
           /\ UNCHANGED <<dir, file, disk, key, keyDisk, ops, history>>
<1>1. proc \in [Procs -> Writer] /\ "bonded" \in Outcome
  BY DEF TypeOK, Outcome
<1> QED
  BY <1>1, FinishFacts DEF Signal, filesUnchanged

LEMMA PowerLossFacts ==
    ASSUME TypeOK, PowerLoss
    PROVE  /\ proc' \in [Procs -> Writer]
           /\ \A w \in Procs : SameOp(w) /\ proc'[w].pc = "idle" /\ proc'[w].out = "crashed"
                               /\ proc'[w].store = <<>>
           /\ key' \in [Peers -> 0..Torn]
<1>1. <<>> \in Seq(Bond) /\ "idle" \in Steps /\ "crashed" \in Outcome
  BY DEF Steps, Outcome
<1>2. ASSUME NEW e, e = <<>>, e \in Seq(Bond), NEW w \in Procs,
             proc'[w] = [proc[w] EXCEPT !.pc = "idle", !.store = e, !.synced = FALSE,
                                        !.out = "crashed"]
      PROVE  /\ proc'[w] \in Writer
             /\ SameOp(w) /\ proc'[w].pc = "idle" /\ proc'[w].out = "crashed"
             /\ proc'[w].store = e
  <2>1. proc[w] \in Writer
    BY DEF TypeOK
  <2> QED
    BY <1>1, <1>2, <2>1 DEF Writer, SameOp
<1>3. proc' = [w \in Procs |-> [proc[w] EXCEPT !.pc = "idle", !.store = <<>>,
                                               !.synced = FALSE, !.out = "crashed"]]
  BY DEF PowerLoss
<1>4. ASSUME NEW w \in Procs
      PROVE  proc'[w] = [proc[w] EXCEPT !.pc = "idle", !.store = <<>>, !.synced = FALSE,
                                        !.out = "crashed"]
  BY <1>3
<1>5. proc' \in [Procs -> Writer]
  <2>1. \A w \in Procs : proc'[w] \in Writer
    BY <1>1, <1>2, <1>4
  <2>2. DOMAIN proc' = Procs /\ proc' = [w \in Procs |-> proc'[w]]
    BY <1>3
  <2> QED
    BY <2>1, <2>2
<1>6. PICK k \in [Peers -> 1..3] :
         key' = [p \in Peers |-> IF key[p] = keyDisk[p] THEN key[p]
                                 ELSE <<key[p], keyDisk[p], Torn>>[k[p]]]
  BY DEF PowerLoss
<1>7. ASSUME NEW p \in Peers PROVE <<key[p], keyDisk[p], Torn>>[k[p]] \in 0..Torn
  <2>1. key[p] \in 0..Torn /\ keyDisk[p] \in 0..Torn /\ Torn \in 0..Torn
    BY DEF TypeOK, Torn
  <2>2. k[p] = 1 \/ k[p] = 2 \/ k[p] = 3
    BY <1>6
  <2> QED
    BY <2>1, <2>2
<1>8. key' \in [Peers -> 0..Torn]
  BY <1>6, <1>7 DEF TypeOK
<1>9. ASSUME NEW w \in Procs
      PROVE  SameOp(w) /\ proc'[w].pc = "idle" /\ proc'[w].out = "crashed"
             /\ proc'[w].store = <<>>
  <2> DEFINE e == <<>>
  <2>1. e \in Seq(Bond) /\ proc'[w] = [proc[w] EXCEPT !.pc = "idle", !.store = e,
                                                    !.synced = FALSE, !.out = "crashed"]
    BY <1>1, <1>4
  <2>2. e = <<>>
    OBVIOUS
  <2> HIDE DEF e
  <2> QED
    BY <1>2, <2>1, <2>2
<1> QED
  BY <1>5, <1>8, <1>9

(* Every step is of one of these forms.                                       *)
Ops == {"pair", "force", "revoke", "daemon"}
LEMMA StepForms ==
    ASSUME TypeOK, [Next]_vars
    PROVE  \/ \E w \in Procs : EndsBadly(w)
           \/ \E w \in Procs : SaveMoves(w)
           \/ \E w \in Procs : LoadAndChange(w)
           \/ \E w \in Procs : Persist(w)
           \/ \E w \in Procs : KeyOpen(w)
           \/ \E w \in Procs : KeyWrite(w)
           \/ \E w \in Procs : Signal(w)
           \/ \E w \in Procs, op \in Ops, p \in Peers : Begin(w, op, p)
           \/ WriteBack
           \/ PowerLoss
           \/ UNCHANGED vars
<1>1. ASSUME NEW w \in Procs, Store(w) \/ Save(w) \/ WriteKey(w) \/ Signal(w) \/ Crash(w)
      PROVE  \/ EndsBadly(w) \/ SaveMoves(w) \/ LoadAndChange(w) \/ Persist(w) \/ KeyOpen(w)
             \/ KeyWrite(w) \/ Signal(w)
  BY <1>1, BadEnds DEF Store, Save, WriteKey, SaveMoves
<1> QED
  BY <1>1 DEF Next, Ops

-----------------------------------------------------------------------------
(* Types, and what each writer has established.                               *)

LEMMA TypeParts ==
    TypeOK => /\ proc \in [Procs -> Writer] /\ FileOK(file) /\ FileOK(disk)
              /\ key \in [Peers -> 0..Torn] /\ ops \in 0..MaxOps /\ last \in [Peers -> 0..MaxOps]
              /\ \A w \in Procs : /\ proc[w] \in Writer /\ proc[w].peer \in Peers
                                  /\ proc[w].stamp \in 0..MaxOps /\ proc[w].store \in Seq(Bond)
                                  /\ proc[w].pc \in Steps /\ proc[w].out \in Outcome
<1>1. \A x \in Writer : /\ x.peer \in Peers /\ x.stamp \in 0..MaxOps /\ x.store \in Seq(Bond)
                        /\ x.pc \in Steps /\ x.out \in Outcome
  BY DEF Writer
<1> QED
  BY <1>1 DEF TypeOK

(* The store load returns.                                                    *)
LEMMA LoadedIsSound ==
    ASSUME TypeOK, FilesOK, LoadError(file) = "none"
    PROVE  Sound(file.bonds) /\ ~Foreign(file)
  BY LoadFacts DEF TypeOK, FilesOK, Sound, FileOK

LEMMA LoadAndChangeSound ==
    ASSUME TypeOK, FilesOK, NEW w \in Procs, LoadAndChange(w)
    PROVE  /\ Sound(Changed(w, file.bonds)) /\ ~Foreign(file)
           /\ proc[w].op = "revoke" => Has(file.bonds, proc[w].peer)
  BY LoadedIsSound, ChangedFacts, TypeParts DEF LoadAndChange

LEMMA IntendedType ==
    ASSUME TypeOK, NEW w \in Procs, NEW R \in SUBSET Bond
    PROVE  Intended(w, R) \in SUBSET Bond
<1>1. proc[w].stamp \in 0..MaxOps /\ proc[w].peer \in Peers
  BY TypeParts
<1>2. \A b \in Bond : [b EXCEPT !.status = "revoked", !.reason = proc[w].stamp] \in Bond
  BY <1>1 DEF Bond
<1>3. {IF b.status = "revoked" THEN b
       ELSE [b EXCEPT !.status = "revoked", !.reason = proc[w].stamp] : b \in R} \subseteq Bond
  BY <1>2
<1>4. NewBond(proc[w].peer, proc[w].stamp) \in Bond
  BY <1>1, NewBondType
<1> QED
  BY <1>3, <1>4, Zenon DEF Intended

LEMMA RecordsType ==
    ASSUME NEW s \in Seq(Bond)
    PROVE  Records(s) \in [Peers -> SUBSET Bond]
<1>1. ToSet(s) \subseteq Bond
  BY ElementOfSeq, LenProperties DEF ToSet
<1> QED
  BY <1>1 DEF Records

LEMMA TypeKept ==
    ASSUME TypeOK, FilesOK, \A w \in Procs : WriterOK(w), [Next]_vars
    PROVE  TypeOK'
<1>0. /\ dir \in {"absent", "tight", "loose", "notdir"} /\ overlap \subseteq Peers
      /\ ideal \in [Peers -> SUBSET Bond] /\ failed \in BOOLEAN
  BY DEF TypeOK
<1>1. CASE \E w \in Procs : EndsBadly(w)
  <2>1. PICK w \in Procs : EndsBadly(w)
    BY <1>1
  <2>2. proc' \in [Procs -> Writer]
    BY <2>1, FinishFacts, TypeParts DEF EndsBadly
  <2>3. failed' \in BOOLEAN
    BY <1>0, <2>1 DEF EndsBadly
  <2> QED
    BY <2>1, <2>2, <2>3 DEF EndsBadly, TypeOK
<1>2. CASE \E w \in Procs : SaveMoves(w)
  BY <1>2, SaveMoveFacts DEF TypeOK, history
<1>3. CASE \E w \in Procs : LoadAndChange(w)
  <2>1. PICK w \in Procs : LoadAndChange(w)
    BY <1>3
  <2>2. Changed(w, file.bonds) \in Seq(Bond)
    BY <2>1, LoadAndChangeSound DEF Sound
  <2>3. proc' \in [Procs -> Writer]
    BY <2>1, <2>2, LoadChangeFacts
  <2>4. UNCHANGED <<dir, file, disk, key, keyDisk, ops, last, ideal, overlap, failed>>
    BY <2>1 DEF LoadAndChange, filesUnchanged, history
  <2> QED
    BY <2>3, <2>4 DEF TypeOK
<1>4. CASE \E w \in Procs : Persist(w)
  <2>1. PICK w \in Procs : Persist(w)
    BY <1>4
  <2>2. proc' \in [Procs -> Writer] /\ proc[w].pc = "rename"
    BY <2>1, PersistFacts
  <2>3. Sound(proc[w].store) /\ proc[w].synced
    BY <2>2, TypeParts DEF WriterOK, Sound
  <2>4. FileOK(file)'
    BY <2>1, <2>3, TomlFacts DEF Persist
  <2>5. disk' = disk
    BY <2>1, <2>3 DEF Persist
  <2>6. ideal' \in [Peers -> SUBSET Bond]
    <3>1. ideal[proc[w].peer] \in SUBSET Bond
      BY <1>0, TypeParts
    <3>2. Intended(w, ideal[proc[w].peer]) \in SUBSET Bond
      BY <3>1, IntendedType
    <3>3. ideal' = [ideal EXCEPT ![proc[w].peer] = Intended(w, ideal[proc[w].peer])]
      BY <2>1 DEF Persist
    <3> QED
      BY <1>0, <3>2, <3>3
  <2>7. UNCHANGED <<dir, key, keyDisk, ops, last, overlap, failed>>
    BY <2>1 DEF Persist
  <2> QED
    BY <2>2, <2>4, <2>5, <2>6, <2>7 DEF TypeOK
<1>5. CASE \E w \in Procs : KeyOpen(w)
  <2>1. PICK w \in Procs : KeyOpen(w)
    BY <1>5
  <2>2. proc' \in [Procs -> Writer]
    BY <2>1, KeyOpenFacts
  <2>3. key' \in [Peers -> 0..Torn]
    BY <2>1, TypeParts DEF KeyOpen, Torn
  <2>4. dir' \in {"absent", "tight", "loose", "notdir"}
    BY <1>0, <2>1 DEF KeyOpen, MadeDir
  <2>5. UNCHANGED <<file, disk, keyDisk, ops, last, ideal, overlap, failed>>
    BY <2>1 DEF KeyOpen, history
  <2> QED
    BY <2>2, <2>3, <2>4, <2>5 DEF TypeOK
<1>6. CASE \E w \in Procs : KeyWrite(w)
  <2>1. PICK w \in Procs : KeyWrite(w)
    BY <1>6
  <2>2. proc' \in [Procs -> Writer]
    BY <2>1, KeyWriteFacts
  <2>3. key' \in [Peers -> 0..Torn]
    BY <2>1, TypeParts DEF KeyWrite, Torn
  <2>5. UNCHANGED <<dir, file, disk, keyDisk, ops, last, ideal, overlap, failed>>
    BY <2>1 DEF KeyWrite, history
  <2> QED
    BY <2>2, <2>3, <2>5 DEF TypeOK
<1>7. CASE \E w \in Procs : Signal(w)
  BY <1>7, SignalFacts DEF TypeOK, history
<1>8. CASE \E w \in Procs, op \in Ops, p \in Peers : Begin(w, op, p)
  <2>1. PICK w \in Procs, op \in Ops, p \in Peers : Begin(w, op, p)
    BY <1>8
  <2>2. /\ proc' \in [Procs -> Writer]
        /\ last' = [last EXCEPT ![p] = ops + 1] /\ ops' = ops + 1 /\ ops + 1 \in 0..MaxOps
    BY <2>1, BeginFacts DEF Ops
  <2>3. overlap' \subseteq Peers
    BY <1>0, <2>1, TypeParts DEF Begin, Active
  <2>4. UNCHANGED <<dir, file, disk, key, keyDisk, ideal, failed>>
    BY <2>1 DEF Begin, filesUnchanged
  <2>5. last' \in [Peers -> 0..MaxOps]
    BY <2>2, TypeParts
  <2> QED
    BY <2>2, <2>3, <2>4, <2>5 DEF TypeOK
<1>9. CASE WriteBack
  BY <1>9 DEF WriteBack, TypeOK, history
<1>10. CASE PowerLoss
  <2>1. proc' \in [Procs -> Writer] /\ key' \in [Peers -> 0..Torn]
    BY <1>10, PowerLossFacts
  <2>2. FileOK(file)' /\ FileOK(disk)' /\ keyDisk' = key'
    BY <1>10, TypeParts DEF PowerLoss
  <2>3. ideal' \in [Peers -> SUBSET Bond]
    <3>1. file'.bonds \in Seq(Bond)
      BY <2>2 DEF FileOK
    <3> QED
      BY <1>10, <3>1, RecordsType DEF PowerLoss
  <2>4. UNCHANGED <<dir, ops, last, overlap>> /\ failed' = TRUE
    BY <1>10 DEF PowerLoss
  <2> QED
    BY <2>1, <2>2, <2>3, <2>4 DEF TypeOK
<1>11. CASE UNCHANGED vars
  BY <1>11 DEF vars, TypeOK
<1> QED
  BY <1>1, <1>2, <1>3, <1>4, <1>5, <1>6, <1>7, <1>8, <1>9, <1>10, <1>11, StepForms

AllWriters == \A w \in Procs : WriterOK(w)

(* bonds.toml, and what a power failure may bring back.  The last part is for *)
(* the writers: a file that loads stays one that loads.                       *)
LEMMA FilesKept ==
    ASSUME TypeOK, FilesOK, AllWriters, [Next]_vars
    PROVE  /\ FilesOK'
           /\ Foreign(file) => file' = file
           /\ ~Foreign(file) => ~Foreign(file')
<1>1. CASE UNCHANGED <<file, disk>>
  BY <1>1 DEF FilesOK
<1>2. ASSUME NEW w \in Procs, Persist(w)
      PROVE  /\ FilesOK'
             /\ Foreign(file) => file' = file
             /\ ~Foreign(file) => ~Foreign(file')
  <2>1. proc[w].pc = "rename" /\ proc[w].pc \in Saving
    BY <1>2 DEF Persist, Saving
  <2>2. Sound(proc[w].store) /\ proc[w].synced /\ ~Foreign(file)
    BY <2>1, TypeParts DEF AllWriters, WriterOK, Sound
  <2>3. disk' = disk /\ file' = Toml(BOND_SCHEMA_VERSION_LATEST, proc[w].store)
    BY <1>2, <2>2 DEF Persist
  <2>4. UniqueIds(file'.bonds) /\ ~Foreign(file')
    BY <2>2, <2>3, TomlFacts DEF Sound
  <2> QED
    BY <2>2, <2>3, <2>4 DEF FilesOK
<1>3. CASE WriteBack
  BY <1>3 DEF WriteBack, FilesOK
<1>4. CASE PowerLoss
  BY <1>4 DEF PowerLoss, FilesOK
<1>5. CASE \E w \in Procs : \/ EndsBadly(w) \/ SaveMoves(w) \/ LoadAndChange(w) \/ KeyOpen(w)
                            \/ KeyWrite(w) \/ Signal(w)
  <2>1. UNCHANGED <<file, disk>>
    BY <1>5, SaveMoveFacts DEF EndsBadly, LoadAndChange, KeyOpen, KeyWrite, Signal, filesUnchanged
  <2> QED
    BY <1>1, <2>1
<1>6. CASE \E w \in Procs, op \in Ops, p \in Peers : Begin(w, op, p)
  <2>1. UNCHANGED <<file, disk>>
    BY <1>6 DEF Begin, filesUnchanged
  <2> QED
    BY <1>1, <2>1
<1>7. CASE UNCHANGED vars
  BY <1>1, <1>7 DEF vars
<1> QED
  BY <1>2, <1>3, <1>4, <1>5, <1>6, <1>7, StepForms

(* Once private, the directory stays so.                                      *)
LEMMA TightStays ==
    ASSUME TypeOK, dir = "tight", [Next]_vars
    PROVE  dir' = "tight"
<1>1. CASE \E w \in Procs : SaveMoves(w)
  BY <1>1, SaveMoveFacts
<1>2. CASE \E w \in Procs : KeyOpen(w)
  BY <1>2 DEF KeyOpen, MadeDir
<1> QED
  BY <1>1, <1>2, StepForms DEF EndsBadly, LoadAndChange, Persist, KeyWrite, Signal, Begin,
     WriteBack, PowerLoss, vars

LEMMA EmptyStore == UniqueIds(<<>>) /\ Matching(<<>>)
  BY DEF UniqueIds, Matching

LEMMA WritersKept ==
    ASSUME TypeOK, FilesOK, AllWriters, [Next]_vars
    PROVE  AllWriters'
<1>0. /\ dir = "tight" => dir' = "tight"
      /\ ~Foreign(file) => ~Foreign(file')
  BY TightStays, FilesKept
<1>1. ASSUME NEW v \in Procs, proc'[v] = proc[v] PROVE WriterOK(v)'
  <2>1. WriterOK(v)
    BY DEF AllWriters
  <2> QED
    BY <1>0, <1>1, <2>1 DEF WriterOK
<1>2. ASSUME NEW w \in Procs, Others(w), WriterOK(w)' PROVE AllWriters'
  BY <1>1, <1>2 DEF Others, AllWriters
<1>3. ASSUME NEW w \in Procs, proc'[w].pc = "idle", proc'[w].store = <<>> PROVE WriterOK(w)'
  BY <1>3, EmptyStore DEF WriterOK, Saving
<1>4. \A w \in Procs : WriterOK(w)
  BY DEF AllWriters
<1>5. ASSUME NEW w \in Procs, EndsBadly(w) PROVE AllWriters'
  BY <1>2, <1>3, <1>5, FinishFacts, TypeParts DEF EndsBadly
<1>6. ASSUME NEW w \in Procs, SaveMoves(w) PROVE AllWriters'
  <2>1. /\ Others(w) /\ SameOp(w)
        /\ proc[w].pc \in Saving /\ proc'[w].pc \in Saving
        /\ proc'[w].out = proc[w].out /\ proc'[w].store = proc[w].store
        /\ dir = "tight" => dir' = "tight"
        /\ proc'[w].pc \in {"write", "sync", "rename"} =>
              dir' = "tight" \/ (proc[w].pc \in {"write", "sync", "rename"} /\ dir' = dir)
        /\ proc'[w].pc = "rename" => proc'[w].synced
    BY <1>6, SaveMoveFacts
  <2>2. WriterOK(w)'
    BY <1>0, <1>4, <2>1 DEF WriterOK, SameOp, Saving
  <2> QED
    BY <1>2, <2>1, <2>2
<1>7. ASSUME NEW w \in Procs, LoadAndChange(w) PROVE AllWriters'
  <2>1. Sound(Changed(w, file.bonds)) /\ ~Foreign(file)
    BY <1>7, LoadAndChangeSound
  <2>2. /\ Others(w) /\ SameOp(w)
        /\ proc'[w].pc = "dir" /\ proc'[w].out = proc[w].out
        /\ proc'[w].store = Changed(w, file.bonds)
    BY <1>7, <2>1, LoadChangeFacts DEF Sound
  <2>3. proc[w].pc = "load"
    BY <1>7 DEF LoadAndChange
  <2>4. UniqueIds(proc'[w].store) /\ Matching(proc'[w].store)
    BY <2>1, <2>2 DEF Sound
  <2>5. WriterOK(w)'
    BY <1>0, <1>4, <2>1, <2>2, <2>3, <2>4 DEF WriterOK, SameOp, Saving
  <2> QED
    BY <1>2, <2>2, <2>5
<1>8. ASSUME NEW w \in Procs, Persist(w) PROVE AllWriters'
  <2>1. /\ Others(w) /\ SameOp(w) /\ proc[w].pc = "rename"
        /\ \/ proc'[w].pc = "idle" /\ proc'[w].store = <<>>
           \/ /\ proc[w].op # "revoke" /\ proc'[w].out = proc[w].out
              /\ proc'[w].store = proc[w].store
              /\ proc'[w].pc = IF w = Daemon THEN "signal" ELSE "keyopen"
    BY <1>8, PersistFacts
  <2>2. WriterOK(w)'
    BY <1>0, <1>3, <1>4, <2>1 DEF WriterOK, SameOp, Saving
  <2> QED
    BY <1>2, <2>1, <2>2
<1>9. ASSUME NEW w \in Procs, KeyOpen(w) PROVE AllWriters'
  <2>1. /\ Others(w) /\ SameOp(w)
        /\ proc[w].pc = "keyopen" /\ proc'[w].pc = "keywrite"
        /\ proc'[w].out = proc[w].out /\ proc'[w].store = proc[w].store
    BY <1>9, KeyOpenFacts
  <2>2. WriterOK(w)'
    BY <1>0, <1>4, <2>1 DEF WriterOK, SameOp, Saving
  <2> QED
    BY <1>2, <2>1, <2>2
<1>10. ASSUME NEW w \in Procs, KeyWrite(w) PROVE AllWriters'
  <2>1. /\ Others(w) /\ SameOp(w) /\ proc[w].pc = "keywrite"
        /\ \/ /\ w = Daemon /\ proc'[w].pc = "load" /\ proc'[w].out = proc[w].out
              /\ proc'[w].store = proc[w].store
           \/ proc'[w].pc = "idle" /\ proc'[w].store = <<>>
    BY <1>10, KeyWriteFacts
  <2>2. WriterOK(w)'
    BY <1>0, <1>3, <1>4, <2>1 DEF WriterOK, SameOp, Saving
  <2> QED
    BY <1>2, <2>1, <2>2
<1>11. ASSUME NEW w \in Procs, Signal(w) PROVE AllWriters'
  BY <1>2, <1>3, <1>11, SignalFacts
<1>12. ASSUME NEW w \in Procs, NEW op \in Ops, NEW p \in Peers, Begin(w, op, p) PROVE AllWriters'
  <2>1. /\ Others(w)
        /\ proc'[w].pc = IF op = "daemon" THEN "keyopen" ELSE "load"
        /\ proc'[w].op = op /\ (op = "daemon" <=> w = Daemon)
        /\ proc'[w].stamp = ops + 1 /\ proc'[w].out = "none" /\ proc'[w].store = <<>>
    BY <1>12, BeginFacts DEF Ops
  <2>2. ops + 1 > 0
    BY TypeParts
  <2>3. WriterOK(w)'
    BY <2>1, <2>2, EmptyStore DEF WriterOK, Saving, Ops
  <2> QED
    BY <1>2, <2>1, <2>3
<1>13. CASE WriteBack \/ UNCHANGED vars
  <2>1. UNCHANGED proc
    BY <1>13 DEF WriteBack, vars
  <2> QED
    BY <1>1, <2>1 DEF AllWriters
<1>14. CASE PowerLoss
  BY <1>3, <1>14, PowerLossFacts DEF AllWriters
<1> QED
  BY <1>5, <1>6, <1>7, <1>8, <1>9, <1>10, <1>11, <1>12, <1>13, <1>14, StepForms

-----------------------------------------------------------------------------
(* The numbers of the operations.                                             *)

(* A step that begins no operation keeps them; a writer may end.              *)
LEMMA StampsFrame ==
    ASSUME TypeOK, StampsOK, UNCHANGED <<ops, last, overlap>>,
           \A w \in Procs : SameOp(w) /\ (proc'[w].pc # "idle" => proc[w].pc # "idle")
    PROVE  StampsOK'
  BY DEF StampsOK, SameOp, Active

LEMMA OneMoves ==
    ASSUME NEW w \in Procs, Others(w), SameOp(w),
           proc'[w].pc # "idle" => proc[w].pc # "idle"
    PROVE  \A v \in Procs : SameOp(v) /\ (proc'[v].pc # "idle" => proc[v].pc # "idle")
  BY DEF Others, SameOp

LEMMA StampsKept ==
    ASSUME TypeOK, FilesOK, StampsOK, [Next]_vars
    PROVE  StampsOK'
<1>1. ASSUME NEW w \in Procs, EndsBadly(w) PROVE StampsOK'
  <2>1. Others(w) /\ SameOp(w) /\ proc'[w].pc = "idle" /\ UNCHANGED <<ops, last, overlap>>
    BY <1>1, FinishFacts, TypeParts DEF EndsBadly
  <2> QED
    BY <2>1, OneMoves, StampsFrame
<1>2. ASSUME NEW w \in Procs, SaveMoves(w) PROVE StampsOK'
  <2>1. Others(w) /\ SameOp(w) /\ proc[w].pc # "idle" /\ UNCHANGED <<ops, last, overlap>>
    BY <1>2, SaveMoveFacts DEF Saving, history
  <2> QED
    BY <2>1, OneMoves, StampsFrame
<1>3. ASSUME NEW w \in Procs, LoadAndChange(w) PROVE StampsOK'
  <2>1. Others(w) /\ SameOp(w)
    BY <1>3, LoadAndChangeSound, LoadChangeFacts DEF Sound
  <2>2. proc[w].pc # "idle" /\ UNCHANGED <<ops, last, overlap>>
    BY <1>3 DEF LoadAndChange, history
  <2> QED
    BY <2>1, <2>2, OneMoves, StampsFrame
<1>4. ASSUME NEW w \in Procs, Persist(w) \/ KeyOpen(w) \/ KeyWrite(w) \/ Signal(w) PROVE StampsOK'
  <2>1. Others(w) /\ SameOp(w) /\ proc[w].pc # "idle"
    BY <1>4, PersistFacts, KeyOpenFacts, KeyWriteFacts, SignalFacts
  <2>2. UNCHANGED <<ops, last, overlap>>
    BY <1>4 DEF Persist, KeyOpen, KeyWrite, Signal, history
  <2> QED
    BY <2>1, <2>2, OneMoves, StampsFrame
<1>5. ASSUME NEW w \in Procs, NEW op \in Ops, NEW p \in Peers, Begin(w, op, p) PROVE StampsOK'
  <2>1. /\ Others(w) /\ proc[w].pc = "idle"
        /\ proc'[w].peer = p /\ proc'[w].stamp = ops + 1
        /\ last' = [last EXCEPT ![p] = ops + 1] /\ ops' = ops + 1
    BY <1>5, BeginFacts DEF Ops
  <2>2. /\ overlap \subseteq overlap'
        /\ \A v \in Active : {proc[v].peer, p} \subseteq overlap'
    BY <1>5 DEF Begin
  <2>3. ops \in Nat /\ last \in [Peers -> 0..MaxOps]
        /\ \A v \in Procs : proc[v].stamp \in Nat /\ proc[v].peer \in Peers
    BY TypeParts
  <2>4. \A q \in Peers : /\ last[q] \in Nat /\ last[q] <= ops
                         /\ last'[q] \in Nat /\ last'[q] <= ops' /\ last[q] <= last'[q]
    BY <2>1, <2>3 DEF StampsOK
  <2>5. ASSUME NEW v \in Procs PROVE proc[v].stamp <= ops
    BY <2>3, <2>4 DEF StampsOK
  <2>6. ASSUME NEW v \in Procs PROVE proc'[v].stamp <= last'[proc'[v].peer]
    <3>1. CASE v = w
      BY <2>1, <2>3, <3>1
    <3>2. CASE v # w
      <4>1. proc'[v] = proc[v] /\ proc[v].stamp <= last[proc[v].peer]
        BY <2>1, <3>2 DEF Others, StampsOK
      <4>2. proc[v].peer \in Peers /\ proc[v].stamp \in Nat
        BY <2>3
      <4>3. last[proc[v].peer] <= last'[proc[v].peer]
        BY <2>4, <4>2
      <4> QED
        BY <2>4, <4>1, <4>2, <4>3
    <3> QED
      BY <3>1, <3>2
  <2>7. ASSUME NEW u \in Procs, NEW v \in Procs, u # v, proc'[u].stamp = proc'[v].stamp
        PROVE  proc'[u].stamp = 0
    <3>1. CASE u # w /\ v # w
      BY <2>1, <2>7, <3>1 DEF Others, StampsOK
    <3>2. CASE u = w \/ v = w
      <4>1. ASSUME NEW x \in Procs, x # w PROVE proc'[x].stamp # ops + 1
        BY <2>1, <2>3, <2>5, <4>1 DEF Others
      <4> QED
        BY <2>1, <2>7, <3>2, <4>1
    <3> QED
      BY <3>1, <3>2
  <2>8. ASSUME NEW u \in Procs, proc'[u].pc # "idle", NEW v \in Procs,
               proc'[v].stamp > proc'[u].stamp
        PROVE  {proc'[u].peer, proc'[v].peer} \subseteq overlap'
    <3>1. u # w
      BY <2>1, <2>3, <2>5, <2>8 DEF Others
    <3>2. proc'[u] = proc[u] /\ u \in Active
      BY <2>1, <2>8, <3>1 DEF Others, Active
    <3>3. CASE v = w
      BY <2>1, <2>2, <3>2, <3>3
    <3>4. CASE v # w
      BY <2>1, <2>2, <2>8, <3>2, <3>4 DEF Others, StampsOK
    <3> QED
      BY <3>3, <3>4
  <2> QED
    BY <2>4, <2>6, <2>7, <2>8 DEF StampsOK, Active
<1>6. CASE WriteBack \/ UNCHANGED vars
  <2>1. UNCHANGED <<proc, ops, last, overlap>>
    BY <1>6 DEF WriteBack, vars, history
  <2> QED
    BY <2>1 DEF StampsOK, Active
<1>7. CASE PowerLoss
  <2>1. UNCHANGED <<ops, last, overlap>>
    BY <1>7 DEF PowerLoss
  <2> QED
    BY <1>7, <2>1, PowerLossFacts, StampsFrame
<1> QED
  BY <1>1, <1>2, <1>3, <1>4, <1>5, <1>6, <1>7, StepForms

(* As long as no two operations overlapped, one writer is at work at most.    *)
LEMMA Alone ==
    ASSUME TypeOK, AllWriters, StampsOK, overlap = {},
           NEW v \in Procs, NEW w \in Procs, proc[v].pc # "idle", proc[w].pc # "idle"
    PROVE  v = w
<1>1. proc[v].stamp \in Nat /\ proc[w].stamp \in Nat /\ proc[v].stamp > 0
  BY TypeParts DEF AllWriters, WriterOK
<1>2. ~(proc[v].stamp > proc[w].stamp) /\ ~(proc[w].stamp > proc[v].stamp)
  BY DEF StampsOK, Active
<1> QED
  BY <1>1, <1>2 DEF StampsOK

(* The last operation on a peer, if no other overlapped with it, has the peer *)
(* to itself.                                                                 *)
LEMMA OwnPeer ==
    ASSUME TypeOK, AllWriters, StampsOK, NEW v \in Procs, NEW w \in Procs, v # w,
           LastOf(v), proc[v].peer \notin overlap, proc[w].pc # "idle"
    PROVE  proc[w].peer # proc[v].peer
<1>1. SUFFICES ASSUME proc[w].peer = proc[v].peer PROVE FALSE
  OBVIOUS
<1>2. proc[v].stamp \in Nat /\ proc[w].stamp \in Nat /\ proc[w].stamp > 0
  BY TypeParts DEF AllWriters, WriterOK
<1>3. proc[w].stamp <= proc[v].stamp
  BY <1>1 DEF StampsOK, LastOf
<1>4. proc[w].stamp # proc[v].stamp
  BY <1>2 DEF StampsOK
<1>5. proc[v].stamp > proc[w].stamp
  BY <1>2, <1>3, <1>4
<1> QED
  BY <1>5 DEF StampsOK, Active

-----------------------------------------------------------------------------
(* No update is lost.                                                         *)

LEMMA ChangedSame ==
    ASSUME NEW v, SameOp(v), UNCHANGED file
    PROVE  /\ Changed(v, file.bonds)' = Changed(v, file.bonds)
           /\ Has(file.bonds, proc[v].peer)' <=> Has(file.bonds, proc[v].peer)
  BY DEF Changed, SameOp

(* A step that saves nothing and loads nothing.                               *)
LEMMA SerialFrame ==
    ASSUME SerialWritersKeepUpdates, StoreIsCurrent, UNCHANGED <<file, ideal>>,
           overlap \subseteq overlap',
           \A v \in Procs : proc'[v].pc \in Saving =>
              SameOp(v) /\ proc[v].pc \in Saving /\ proc'[v].store = proc[v].store
    PROVE  SerialWritersKeepUpdates' /\ StoreIsCurrent'
<1>1. overlap' = {} => overlap = {}
  OBVIOUS
<1>2. SerialWritersKeepUpdates'
  BY <1>1 DEF SerialWritersKeepUpdates
<1>3. ASSUME NEW v \in Procs, overlap' = {}, proc'[v].pc \in Saving
      PROVE  /\ proc'[v].op = "revoke" => Has(file.bonds, proc[v].peer)'
             /\ proc'[v].store = Changed(v, file.bonds)'
  <2>1. SameOp(v) /\ proc[v].pc \in Saving /\ proc'[v].store = proc[v].store
    BY <1>3
  <2>2. /\ proc[v].op = "revoke" => Has(file.bonds, proc[v].peer)
        /\ proc[v].store = Changed(v, file.bonds)
    BY <1>1, <1>3, <2>1 DEF StoreIsCurrent
  <2>3. proc'[v].op = proc[v].op
    BY <2>1 DEF SameOp
  <2> QED
    BY <2>1, <2>2, <2>3, ChangedSame
<1>4. StoreIsCurrent'
  BY <1>3 DEF StoreIsCurrent
<1> QED
  BY <1>2, <1>4

LEMMA SerialKept ==
    ASSUME TypeOK, AllWriters, FilesOK, StampsOK, SerialWritersKeepUpdates, StoreIsCurrent,
           [Next]_vars
    PROVE  SerialWritersKeepUpdates' /\ StoreIsCurrent'
<1> DEFINE G == SerialWritersKeepUpdates' /\ StoreIsCurrent'
<1>1. ASSUME NEW w \in Procs, Others(w), UNCHANGED <<file, ideal, overlap>>,
             proc'[w].pc \in Saving =>
                SameOp(w) /\ proc[w].pc \in Saving /\ proc'[w].store = proc[w].store
      PROVE  G
  <2>1. \A v \in Procs : proc'[v].pc \in Saving =>
           SameOp(v) /\ proc[v].pc \in Saving /\ proc'[v].store = proc[v].store
    BY <1>1 DEF Others, SameOp
  <2> QED
    BY <1>1, <2>1, SerialFrame
<1>2. ASSUME NEW w \in Procs, EndsBadly(w) PROVE G
  <2>1. Others(w) /\ proc'[w].pc = "idle" /\ UNCHANGED <<file, ideal, overlap>>
    BY <1>2, FinishFacts, TypeParts DEF EndsBadly
  <2> QED
    BY <1>1, <2>1 DEF Saving
<1>3. ASSUME NEW w \in Procs, SaveMoves(w) PROVE G
  BY <1>1, <1>3, SaveMoveFacts DEF history
<1>4. ASSUME NEW w \in Procs, KeyOpen(w) \/ KeyWrite(w) \/ Signal(w) PROVE G
  <2>1. Others(w) /\ proc'[w].pc \in {"keywrite", "load", "idle"}
    BY <1>4, KeyOpenFacts, KeyWriteFacts, SignalFacts
  <2>2. UNCHANGED <<file, ideal, overlap>>
    BY <1>4 DEF KeyOpen, KeyWrite, Signal, filesUnchanged, history
  <2> QED
    BY <1>1, <2>1, <2>2 DEF Saving
<1>5. ASSUME NEW w \in Procs, NEW op \in Ops, NEW p \in Peers, Begin(w, op, p) PROVE G
  <2>1. Others(w) /\ proc'[w].pc \in {"keyopen", "load"}
    BY <1>5, BeginFacts DEF Ops
  <2>2. UNCHANGED <<file, ideal>> /\ overlap \subseteq overlap'
    BY <1>5 DEF Begin, filesUnchanged
  <2>3. \A v \in Procs : proc'[v].pc \in Saving =>
           SameOp(v) /\ proc[v].pc \in Saving /\ proc'[v].store = proc[v].store
    BY <2>1 DEF Others, SameOp, Saving
  <2> QED
    BY <2>2, <2>3, SerialFrame
<1>6. ASSUME NEW w \in Procs, LoadAndChange(w) PROVE G
  <2>1. /\ Sound(Changed(w, file.bonds))
        /\ proc[w].op = "revoke" => Has(file.bonds, proc[w].peer)
    BY <1>6, LoadAndChangeSound
  <2>2. Others(w) /\ SameOp(w) /\ proc'[w].store = Changed(w, file.bonds)
    BY <1>6, <2>1, LoadChangeFacts DEF Sound
  <2>3. UNCHANGED <<file, ideal, overlap>>
    BY <1>6 DEF LoadAndChange, filesUnchanged, history
  <2>4. SerialWritersKeepUpdates'
    BY <2>3 DEF SerialWritersKeepUpdates
  <2>5. ASSUME NEW v \in Procs, overlap' = {}, proc'[v].pc \in Saving
        PROVE  /\ proc'[v].op = "revoke" => Has(file.bonds, proc[v].peer)'
               /\ proc'[v].store = Changed(v, file.bonds)'
    <3>1. SameOp(v) /\ proc'[v].op = proc[v].op
      BY <2>2 DEF Others, SameOp
    <3>2. CASE v = w
      BY <2>1, <2>2, <2>3, <3>1, <3>2, ChangedSame
    <3>3. CASE v # w
      <4>1. proc'[v] = proc[v] /\ overlap = {}
        BY <2>2, <2>3, <2>5, <3>3 DEF Others
      <4> QED
        BY <2>3, <2>5, <3>1, <4>1, ChangedSame DEF StoreIsCurrent
    <3> QED
      BY <3>2, <3>3
  <2>6. StoreIsCurrent'
    BY <2>5 DEF StoreIsCurrent
  <2> QED
    BY <2>4, <2>6
<1>7. ASSUME NEW w \in Procs, Persist(w) PROVE G
  <2>1. /\ Others(w) /\ proc[w].pc = "rename" /\ proc[w].pc \in Saving
        /\ proc'[w].pc \in {"idle", "signal", "keyopen"}
    BY <1>7, PersistFacts DEF Saving
  <2>2. /\ file' = Toml(BOND_SCHEMA_VERSION_LATEST, proc[w].store) /\ overlap' = overlap
        /\ ideal' = [ideal EXCEPT ![proc[w].peer] = Intended(w, ideal[proc[w].peer])]
    BY <1>7 DEF Persist
  <2>3. ASSUME overlap = {} PROVE Records(file'.bonds) = ideal'
    <3>1. Sound(file.bonds)
      BY <2>1, LoadFacts, TypeParts DEF AllWriters, WriterOK, FilesOK, FileOK, Sound
    <3>2. /\ proc[w].op = "revoke" => Has(file.bonds, proc[w].peer)
          /\ proc[w].store = Changed(w, file.bonds)
      BY <2>1, <2>3 DEF StoreIsCurrent
    <3>3. Records(Changed(w, file.bonds)) =
             [Records(file.bonds) EXCEPT
                 ![proc[w].peer] = Intended(w, Records(file.bonds)[proc[w].peer])]
      BY <3>1, <3>2, ChangedFacts, TypeParts
    <3>4. Records(file.bonds) = ideal
      BY <2>3 DEF SerialWritersKeepUpdates
    <3>5. file'.bonds = proc[w].store
      BY <2>2 DEF Toml
    <3> QED
      BY <2>2, <3>2, <3>3, <3>4, <3>5
  <2>4. ASSUME overlap = {}, NEW v \in Procs PROVE proc'[v].pc \notin Saving
    <3>1. CASE v = w
      BY <2>1, <3>1 DEF Saving
    <3>2. CASE v # w
      <4>1. proc[v].pc = "idle"
        BY <2>1, <2>4, <3>2, Alone DEF Saving
      <4> QED
        BY <2>1, <3>2, <4>1 DEF Others, Saving
    <3> QED
      BY <3>1, <3>2
  <2> QED
    BY <2>2, <2>3, <2>4 DEF SerialWritersKeepUpdates, StoreIsCurrent
<1>8. CASE WriteBack \/ UNCHANGED vars
  <2>1. UNCHANGED <<proc, file, ideal, overlap>>
    BY <1>8 DEF WriteBack, vars, history
  <2>2. \A v \in Procs : SameOp(v)
    BY <2>1 DEF SameOp
  <2> QED
    BY <2>1, <2>2, SerialFrame
<1>9. CASE PowerLoss
  <2>1. \A v \in Procs : proc'[v].pc \notin Saving
    BY <1>9, PowerLossFacts DEF Saving
  <2>2. Records(file'.bonds) = ideal'
    BY <1>9 DEF PowerLoss
  <2> QED
    BY <2>1, <2>2 DEF SerialWritersKeepUpdates, StoreIsCurrent
<1> QED
  BY <1>2, <1>3, <1>4, <1>5, <1>6, <1>7, <1>8, <1>9, StepForms

-----------------------------------------------------------------------------
(* A pairing reported as done is usable.                                      *)

LEMMA NewBondRecord ==
    ASSUME NEW p \in Peers, NEW n \in 0..MaxOps, NEW s
    PROVE  NewBond(p, n) \in ToSet(s) <=> NewBond(p, n) \in Records(s)[p]
  BY NewBondType DEF Records

(* A writer that does not move: neither its key nor its record is lost as     *)
(* long as nothing else happens to its peer.                                  *)
LEMMA PairingFrame ==
    ASSUME NEW v \in Procs, PairingOK(v), proc'[v] = proc[v],
           overlap \subseteq overlap', failed => failed', LastOf(v)' => LastOf(v),
           LastOf(v) /\ proc[v].peer \notin overlap /\ key[proc[v].peer] = proc[v].stamp
              => key'[proc[v].peer] = proc[v].stamp,
           LastOf(v) /\ overlap = {} /\ BondWritten(v)
              /\ NewBond(proc[v].peer, proc[v].stamp) \in ToSet(file.bonds)
              => NewBond(proc[v].peer, proc[v].stamp) \in ToSet(file'.bonds)
    PROVE  PairingOK(v)'
<1>1. SUFFICES ASSUME LastOf(v)', proc'[v].peer \notin overlap', ~failed'
      PROVE  /\ KeyWritten(v)' => key'[proc'[v].peer] = proc'[v].stamp
             /\ BondWritten(v)' /\ overlap' = {} =>
                   NewBond(proc'[v].peer, proc'[v].stamp) \in ToSet(file'.bonds)
  BY DEF PairingOK
<1>2. LastOf(v) /\ proc[v].peer \notin overlap /\ ~failed
  BY <1>1
<1>3. (KeyWritten(v)' <=> KeyWritten(v)) /\ (BondWritten(v)' <=> BondWritten(v))
  BY DEF KeyWritten, BondWritten
<1>4. ASSUME KeyWritten(v)' PROVE key'[proc'[v].peer] = proc'[v].stamp
  BY <1>2, <1>3, <1>4 DEF PairingOK
<1>5. ASSUME BondWritten(v)', overlap' = {}
      PROVE  NewBond(proc'[v].peer, proc'[v].stamp) \in ToSet(file'.bonds)
  <2>1. overlap = {}
    BY <1>5
  <2>2. NewBond(proc[v].peer, proc[v].stamp) \in ToSet(file.bonds)
    BY <1>2, <1>3, <1>5, <2>1 DEF PairingOK
  <2> QED
    BY <1>2, <1>3, <1>5, <2>1, <2>2
<1> QED
  BY <1>4, <1>5

(* A writer that moves between two points where as much is done.              *)
LEMMA PairingMoves ==
    ASSUME NEW w \in Procs, PairingOK(w), SameOp(w), UNCHANGED <<last, overlap, failed, file>>,
           KeyWritten(w)' => KeyWritten(w) /\ key' = key,
           BondWritten(w)' => BondWritten(w)
    PROVE  PairingOK(w)'
<1>1. LastOf(w)' <=> LastOf(w)
  BY DEF LastOf, SameOp
<1> QED
  BY <1>1 DEF PairingOK, SameOp

AllPairings == \A w \in Procs : PairingOK(w)

LEMMA PairingKept ==
    ASSUME TypeOK, AllWriters, FilesOK, StampsOK, SerialWritersKeepUpdates, AllPairings,
           [Next]_vars, SerialWritersKeepUpdates'
    PROVE  AllPairings'
<1>0. \A v \in Procs : PairingOK(v) /\ WriterOK(v)
  BY DEF AllPairings, AllWriters
<1>1. ASSUME NEW w \in Procs, Others(w), UNCHANGED <<file, key, last, overlap>>, failed => failed',
             PairingOK(w)'
      PROVE  AllPairings'
  <2>1. ASSUME NEW v \in Procs, v # w PROVE PairingOK(v)'
    <3>1. proc'[v] = proc[v] /\ (LastOf(v)' <=> LastOf(v))
      BY <1>1, <2>1 DEF Others, LastOf
    <3> QED
      BY <1>0, <1>1, <3>1, PairingFrame
  <2> QED
    BY <1>1, <2>1 DEF AllPairings
<1>2. ASSUME NEW w \in Procs, EndsBadly(w) PROVE AllPairings'
  <2>1. /\ Others(w) /\ proc'[w].pc = "idle" /\ proc'[w].out # "bonded"
        /\ UNCHANGED <<file, key, last, overlap>>
    BY <1>2, FinishFacts, TypeParts DEF EndsBadly
  <2>2. failed => failed'
    BY <1>2 DEF EndsBadly
  <2>3. PairingOK(w)'
    BY <2>1 DEF PairingOK, KeyWritten, BondWritten, Saving
  <2> QED
    BY <1>1, <2>1, <2>2, <2>3
<1>3. ASSUME NEW w \in Procs, SaveMoves(w) PROVE AllPairings'
  <2>1. /\ Others(w) /\ SameOp(w) /\ proc[w].pc \in Saving /\ proc'[w].pc \in Saving
        /\ proc'[w].out = proc[w].out
        /\ UNCHANGED <<file, key, last, overlap, failed>>
    BY <1>3, SaveMoveFacts DEF history
  <2>2. PairingOK(w)'
    BY <1>0, <2>1, PairingMoves DEF KeyWritten, BondWritten, Saving
  <2> QED
    BY <1>1, <2>1, <2>2
<1>4. ASSUME NEW w \in Procs, LoadAndChange(w) PROVE AllPairings'
  <2>1. Others(w) /\ SameOp(w) /\ proc'[w].pc = "dir" /\ proc'[w].out = proc[w].out
    BY <1>4, LoadAndChangeSound, LoadChangeFacts DEF Sound
  <2>2. proc[w].pc = "load" /\ UNCHANGED <<file, key, last, overlap, failed>>
    BY <1>4 DEF LoadAndChange, filesUnchanged, history
  <2>3. PairingOK(w)'
    BY <1>0, <2>1, <2>2, PairingMoves DEF KeyWritten, BondWritten, Saving
  <2> QED
    BY <1>1, <2>1, <2>2, <2>3
<1>5. ASSUME NEW w \in Procs, Signal(w) PROVE AllPairings'
  <2>1. /\ Others(w) /\ SameOp(w) /\ proc[w].pc = "signal" /\ proc'[w].pc = "idle"
        /\ UNCHANGED <<file, key, last, overlap, failed>>
    BY <1>5, SignalFacts DEF history
  <2>2. w = Daemon
    BY <1>0, <2>1 DEF WriterOK
  <2>3. PairingOK(w)'
    BY <1>0, <2>1, <2>2, PairingMoves DEF KeyWritten, BondWritten
  <2> QED
    BY <1>1, <2>1, <2>3
<1>6. ASSUME NEW w \in Procs, KeyOpen(w) \/ KeyWrite(w), NEW n,
             key' = [key EXCEPT ![proc[w].peer] = n], PairingOK(w)'
      PROVE  AllPairings'
  <2>1. Others(w) /\ proc[w].pc # "idle"
    BY <1>6, KeyOpenFacts, KeyWriteFacts
  <2>2. UNCHANGED <<file, last, overlap, failed>>
    BY <1>6 DEF KeyOpen, KeyWrite, history
  <2>3. ASSUME NEW v \in Procs, v # w PROVE PairingOK(v)'
    <3>1. proc'[v] = proc[v] /\ (LastOf(v)' <=> LastOf(v)) /\ proc[v].peer \in Peers
      BY <2>1, <2>2, <2>3, TypeParts DEF Others, LastOf
    <3>2. ASSUME LastOf(v), proc[v].peer \notin overlap
          PROVE  key'[proc[v].peer] = key[proc[v].peer]
      <4>1. proc[w].peer # proc[v].peer
        BY <2>1, <2>3, <3>2, OwnPeer
      <4> QED
        BY <1>6, <3>1, <4>1, TypeParts
    <3> QED
      BY <1>0, <2>2, <3>1, <3>2, PairingFrame
  <2> QED
    BY <1>6, <2>3 DEF AllPairings
<1>7. ASSUME NEW w \in Procs, KeyOpen(w) PROVE AllPairings'
  <2>1. /\ SameOp(w) /\ proc[w].pc = "keyopen" /\ proc'[w].pc = "keywrite"
        /\ proc'[w].out = proc[w].out
    BY <1>7, KeyOpenFacts
  <2>2. proc[w].out = "none"
    BY <1>0, <2>1 DEF WriterOK
  <2>3. UNCHANGED <<last, overlap, failed, file>>
    BY <1>7 DEF KeyOpen, history
  <2>4. PairingOK(w)'
    BY <1>0, <2>1, <2>2, <2>3, PairingMoves DEF KeyWritten, BondWritten, Saving
  <2> QED
    BY <1>6, <1>7, <2>4 DEF KeyOpen
<1>8. ASSUME NEW w \in Procs, KeyWrite(w) PROVE AllPairings'
  <2>1. /\ SameOp(w) /\ proc[w].pc = "keywrite"
        /\ \/ w = Daemon /\ proc'[w].pc = "load" /\ proc'[w].out = proc[w].out
           \/ w # Daemon /\ proc'[w].pc = "idle" /\ proc'[w].out = "bonded"
    BY <1>8, KeyWriteFacts
  <2>2. proc[w].out = "none"
    BY <1>0, <2>1 DEF WriterOK
  <2>3. UNCHANGED <<last, overlap, failed, file>>
    BY <1>8 DEF KeyWrite, history
  <2>4. key'[proc[w].peer] = proc[w].stamp
    BY <1>8, TypeParts DEF KeyWrite
  <2>5. BondWritten(w)' => BondWritten(w)
    BY <2>1, <2>2 DEF BondWritten
  <2>6. PairingOK(w)'
    <3>1. LastOf(w)' <=> LastOf(w)
      BY <2>1, <2>3 DEF LastOf, SameOp
    <3> QED
      BY <1>0, <2>1, <2>3, <2>4, <2>5, <3>1 DEF PairingOK, SameOp
  <2> QED
    BY <1>6, <1>8, <2>6 DEF KeyWrite
<1>9. ASSUME NEW w \in Procs, Persist(w) PROVE AllPairings'
  <2>1. /\ Others(w) /\ SameOp(w) /\ proc[w].pc = "rename"
        /\ \/ proc[w].op = "revoke" /\ proc'[w].pc = "idle" /\ proc'[w].out = "revoked"
           \/ /\ proc[w].op # "revoke" /\ proc'[w].out = proc[w].out
              /\ proc'[w].pc = IF w = Daemon THEN "signal" ELSE "keyopen"
    BY <1>9, PersistFacts
  <2>2. /\ UNCHANGED <<key, last, overlap, failed>>
        /\ ideal' = [ideal EXCEPT ![proc[w].peer] = Intended(w, ideal[proc[w].peer])]
    BY <1>9 DEF Persist
  <2>3. overlap = {} => Records(file.bonds) = ideal /\ Records(file'.bonds) = ideal'
    BY <2>2 DEF SerialWritersKeepUpdates
  <2>4. proc[w].out = "none" /\ proc[w].peer \in Peers /\ proc[w].stamp \in 0..MaxOps
        /\ ideal \in [Peers -> SUBSET Bond]
    BY <1>0, <2>1, TypeParts DEF WriterOK, TypeOK
  <2>5. ASSUME NEW v \in Procs, v # w PROVE PairingOK(v)'
    <3>1. /\ proc'[v] = proc[v] /\ (LastOf(v)' <=> LastOf(v))
          /\ proc[v].peer \in Peers /\ proc[v].stamp \in 0..MaxOps
      BY <2>1, <2>2, <2>5, TypeParts DEF Others, LastOf
    <3>2. ASSUME LastOf(v), overlap = {},
                 NewBond(proc[v].peer, proc[v].stamp) \in ToSet(file.bonds)
          PROVE  NewBond(proc[v].peer, proc[v].stamp) \in ToSet(file'.bonds)
      <4>1. proc[w].peer # proc[v].peer
        BY <2>1, <2>5, <3>2, OwnPeer
      <4>2. Records(file'.bonds)[proc[v].peer] = Records(file.bonds)[proc[v].peer]
        BY <2>2, <2>3, <2>4, <3>1, <3>2, <4>1
      <4> QED
        BY <3>1, <3>2, <4>2, NewBondRecord
    <3> QED
      BY <1>0, <2>2, <3>1, <3>2, PairingFrame
  <2>6. PairingOK(w)'
    <3>1. LastOf(w)' <=> LastOf(w)
      BY <2>1, <2>2 DEF LastOf, SameOp
    <3>2. KeyWritten(w)' => KeyWritten(w)
      BY <2>1, <2>4 DEF KeyWritten, Saving
    <3>3. ASSUME BondWritten(w)', overlap = {}
          PROVE  NewBond(proc[w].peer, proc[w].stamp) \in ToSet(file'.bonds)
      <4>1. proc[w].op # "revoke"
        BY <2>1, <3>3 DEF BondWritten
      <4>2. Intended(w, ideal[proc[w].peer]) = {NewBond(proc[w].peer, proc[w].stamp)}
        BY <4>1 DEF Intended
      <4>3. Records(file'.bonds)[proc[w].peer] = {NewBond(proc[w].peer, proc[w].stamp)}
        BY <2>2, <2>3, <2>4, <3>3, <4>2
      <4> QED
        BY <2>4, <4>3, NewBondRecord
    <3>4. ASSUME KeyWritten(w)', LastOf(w)', proc'[w].peer \notin overlap', ~failed'
          PROVE  key'[proc'[w].peer] = proc'[w].stamp
      BY <1>0, <2>1, <2>2, <3>1, <3>2, <3>4 DEF PairingOK, SameOp
    <3>5. ASSUME BondWritten(w)', overlap' = {}
          PROVE  NewBond(proc'[w].peer, proc'[w].stamp) \in ToSet(file'.bonds)
      BY <2>1, <2>2, <3>3, <3>5 DEF SameOp
    <3> QED
      BY <3>4, <3>5 DEF PairingOK
  <2> QED
    BY <2>5, <2>6 DEF AllPairings
<1>10. ASSUME NEW w \in Procs, NEW op \in Ops, NEW p \in Peers, Begin(w, op, p) PROVE AllPairings'
  <2>1. /\ Others(w)
        /\ proc'[w].pc = IF op = "daemon" THEN "keyopen" ELSE "load"
        /\ (op = "daemon" <=> w = Daemon) /\ proc'[w].out = "none"
        /\ last' = [last EXCEPT ![p] = ops + 1]
    BY <1>10, BeginFacts DEF Ops
  <2>2. UNCHANGED <<file, key, failed>> /\ overlap \subseteq overlap'
    BY <1>10 DEF Begin, filesUnchanged
  <2>3. PairingOK(w)'
    BY <2>1 DEF PairingOK, KeyWritten, BondWritten, Saving
  <2>4. ASSUME NEW v \in Procs, v # w PROVE PairingOK(v)'
    <3>1. /\ proc'[v] = proc[v] /\ proc[v].peer \in Peers /\ proc[v].stamp \in Nat
          /\ ops \in Nat /\ last \in [Peers -> 0..MaxOps]
      BY <2>1, <2>4, TypeParts DEF Others
    <3>2. proc[v].stamp <= ops
      <4>1. proc[v].stamp <= last[proc[v].peer] /\ last[proc[v].peer] <= ops
        BY <3>1 DEF StampsOK
      <4>2. last[proc[v].peer] \in Nat
        BY <3>1
      <4> QED
        BY <3>1, <4>1, <4>2
    <3>3. LastOf(v)' => LastOf(v)
      <4>1. ASSUME last'[proc[v].peer] = proc[v].stamp PROVE last[proc[v].peer] = proc[v].stamp
        BY <2>1, <3>1, <3>2, <4>1
      <4> QED
        BY <3>1, <4>1 DEF LastOf
    <3> QED
      BY <1>0, <2>2, <3>1, <3>3, PairingFrame
  <2> QED
    BY <2>3, <2>4 DEF AllPairings
<1>11. CASE WriteBack \/ UNCHANGED vars
  <2>1. UNCHANGED <<proc, file, key, last, overlap, failed>>
    BY <1>11 DEF WriteBack, vars, history
  <2> QED
    BY <2>1 DEF AllPairings, PairingOK, LastOf, KeyWritten, BondWritten
<1>12. CASE PowerLoss
  <2>1. failed' = TRUE
    BY <1>12 DEF PowerLoss
  <2> QED
    BY <2>1 DEF AllPairings, PairingOK
<1> QED
  BY <1>2, <1>3, <1>4, <1>5, <1>7, <1>8, <1>9, <1>10, <1>11, <1>12, StepForms

-----------------------------------------------------------------------------
(* The start.                                                                 *)

LEMMA OldFiles ==
    ASSUME NEW f \in InitFiles
    PROVE  FileOK(f)
<1>1. ASSUME NEW p \in Peers, NEW st \in {"bonded", "revoked"}
      PROVE  OldBond(p, st) \in Bond
  BY DEF OldBond, NewBond, Bond
<1>2. ASSUME NEW p \in Peers, NEW q \in Peers
      PROVE  [OldBond(p, "bonded") EXCEPT !.pubkey = q] \in Bond
  <2>1. \A b \in Bond : [b EXCEPT !.pubkey = q] \in Bond
    BY DEF Bond
  <2> QED
    BY <1>1, <2>1
<1>3. ASSUME NEW v \in 0..2, NEW s \in Seq(Bond) PROVE FileOK(Toml(v, s))
  BY DEF Toml, FileOK
<1>4. FileOK(NoFile) /\ FileOK(Garbage)
  <2>1. <<>> \in Seq(Bond)
    OBVIOUS
  <2> QED
    BY <2>1 DEF NoFile, Garbage, FileOK
<1>5. ASSUME NEW a \in Bond PROVE <<a>> \in Seq(Bond)
  OBVIOUS
<1>6. ASSUME NEW a \in Bond, NEW b \in Bond PROVE <<a, b>> \in Seq(Bond)
  OBVIOUS
<1>7. ASSUME NEW p \in Peers, NEW q \in Peers, NEW st \in {"bonded", "revoked"},
             f = OldFile(p, q, st)
      PROVE  FileOK(f)
  <2>1. <<OldBond(p, "bonded"), OldBond(q, st)>> \in Seq(Bond)
    BY <1>1, <1>6
  <2>2. 1 \in 0..2
    OBVIOUS
  <2> QED
    BY <1>3, <1>7, <2>1, <2>2, Zenon DEF OldFile
<1>8. ASSUME NEW p \in Peers, f = NewerFile(p) PROVE FileOK(f)
  <2>1. <<OldBond(p, "bonded")>> \in Seq(Bond)
    BY <1>1, <1>5
  <2> QED
    BY <1>3, <1>8, <2>1 DEF NewerFile
<1>9. ASSUME NEW p \in Peers, NEW q \in Peers,
             f = EditedFile(p, q)
      PROVE  FileOK(f)
  <2>1. <<[OldBond(p, "bonded") EXCEPT !.pubkey = q]>> \in Seq(Bond)
    BY <1>2, <1>5
  <2>2. 1 \in 0..2
    OBVIOUS
  <2> QED
    BY <1>3, <1>9, <2>1, <2>2, Zenon DEF EditedFile
<1> QED
  BY <1>4, <1>7, <1>8, <1>9 DEF InitFiles

LEMMA InitInv == Init => IInv
<1> SUFFICES ASSUME Init PROVE IInv
  OBVIOUS
<1>1. FileOK(file) /\ disk = file /\ UniqueIds(file.bonds) /\ file.bonds \in Seq(Bond)
  BY OldFiles DEF Init, FileOK
<1>2. \A w \in Procs : proc[w] = Idle
  BY DEF Init
<1>3. Idle.pc = "idle" /\ Idle.out = "none" /\ Idle.op = "none" /\ Idle.stamp = 0
      /\ Idle.store = <<>> /\ Idle.peer \in Peers
  BY IdleType DEF Idle, Writer
<1>4. TypeOK
  <2>1. dir \in {"absent", "tight", "loose", "notdir"}
    BY DEF Init
  <2>2. proc \in [Procs -> Writer]
    BY IdleType DEF Init
  <2>3. key \in [Peers -> 0..Torn] /\ keyDisk \in [Peers -> 0..Torn]
    BY DEF Init, Missing, Torn
  <2>4. ideal \in [Peers -> SUBSET Bond]
    BY <1>1, RecordsType DEF Init
  <2>5. ops \in 0..MaxOps /\ last \in [Peers -> 0..MaxOps] /\ overlap \subseteq Peers
    BY DEF Init
  <2>6. failed \in BOOLEAN
    BY Zenon DEF Init
  <2> QED
    BY <1>1, <2>1, <2>2, <2>3, <2>4, <2>5, <2>6 DEF TypeOK
<1>5. \A w \in Procs : WriterOK(w)
  BY <1>2, <1>3, EmptyStore DEF WriterOK, Saving
<1>6. FilesOK
  BY <1>1 DEF FilesOK
<1>7. StampsOK
  <2>1. (\A p \in Peers : last[p] = 0) /\ ops = 0
    BY DEF Init
  <2> QED
    BY <1>2, <1>3, <2>1 DEF StampsOK, Active
<1>8. SerialWritersKeepUpdates
  BY DEF Init, SerialWritersKeepUpdates
<1>9. StoreIsCurrent
  BY <1>2, <1>3 DEF StoreIsCurrent, Saving
<1>10. \A w \in Procs : PairingOK(w)
  BY <1>2, <1>3 DEF PairingOK, KeyWritten, BondWritten, Saving
<1> QED
  BY <1>4, <1>5, <1>6, <1>7, <1>8, <1>9, <1>10 DEF IInv

LEMMA StepInv == IInv /\ [Next]_vars => IInv'
<1> SUFFICES ASSUME IInv, [Next]_vars PROVE IInv'
  OBVIOUS
<1>1. /\ TypeOK /\ AllWriters /\ FilesOK /\ StampsOK /\ SerialWritersKeepUpdates
      /\ StoreIsCurrent /\ AllPairings
  BY DEF IInv, AllWriters, AllPairings
<1>2. TypeOK'
  BY <1>1, TypeKept DEF AllWriters
<1>3. AllWriters'
  BY <1>1, WritersKept
<1>4. FilesOK'
  BY <1>1, FilesKept
<1>5. StampsOK'
  BY <1>1, StampsKept
<1>6. SerialWritersKeepUpdates' /\ StoreIsCurrent'
  BY <1>1, SerialKept
<1>7. AllPairings'
  BY <1>1, <1>6, PairingKept
<1> QED
  BY <1>2, <1>3, <1>4, <1>5, <1>6, <1>7 DEF IInv, AllWriters, AllPairings

-----------------------------------------------------------------------------
(* The theorems.                                                              *)

(* The inductive invariant holds in every reachable state.                    *)
THEOREM Inductive == Spec => []IInv
  BY InitInv, StepInv, PTL DEF Spec

(* A peer has one record in bonds.toml, also when unlocked writers overwrite  *)
(* each other and the power is lost in between.                               *)
THEOREM PeersHaveOneRecord == Spec => []OneRecordPerPeer
<1>1. IInv => OneRecordPerPeer
  BY DEF IInv, FilesOK, OneRecordPerPeer
<1> QED
  BY <1>1, Inductive, PTL

(* No update is lost as long as operations do not overlap, whatever fails.    *)
THEOREM UpdatesAreKept == Spec => []SerialWritersKeepUpdates
<1>1. IInv => SerialWritersKeepUpdates
  BY DEF IInv
<1> QED
  BY <1>1, Inductive, PTL

(* A pairing reported as done left its record and its own key.                *)
THEOREM PairingsAreUsable == Spec => []DonePairingUsable
<1>1. IInv => DonePairingUsable
  BY DEF IInv, PairingOK, KeyWritten, BondWritten, DonePairingUsable
<1> QED
  BY <1>1, Inductive, PTL

(* Whatever is interrupted, bonds.toml stays loadable, a file the program     *)
(* cannot load is left alone, and it is only replaced in a private directory. *)
THEOREM BondsFileIsKept == Spec => FileKept
<1>1. IInv /\ [Next]_vars => [FileStep]_vars
  <2> SUFFICES ASSUME IInv, [Next]_vars PROVE FileStep
    OBVIOUS
  <2>1. TypeOK /\ FilesOK /\ AllWriters
    BY DEF IInv, AllWriters
  <2>2. /\ Foreign(file) => file' = file
        /\ ~Foreign(file) => ~Foreign(file')
    BY <2>1, FilesKept
  <2>3. FileOK(file) /\ FileOK(file')
    <3>1. TypeOK'
      BY <2>1, TypeKept DEF AllWriters
    <3> QED
      BY <2>1, <3>1 DEF TypeOK
  <2>4. LoadError(file) = "none" => LoadError(file') = "none"
    BY <2>2, <2>3, LoadFacts
  <2>5. \A w \in Procs : proc[w].pc = "rename" => dir = "tight"
    BY <2>1 DEF AllWriters, WriterOK
  <2> QED
    BY <2>2, <2>4, <2>5 DEF FileStep
<1> QED
  BY <1>1, Inductive, PTL DEF Spec, FileKept
===============================================================================

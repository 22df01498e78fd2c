---------------------------- MODULE ReplayCache -----------------------------
(* ReplayCache (crates/syauth-core/src/replay.rs): a bounded queue of the      *)
(* nonces accepted lately, oldest first, each with the instant of acceptance.  *)
(* An observation first drops expired entries from the front, then looks the   *)
(* nonce up, then appends it and drops from the front what exceeds the cap.    *)
(* `accepted` is the history of Fresh answers, which the cache may forget.      *)
EXTENDS Naturals, Sequences

CONSTANTS
    CacheNonces,    \* nonces observed
    Caps,           \* capacities, DEFAULT_REPLAY_CAP is 64
    Ttls,           \* lifetimes, DEFAULT_REPLAY_TTL is 10 s
    CacheHorizon    \* bound: last instant

ASSUME ReplayCacheAssumption ==
    /\ Caps \subseteq Nat /\ \E c \in Caps : \A d \in Caps : d <= c
    /\ Ttls \subseteq Nat
    /\ CacheHorizon \in Nat

VARIABLES
    cap, ttl,       \* fixed by ReplayCache::new
    entries,        \* VecDeque<(nonce, Instant)>
    clock,          \* Instant::now, which never goes back
    accepted,       \* history: <<nonce, instant>> of the latest Fresh answers
    answer          \* last observation: [nonce, at, acceptance]

cacheVars == <<cap, ttl, entries, clock, accepted, answer>>

NoAnswer == [nonce |-> "none", at |-> 0, acceptance |-> "none"]

(* The queue holds nonces with the instant they were accepted, no more than    *)
(* cap of them.                                                                *)
CacheTypeOK ==
    /\ cap \in Caps /\ ttl \in Ttls
    /\ Len(entries) <= cap
    /\ \A i \in DOMAIN entries : entries[i] \in CacheNonces \X (0..CacheHorizon)
    /\ clock \in 0..CacheHorizon
    /\ \A i \in DOMAIN entries : entries[i][2] <= clock

CacheInit ==
    /\ cap \in Caps /\ ttl \in Ttls
    /\ entries = <<>> /\ clock = 0 /\ accepted = <<>> /\ answer = NoAnswer

(* Variant: an entry lives one instant longer.                                 *)
ExpiredLate(e) == clock - e[2] > ttl

Expired(e) == clock - e[2] >= ttl

(* evict_expired: stops at the first entry that is still alive.                *)
EvictExpired(es) ==
    LET alive == {i \in DOMAIN es : ~Expired(es[i])}
    IN  IF alive = {} THEN <<>>
        ELSE SubSeq(es, CHOOSE i \in alive : \A j \in alive : i <= j, Len(es))

(* The last c elements, all of them if there are no more.                      *)
TakeLast(s, c) == SubSeq(s, IF Len(s) > c THEN Len(s) - c + 1 ELSE 1, Len(s))

Push(es, e) == TakeLast(Append(es, e), cap)

(* The history keeps as much as the largest capacity needs.                    *)
LargestCap == CHOOSE c \in Caps : \A d \in Caps : d <= c
Remember(h, e) == TakeLast(Append(h, e), LargestCap)

Observe(n) ==
    LET alive == EvictExpired(entries)
    IN  \/ /\ \E i \in DOMAIN alive : alive[i][1] = n
           /\ entries' = alive
           /\ answer' = [nonce |-> n, at |-> clock, acceptance |-> "Replayed"]
           /\ UNCHANGED <<cap, ttl, clock, accepted>>
        \/ /\ \A i \in DOMAIN alive : alive[i][1] # n
           /\ entries' = IF cap = 0 THEN alive ELSE Push(alive, <<n, clock>>)
           /\ answer' = [nonce |-> n, at |-> clock, acceptance |-> "Fresh"]
           /\ accepted' = Remember(accepted, <<n, clock>>)
           /\ UNCHANGED <<cap, ttl, clock>>

ClockTick ==
    /\ clock < CacheHorizon
    /\ clock' = clock + 1
    /\ UNCHANGED <<cap, ttl, entries, accepted, answer>>

CacheNext == (\E n \in CacheNonces : Observe(n)) \/ ClockTick

CacheSpec == CacheInit /\ [][CacheNext]_cacheVars

-----------------------------------------------------------------------------
(* The reference: a nonce is a replay exactly when it is among the last cap    *)
(* accepted ones and was accepted less than ttl ago.  So a nonce accepted      *)
(* twice within the ttl has been pushed out by cap later ones, and a replayed  *)
(* observation neither renews an entry nor costs another one its place.        *)
WindowStep ==
    answer' # answer \/ accepted' # accepted =>
        LET n == answer'.nonce
            window == {i \in DOMAIN accepted : i > Len(accepted) - cap}
        IN  answer'.acceptance = "Replayed"
              <=> \E i \in window : accepted[i][1] = n /\ clock - accepted[i][2] < ttl
AnswersLikeWindow == [][WindowStep]_cacheVars

-----------------------------------------------------------------------------
(* The inductive invariant.  Counted from the newest, the queue and the        *)
(* history agree as far as the queue reaches, and what the capacity would let  *)
(* it hold beyond that has expired.                                            *)
Newest(s, d) == s[Len(s) - d]
Entry == CacheNonces \X (0..CacheHorizon)

CacheInv ==
    /\ cap \in Caps /\ ttl \in Ttls /\ clock \in 0..CacheHorizon
    /\ entries \in Seq(Entry) /\ accepted \in Seq(Entry)
    /\ Len(entries) <= cap /\ Len(entries) <= Len(accepted)
    /\ \A d \in 0..(Len(entries) - 1) : Newest(entries, d) = Newest(accepted, d)
    /\ \A d \in Len(entries)..(Len(accepted) - 1) : d < cap => Expired(Newest(accepted, d))
    /\ \A d \in 0..(Len(accepted) - 1) :
          /\ Newest(accepted, d)[2] <= clock
          /\ \A c \in 0..d : Newest(accepted, d)[2] <= Newest(accepted, c)[2]
=============================================================================

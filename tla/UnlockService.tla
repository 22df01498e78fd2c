---------------------------- MODULE UnlockService ----------------------------
(* What the daemon promises a PAM caller (Request::Challenge and its answer,  *)
(* crates/syauth-presenced/src/rpc.rs, with the taxonomy of ChallengeOutcome):*)
(* every request about a peer asks at most one question, phones sign only     *)
(* questions that some request asked (a question may end up on another phone  *)
(* than the one it is meant for), and a request is answered once, with "ok"   *)
(* only if the phone it is about signed the request's own question.  How the  *)
(* question travels, what happens to late answers, and which peers are known  *)
(* at the moment are left open.                                               *)
CONSTANTS Peers, Requests, Nonces, None, Outcomes

VARIABLES
    state,   \* "idle", "open" or "closed", per request
    who,     \* the peer a request is about, None before it is opened
    asked,   \* the nonce it drew and notified, None before that
    answer,  \* the reason string returned, "none" before that
    signed   \* <<peer, nonce>> signed by the phones

svcVars == <<state, who, asked, answer, signed>>

SvcInit ==
    /\ state = [r \in Requests |-> "idle"]
    /\ who = [r \in Requests |-> None]
    /\ asked = [r \in Requests |-> None]
    /\ answer = [r \in Requests |-> "none"]
    /\ signed = {}

Open(r, p) ==
    /\ state[r] = "idle"
    /\ state' = [state EXCEPT ![r] = "open"]
    /\ who' = [who EXCEPT ![r] = p]
    /\ UNCHANGED <<asked, answer, signed>>

(* A request about a peer that is not live is answered at once.               *)
Refuse(r, p) ==
    /\ state[r] = "idle"
    /\ state' = [state EXCEPT ![r] = "closed"]
    /\ who' = [who EXCEPT ![r] = p]
    /\ answer' = [answer EXCEPT ![r] = "unknown-peer"]
    /\ UNCHANGED <<asked, signed>>

Ask(r, n) ==
    /\ state[r] = "open"
    /\ asked[r] = None
    /\ asked' = [asked EXCEPT ![r] = n]
    /\ UNCHANGED <<state, who, answer, signed>>

Sign(p, n) ==
    /\ \E r \in Requests : asked[r] = n
    /\ signed' = signed \cup {<<p, n>>}
    /\ UNCHANGED <<state, who, asked, answer>>

Answer(r, o) ==
    /\ state[r] = "open"
    /\ o = "ok" => <<who[r], asked[r]>> \in signed
    /\ state' = [state EXCEPT ![r] = "closed"]
    /\ answer' = [answer EXCEPT ![r] = o]
    /\ UNCHANGED <<who, asked, signed>>

SvcNext ==
    \/ \E r \in Requests, p \in Peers : Open(r, p) \/ Refuse(r, p)
    \/ \E r \in Requests, n \in Nonces : Ask(r, n)
    \/ \E p \in Peers, n \in Nonces : Sign(p, n)
    \/ \E r \in Requests, o \in Outcomes : Answer(r, o)

SvcSpec == SvcInit /\ [][SvcNext]_svcVars
=============================================================================

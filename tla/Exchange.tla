------------------------------ MODULE Exchange ------------------------------
(* One challenge and its answer, byte for byte: the frame the orchestrator     *)
(* builds (run_challenge), what a phone makes of the bytes it is notified of   *)
(* (the companion service, and the syauth-mobile bindings), and what the       *)
(* orchestrator makes of the bytes written back (parse_signature,              *)
(* verify_frame).  MACs and signatures are symbolic bytes nobody else can      *)
(* produce.  Module Presenced has the concurrency; this one has the bytes.     *)
EXTENDS Frame

CONSTANTS
    Phones,         \* paired phones, each with its bond key and its Ed25519 key
    SignatureLen,   \* SIGNATURE_LEN, 64
    StripLen,       \* the 16 the companion service cuts off a frame
    MaxChallenges   \* bound: challenges issued

ASSUME ExchangeAssumption ==
    /\ SignatureLen \in Nat \ {0}
    /\ StripLen \in Nat
    /\ MaxChallenges \in Nat
    /\ SignatureLen <= MaxPayload

NoOne == "no one"

VARIABLES
    open,       \* challenge in progress: [to, number], number 0 = none
    issued,     \* challenges issued so far
    got,        \* per phone: the notification it received and its true origin
    response,    \* a response written and not yet read: bytes, and how they came about
    approvals,  \* history: <<phone, challenge number>> a user approved
    verdict     \* last outcome: "none", "ok", "bad-signature", "timeout", with the challenge

exchangeVars == <<open, issued, got, response, approvals, verdict>>

Nothing == [bytes |-> <<>>, to |-> NoOne, number |-> 0]
NoResponse == [bytes |-> <<>>, by |-> NoOne, number |-> 0, how |-> "none"]
NoVerdict == [outcome |-> "none", to |-> NoOne, number |-> 0, how |-> "none", by |-> NoOne]

-----------------------------------------------------------------------------
(* compute_tag, verify_tag, sign_frame, verify_frame.                          *)
ComputeTag(bondKey, body) == [i \in 1..TagLen |-> <<"mac", bondKey, body, i>>]
VerifyTag(bondKey, body, tag) == ComputeTag(bondKey, body) = tag
Sign(phone, body) == [i \in 1..SignatureLen |-> <<"sig", phone, body, i>>]
VerifySig(phone, body, sig) == Sign(phone, body) = sig

(* Variant: every challenge carries the same nonce.                            *)
NonceConstant(n) == [i \in 1..NonceLen |-> <<"nonce", 0>>]

NonceOf(n) == [i \in 1..NonceLen |-> <<"nonce", n>>]

(* run_challenge: version, nonce, no payload, the tag under the bond key.      *)
Challenge(phone, n) ==
    LET bare == [version |-> V1, nonce |-> NonceOf(n), payload |-> <<>>, tag |-> <<>>]
    IN  [bare EXCEPT !.tag = ComputeTag(phone, BodyBytes(bare))]

(* verify_challenge_frame of the bindings: decode, then check the tag.         *)
VerifyChallengeFrame(phone, bytes) ==
    LET r == Decode(bytes)
    IN  r.ok /\ VerifyTag(phone, BodyBytes(r.frame), r.frame.tag)

(* Variant: the tag is signed along with the body.                             *)
StripNothing(bytes) == bytes

(* onChallenge of the companion service: cut the tag off, without decoding.    *)
StripTag(bytes) ==
    IF Len(bytes) > StripLen THEN SubSeq(bytes, 1, Len(bytes) - StripLen) ELSE bytes

(* build_response_frame: the signature of the challenge's body as the payload  *)
(* of a frame of its own; no frame when the challenge does not decode.         *)
ResponseFrame(phone, bytes, nonce) ==
    LET body == BodyBytes(Decode(bytes).frame)
        bare == [version |-> V1, nonce |-> nonce, payload |-> Sign(phone, body), tag |-> <<>>]
    IN  Encode([bare EXCEPT !.tag = ComputeTag(phone, BodyBytes(bare))])

Denied == [i \in 1..SignatureLen |-> Raw(0)]

(* parse_signature and verify_frame on the challenge the call kept.            *)
Accepts(phone, n, bytes) ==
    /\ Len(bytes) = SignatureLen
    /\ VerifySig(phone, BodyBytes(Challenge(phone, n)), bytes)

-----------------------------------------------------------------------------
ExchangeInit ==
    /\ open = [to |-> NoOne, number |-> 0]
    /\ issued = 0
    /\ got = [p \in Phones |-> Nothing]
    /\ response = NoResponse
    /\ approvals = {}
    /\ verdict = NoVerdict

Issue(p) ==
    /\ open.number = 0
    /\ issued < MaxChallenges
    /\ issued' = issued + 1
    /\ open' = [to |-> p, number |-> issued + 1]
    /\ UNCHANGED <<got, response, approvals, verdict>>

(* The notification reaches a phone whole, cut to what an ATT payload of the   *)
(* link's MTU holds, or, the session being another phone's, that phone.        *)
Notify(q, len) ==
    LET bytes == Encode(Challenge(open.to, open.number))
    IN  /\ open.number # 0
        /\ len \in 1..Len(bytes)
        /\ got' = [got EXCEPT ![q] = [bytes |-> SubSeq(bytes, 1, len),
                                      to |-> open.to, number |-> open.number]]
        /\ UNCHANGED <<open, issued, response, approvals, verdict>>

(* ChallengeApprovalActivity: the user approves; the stripped bytes are signed *)
(* and the bare signature is written.                                          *)
Approve(q) ==
    /\ got[q] # Nothing
    /\ response.how = "none"
    /\ response' = [bytes |-> Sign(q, StripTag(got[q].bytes)), by |-> q, number |-> got[q].number,
                   how |-> IF got[q].bytes = Encode(Challenge(got[q].to, got[q].number))
                           THEN "whole" ELSE "cut"]
    /\ approvals' = approvals \cup {<<q, got[q].number>>}
    /\ got' = [got EXCEPT ![q] = Nothing]
    /\ UNCHANGED <<open, issued, verdict>>

(* ApproveViewModel with UniffiWireSigner: the framed response.                *)
ApproveFramed(q) ==
    /\ got[q] # Nothing
    /\ response.how = "none"
    /\ Decode(got[q].bytes).ok
    /\ response' = [bytes |-> ResponseFrame(q, got[q].bytes, NonceOf(0)), by |-> q,
                   number |-> got[q].number, how |-> "framed"]
    /\ approvals' = approvals \cup {<<q, got[q].number>>}
    /\ got' = [got EXCEPT ![q] = Nothing]
    /\ UNCHANGED <<open, issued, verdict>>

Refuse(q) ==
    /\ got[q] # Nothing
    /\ response.how = "none"
    /\ response' = [bytes |-> Denied, by |-> q, number |-> got[q].number, how |-> "denied"]
    /\ got' = [got EXCEPT ![q] = Nothing]
    /\ UNCHANGED <<open, issued, approvals, verdict>>

(* wait_for_response returns bytes: the verdict.  They may answer an earlier   *)
(* challenge whose call has timed out.                                         *)
Read ==
    /\ open.number # 0
    /\ response.how # "none"
    /\ verdict' = [outcome |-> IF Accepts(open.to, open.number, response.bytes)
                               THEN "ok" ELSE "bad-signature",
                   to |-> open.to, number |-> open.number, how |-> response.how, by |-> response.by]
    /\ response' = NoResponse
    /\ open' = [to |-> NoOne, number |-> 0]
    /\ UNCHANGED <<issued, got, approvals>>

GiveUp ==
    /\ open.number # 0
    /\ verdict' = [outcome |-> "timeout", to |-> open.to, number |-> open.number,
                   how |-> "none", by |-> NoOne]
    /\ open' = [to |-> NoOne, number |-> 0]
    /\ UNCHANGED <<issued, got, response, approvals>>

ExchangeNext ==
    \/ \E p \in Phones : Issue(p) \/ Approve(p) \/ ApproveFramed(p) \/ Refuse(p)
    \/ \E p \in Phones, len \in 1..(MinFrameLen + MaxPayload) : Notify(p, len)
    \/ Read
    \/ GiveUp

ExchangeSpec == ExchangeInit /\ [][ExchangeNext]_exchangeVars

-----------------------------------------------------------------------------
(* An "ok" means that the user of the phone that was asked approved a prompt   *)
(* raised by this very challenge, and not an earlier one or one of another     *)
(* phone.                                                                      *)
OkMeansThisChallenge ==
    verdict.outcome = "ok" => <<verdict.to, verdict.number>> \in approvals

(* A signature the asked phone made over a notification that arrived whole is  *)
(* accepted: the bytes the Kotlin side signs are the bytes the Rust side       *)
(* verifies, though one strips a constant and the other re-encodes a frame.    *)
WholeStep ==
    /\ verdict' # verdict
    /\ response.how = "whole" /\ response.by = open.to /\ response.number = open.number
    /\ verdict'.outcome # "timeout"
    => verdict'.outcome = "ok"
WholeApprovalUnlocks == [][WholeStep]_exchangeVars

(* The bindings' check takes exactly the frames the desktop built for that     *)
(* phone: no prefix of one and none meant for another phone.                   *)
VerifiesExactlyGenuine ==
    \A q \in Phones : got[q] # Nothing =>
        (VerifyChallengeFrame(q, got[q].bytes)
            <=> got[q].bytes = Encode(Challenge(q, got[q].number)))

-----------------------------------------------------------------------------
(* The inductive invariant: a phone holds a prefix of some challenge, and      *)
(* bytes that would pass for an answer to a challenge exist only if the phone  *)
(* it was sent to approved it.                                                 *)
Genuine(g) ==
    /\ g.number \in 1..MaxChallenges
    /\ \E p \in Phones :
          LET frame == Encode(Challenge(p, g.number))
          IN  g.to = p /\ \E len \in 1..Len(frame) : g.bytes = SubSeq(frame, 1, len)

AnswersApproved ==
    \A p \in Phones, n \in 1..MaxChallenges :
        Accepts(p, n, response.bytes) => <<p, n>> \in approvals

(* The signature of a notification that arrived whole.                         *)
WholeIsAccepted ==
    StripLen = TagLen /\ response.how = "whole" =>
        Accepts(response.by, response.number, response.bytes)

ExchangeInv ==
    /\ issued \in 0..MaxChallenges
    /\ open.number \in 0..issued
    /\ open.number # 0 => open.to \in Phones
    /\ DOMAIN got = Phones
    /\ \A q \in Phones : got[q] = Nothing \/ Genuine(got[q])
    /\ AnswersApproved
    /\ WholeIsAccepted
    /\ OkMeansThisChallenge
=============================================================================

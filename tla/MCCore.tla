------------------------------- MODULE MCCore -------------------------------
(* The library code under the daemon and the app: wire format, one exchange,   *)
(* replay cache, minute rotation and invite parser.  They share no state, so   *)
(* a behaviour of this model drives one of them, chosen at the start, and      *)
(* leaves the others in their initial state.                                   *)
EXTENDS Exchange, ReplayCache, Discovery, Invite

VARIABLE part   \* the component this behaviour drives

vars == <<part, frameVars, exchangeVars, cacheVars, discoveryVars, inviteVars>>

Parts == {"frame", "exchange", "cache", "discovery", "invite"}

Init ==
    /\ part \in Parts
    /\ FrameInit /\ ExchangeInit /\ CacheInit /\ DiscoveryInit /\ InviteInit
    /\ part # "cache" => cap = 0 /\ ttl = 1
    /\ part # "discovery" => wall = 0

DriveFrame ==
    /\ part = "frame" /\ FrameNext
    /\ UNCHANGED <<part, exchangeVars, cacheVars, discoveryVars, inviteVars>>

DriveExchange ==
    /\ part = "exchange" /\ ExchangeNext
    /\ UNCHANGED <<part, frameVars, cacheVars, discoveryVars, inviteVars>>

DriveCache ==
    /\ part = "cache" /\ CacheNext
    /\ UNCHANGED <<part, frameVars, exchangeVars, discoveryVars, inviteVars>>

DriveDiscovery ==
    /\ part = "discovery" /\ DiscoveryNext
    /\ UNCHANGED <<part, frameVars, exchangeVars, cacheVars, inviteVars>>

DriveInvite ==
    /\ part = "invite" /\ InviteNext
    /\ UNCHANGED <<part, frameVars, exchangeVars, cacheVars, discoveryVars>>

Next == DriveFrame \/ DriveExchange \/ DriveCache \/ DriveDiscovery \/ DriveInvite

Spec == Init /\ [][Next]_vars

(* The code without state of its own agrees with its reference on every input  *)
(* the drivers reach: Frame::decode and reassemble undo encode and a cut into  *)
(* segments and refuse everything else, verify_challenge_frame takes exactly   *)
(* the frames made for that phone, parse_invite_uri answers like the last      *)
(* value of each key; and the replay cache keeps to its capacity.              *)
PureCodeAgrees ==
    /\ DecodeInvertsEncode /\ ReassembleInvertsCut
    /\ VerifiesExactlyGenuine
    /\ ParsesLikeReference
    /\ CacheTypeOK

(* What the drivers feed in, and the inductive invariants of the parts that    *)
(* have a state.                                                               *)
InputsOK ==
    /\ wire \in Seq(PlainBytes)
    /\ segments \in Seq(Segment)
    /\ prefix \in {"none", "scheme", "invite"}
    /\ query \in Seq(Pairs)

LibraryInv == InputsOK /\ ExchangeInv /\ CacheInv
=============================================================================

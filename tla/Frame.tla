------------------------------- MODULE Frame --------------------------------
(* The wire format of syauth-core (frame.rs) and the fragment reassembly of    *)
(* syauth-transport (bluez.rs), as pure operators over byte strings, with a    *)
(* driver that feeds them every string up to a bound, one byte or one segment  *)
(* at a time.  A byte is a tuple so that the symbolic bytes of a MAC or of a   *)
(* signature (module Exchange) can stand beside plain ones; the field lengths  *)
(* are constants, smaller than 16, 16 and 4096 in a run.                       *)
EXTENDS Naturals, Sequences, SequencesExt

CONSTANTS
    NonceLen,       \* NONCE_LEN
    TagLen,         \* TAG_LEN
    MaxPayload,     \* MAX_PAYLOAD_LEN
    MaxSegments     \* bound: segments the driver feeds to reassemble

ASSUME FrameAssumption ==
    /\ NonceLen \in Nat \ {0}
    /\ TagLen \in Nat \ {0}
    /\ MaxPayload \in Nat
    /\ MaxSegments \in Nat

VARIABLES
    wire,       \* bytes handed to Frame::decode
    segments    \* GATT writes handed to reassemble

frameVars == <<wire, segments>>

Raw(b) == <<"raw", b>>
V1 == Raw(1)
VersionLen == 1
HeaderLen == VersionLen + NonceLen
MinFrameLen == HeaderLen + TagLen
PlainBytes == {Raw(0), V1, Raw(2)}

Err(e) == [ok |-> FALSE, error |-> e]

(* Frame::encode and body_bytes; both refuse an oversized payload.             *)
BodyBytes(f) == <<f.version>> \o f.nonce \o f.payload
Oversized(f) == Len(f.payload) > MaxPayload
Encode(f) == BodyBytes(f) \o f.tag

(* Variant: the length check lets one byte too few through.                    *)
DecodeShort(input) ==
    IF Len(input) + 1 < MinFrameLen THEN Err("TooShort")
    ELSE IF input[1] # V1 THEN Err("BadVersion")
    ELSE [ok |-> TRUE,
          frame |-> [version |-> V1,
                     nonce   |-> SubSeq(input, 2, HeaderLen),
                     payload |-> SubSeq(input, HeaderLen + 1, Len(input) - TagLen),
                     tag     |-> SubSeq(input, Len(input) - TagLen + 1, Len(input))]]

(* Frame::decode: the first failure, in the order length, version, payload.    *)
Decode(input) ==
    IF Len(input) < MinFrameLen THEN Err("TooShort")
    ELSE IF input[1] # V1 THEN Err("BadVersion")
    ELSE IF Len(input) - MinFrameLen > MaxPayload THEN Err("BadLength")
    ELSE LET payloadEnd == HeaderLen + (Len(input) - MinFrameLen)
         IN  [ok |-> TRUE,
              frame |-> [version |-> input[1],
                         nonce   |-> SubSeq(input, VersionLen + 1, HeaderLen),
                         payload |-> SubSeq(input, HeaderLen + 1, payloadEnd),
                         tag     |-> SubSeq(input, payloadEnd + 1, payloadEnd + TagLen)]]

(* reassemble: every segment has its header byte, all but the last say that    *)
(* more follow, the last says that none does.                                  *)
Reassemble(segs) ==
    IF segs = <<>> THEN Err("IncompleteReassembly")
    ELSE IF \E i \in DOMAIN segs :
              \/ segs[i] = <<>>
              \/ (i = Len(segs)) = (segs[i][1] = Raw("more"))
         THEN Err("IncompleteReassembly")
    ELSE [ok |-> TRUE, bytes |-> FlattenSeq([i \in DOMAIN segs |-> Tail(segs[i])])]

-----------------------------------------------------------------------------
(* The driver: bytes and segments arrive.                                      *)

Segment == {<<>>} \cup {<<Raw(h)>> \o t : h \in {"more", "last"}, t \in {<<>>, <<Raw(0)>>, <<V1>>}}

FrameInit == wire = <<>> /\ segments = <<>>

ReceiveByte(b) ==
    /\ Len(wire) <= MinFrameLen + MaxPayload
    /\ segments = <<>>
    /\ wire' = Append(wire, b)
    /\ UNCHANGED segments

ReceiveSegment(s) ==
    /\ Len(segments) < MaxSegments
    /\ wire = <<>>
    /\ segments' = Append(segments, s)
    /\ UNCHANGED wire

FrameNext ==
    \/ \E b \in PlainBytes : ReceiveByte(b)
    \/ \E s \in Segment : ReceiveSegment(s)

-----------------------------------------------------------------------------
PayloadsUpTo(n) == UNION {[1..k -> PlainBytes] : k \in 0..n}
LegalFrames ==
    [version : {V1}, nonce : [1..NonceLen -> PlainBytes], payload : PayloadsUpTo(MaxPayload),
     tag : [1..TagLen -> PlainBytes]]

(* decode accepts exactly the strings encode produces from a legal frame, and  *)
(* returns that frame; what it refuses it refuses for the first reason that    *)
(* applies.                                                                    *)
DecodeInvertsEncode ==
    wire # <<>> =>
    LET r == Decode(wire)
    IN  /\ r.ok <=> \E f \in LegalFrames : Encode(f) = wire
        /\ r.ok => Encode(r.frame) = wire /\ BodyBytes(r.frame) \o r.frame.tag = wire
        /\ (~r.ok /\ r.error = "TooShort") <=> \A f \in LegalFrames : Len(wire) < Len(Encode(f))
        /\ (~r.ok /\ r.error = "BadLength") <=>
              Len(wire) > MinFrameLen + MaxPayload /\ Head(wire) = V1

(* A way to cut bytes into n segments: where each segment ends.                *)
Cut(bytes, ends) ==
    [i \in DOMAIN ends |->
        <<Raw(IF i = Len(ends) THEN "last" ELSE "more")>>
            \o SubSeq(bytes, IF i = 1 THEN 1 ELSE ends[i - 1] + 1, ends[i])]

(* reassemble returns b exactly for the segment lists that some cutting of b   *)
(* produces, so a frame is never put together from a lost, repeated last or    *)
(* missing final segment without an error.                                     *)
ReassembleInvertsCut ==
    LET r == Reassemble(segments)
        n == Len(segments)
        all == FlattenSeq([i \in DOMAIN segments |->
                              IF segments[i] = <<>> THEN <<>> ELSE Tail(segments[i])])
    IN  /\ r.ok <=> /\ n > 0
                    /\ \E ends \in [1..n -> 0..Len(all)] :
                          /\ \A i \in 1..(n - 1) : ends[i] <= ends[i + 1]
                          /\ ends[n] = Len(all)
                          /\ Cut(all, ends) = segments
        /\ r.ok => r.bytes = all
=============================================================================

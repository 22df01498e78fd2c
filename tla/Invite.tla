------------------------------- MODULE Invite -------------------------------
(* parse_invite_uri of syauth-mobile.  The URI is abstracted to whether it has *)
(* the scheme and the path, and its query to the list of key=value pairs; a    *)
(* value is a token that tells apart what the parser tells apart.              *)
EXTENDS Naturals, Sequences

CONSTANT MaxPairs   \* bound: key=value pairs in a query

VARIABLES
    prefix,     \* "none", "scheme", "invite": how much of syauth://invite? the URI starts with
    query       \* sequence of <<key, value>>; the key "" is an empty pair

inviteVars == <<prefix, query>>

HostValues == {"", "laptop", "desk"}
PubkeyValues == {"", "not-hex", "short", "good"}
Pairs == ({"host"} \X HostValues) \cup ({"pubkey"} \X PubkeyValues) \cup {<<"other", "x">>, <<"", "">>}

Unset == "unset"
Bad(reason) == [ok |-> FALSE, reason |-> reason]

(* hex::decode of the token and its length check; the empty string decodes to  *)
(* no bytes.                                                                   *)
PubkeyError(v) == IF v = "not-hex" THEN "not hex" ELSE "wrong length"

(* The body of the loop over the pairs: a later pair replaces an earlier one,  *)
(* an empty host ends the parse, an unknown key or an empty pair is skipped.   *)
Step(acc, pair) ==
    IF acc.stop \/ pair[1] \notin {"host", "pubkey"} THEN acc
    ELSE IF pair = <<"host", "">> THEN [acc EXCEPT !.stop = TRUE]
    ELSE [acc EXCEPT ![pair[1]] = pair[2]]

Scan[i \in 0..Len(query)] ==
    IF i = 0 THEN [host |-> Unset, pubkey |-> Unset, stop |-> FALSE]
    ELSE Step(Scan[i - 1], query[i])

ParseInviteUri ==
    LET s == Scan[Len(query)]
    IN  IF prefix = "none" THEN Bad("scheme")
        ELSE IF prefix = "scheme" THEN Bad("path")
        ELSE IF s.stop THEN Bad("empty host")
        ELSE IF s.host = Unset THEN Bad("missing host")
        ELSE IF s.pubkey = Unset THEN Bad("missing pubkey")
        ELSE IF s.pubkey # "good" THEN Bad(PubkeyError(s.pubkey))
        ELSE [ok |-> TRUE, host |-> s.host, pubkey |-> s.pubkey]

InviteInit == prefix = "none" /\ query = <<>>

Prefix(p) == query = <<>> /\ prefix' = p /\ UNCHANGED query

AddPair(pair) == Len(query) < MaxPairs /\ query' = Append(query, pair) /\ UNCHANGED prefix

InviteNext ==
    \/ \E p \in {"scheme", "invite"} : Prefix(p)
    \/ \E pair \in Pairs : AddPair(pair)

-----------------------------------------------------------------------------
At(k) == {i \in DOMAIN query : query[i][1] = k}
LastOf(k) == query[CHOOSE i \in At(k) : \A j \in At(k) : j <= i][2]

(* An invite is accepted exactly when the URI is a syauth invite, has a host   *)
(* and a key, no host pair anywhere is empty and the last key is well formed;  *)
(* the result is the last of each, so what a phone shows and what it pairs     *)
(* with come from the same reading of a query with repeated keys.              *)
ParsesLikeReference ==
    LET r == ParseInviteUri
    IN  /\ r.ok <=> /\ prefix = "invite"
                    /\ At("host") # {} /\ At("pubkey") # {}
                    /\ \A i \in At("host") : query[i][2] # ""
                    /\ LastOf("pubkey") = "good"
        /\ r.ok => r.host = LastOf("host") /\ r.pubkey = LastOf("pubkey")
=============================================================================

------------------------------ MODULE Peripheral ------------------------------
(* PersistentPeripheral (crates/syauth-transport/src/peripheral.rs): the      *)
(* daemon's GATT side.  It keeps                                              *)
(*   - `peers`, a map from peer id to that peer's characteristic set          *)
(*     (PeerCharSet), guarded by one tokio mutex;                             *)
(*   - `app_handle`, the one GATT application registered with BlueZ;          *)
(*   - per characteristic set, the bounded channel of response writes and the *)
(*     notification session the phone opened (NotificationChannel).           *)
(* A characteristic set is named by its generation, the number of the         *)
(* successful serve_gatt_application call that created it.  Bytes are         *)
(* abstracted: a response is the pair <<phone, what it signed>>, or           *)
(* <<phone, Deny>> for the 64 zero bytes a phone writes on Cancel.            *)
(* The operators below are actions over the peripheral's variables only;      *)
(* module Presenced composes them with their callers.                         *)
EXTENDS Naturals, Sequences

CONSTANTS
    Peers,      \* peer ids
    Requests,   \* challenge requests, one per issue_challenge call
    Nonces,     \* challenge nonces
    None,       \* "no request", "no key", "no peer"
    Deny,       \* what a phone writes when the user cancels
    Faults,     \* kinds of failure, or of refusal by a user, a run allows
    MaxGen,     \* bound: characteristic sets created in one run
    RespDepth   \* RESPONSE_BUFFER_DEPTH, capacity of a response channel

ASSUME PeripheralAssumption ==
    /\ MaxGen \in Nat \ {0}
    /\ Faults \subseteq {"register", "link", "nonce", "advertise", "load", "persist", "deny",
                   "audit"}
    /\ RespDepth \in Nat \ {0}
    /\ None \notin Peers \cup Requests \cup Nonces
    /\ Deny \notin Nonces \cup {None}

VARIABLES
    chars,      \* PersistentPeripheral.peers: peer id -> generation, 0 = not in the map
    peersLock,  \* the request that keeps the mutex of that map across an await, or None
    appPair,    \* app_handle holds the application with the pair service
    appGen,     \* generation whose service app_handle holds, 0 = none
    sub,        \* NotificationChannel of appGen holds an open session
    rx,         \* response channel per generation
    air,        \* responses written by a phone and not yet forwarded to rx[appGen]
    nextGen     \* generation the next registration gets

perVars == <<chars, peersLock, appPair, appGen, sub, rx, air, nextGen>>

Gens == 1..MaxGen
Response == Peers \X (Nonces \cup {Deny})

PeripheralTypeOK ==
    /\ chars \in [Peers -> 0..MaxGen]
    /\ peersLock \in Requests \cup {None}
    /\ appPair \in BOOLEAN
    /\ appGen \in 0..MaxGen
    /\ sub \in BOOLEAN
    /\ rx \in [Gens -> Seq(Response)]
    /\ air \in Seq(Response)
    /\ nextGen \in 1..(MaxGen + 1)

(* PersistentPeripheral::new registers an application that holds the pair     *)
(* service and nothing else; the add_peer of a seed peer, if there is one     *)
(* (seed has at most one element), replaces it by that peer's service.        *)
PeripheralNew(seed) ==
    /\ chars = [p \in Peers |-> IF p \in seed THEN 1 ELSE 0]
    /\ peersLock = None
    /\ appPair = (seed = {})
    /\ appGen = IF seed = {} THEN 0 ELSE 1
    /\ sub = FALSE
    /\ rx = [g \in Gens |-> <<>>]
    /\ air = <<>>
    /\ nextGen = IF seed = {} THEN 1 ELSE 2

(* `app_handle = None`: BlueZ forgets every service, the notification session *)
(* ends and the control loop of the old service exits.                        *)
DropApplication ==
    /\ appPair' = FALSE
    /\ appGen' = 0
    /\ sub' = FALSE
    /\ air' = <<>>

-----------------------------------------------------------------------------
(* add_peer, in the four steps between which it awaits.                       *)

AddPeerDuplicate(p) ==
    /\ peersLock = None
    /\ chars[p] # 0
    /\ UNCHANGED perVars

AddPeerBegin(p) ==
    /\ peersLock = None
    /\ chars[p] = 0
    /\ DropApplication
    /\ UNCHANGED <<chars, peersLock, rx, nextGen>>

(* build_and_register_peer: the new application has the new peer's service as *)
(* its only service; kick_connected_peers then disconnects every phone.       *)
RegisterPeer ==
    /\ nextGen \in Gens
    /\ appPair' = FALSE
    /\ appGen' = nextGen
    /\ sub' = FALSE
    /\ air' = <<>>
    /\ nextGen' = nextGen + 1
    /\ UNCHANGED <<chars, peersLock, rx>>

RegisterPeerFails ==
    /\ "register" \in Faults
    /\ UNCHANGED perVars

AddPeerInsert(p) ==
    /\ peersLock = None
    /\ chars' = [chars EXCEPT ![p] = appGen]
    /\ UNCHANGED <<peersLock, appPair, appGen, sub, rx, air, nextGen>>

(* remove_peer: runs to its end under the map's mutex.                        *)
RemovePeerUnknown(p) ==
    /\ peersLock = None
    /\ chars[p] = 0
    /\ UNCHANGED perVars

(* Variant: a waiter has its own clone of the channel, so no mutex is needed. *)
RemovePeerSharedChannel(p) ==
    /\ chars[p] # 0
    /\ chars' = [chars EXCEPT ![p] = 0]
    /\ DropApplication
    /\ UNCHANGED <<peersLock, rx, nextGen>>

(* Variant: the application is kept, as for other peers it would have to be.  *)
RemovePeerKeepsApplication(p) ==
    /\ peersLock = None
    /\ chars[p] # 0
    /\ chars' = [chars EXCEPT ![p] = 0]
    /\ rx' = [rx EXCEPT ![chars[p]] = <<>>]
    /\ UNCHANGED <<peersLock, appPair, appGen, sub, air, nextGen>>

RemovePeer(p) ==
    /\ peersLock = None
    /\ chars[p] # 0
    /\ chars' = [chars EXCEPT ![p] = 0]
    /\ rx' = [rx EXCEPT ![chars[p]] = <<>>]
    /\ DropApplication
    /\ UNCHANGED <<peersLock, nextGen>>

-----------------------------------------------------------------------------
(* notify_challenge: look up the peer and drain its channel under the mutex,  *)
(* release the mutex, then write to the notification session.                 *)

NotifyUnknown(p) ==
    /\ peersLock = None
    /\ chars[p] = 0
    /\ UNCHANGED perVars

NotifyDrain(p) ==
    /\ peersLock = None
    /\ chars[p] # 0
    /\ rx' = [rx EXCEPT ![chars[p]] = <<>>]
    /\ UNCHANGED <<chars, peersLock, appPair, appGen, sub, air, nextGen>>

(* NotificationChannel::send on the slot cloned from generation g.            *)
SessionSend(g) ==
    /\ appGen = g /\ sub
    /\ UNCHANGED perVars

SessionSendFails(g) ==
    /\ (appGen = g /\ sub) => "link" \in Faults
    /\ sub' = (sub /\ appGen # g)
    /\ UNCHANGED <<chars, peersLock, appPair, appGen, rx, air, nextGen>>

(* wait_for_response: the mutex of the map is kept across the recv.           *)
WaitUnknown(p) ==
    /\ peersLock = None
    /\ chars[p] = 0
    /\ UNCHANGED perVars

WaitBegin(r, p) ==
    /\ peersLock = None
    /\ chars[p] # 0
    /\ peersLock' = r
    /\ UNCHANGED <<chars, appPair, appGen, sub, rx, air, nextGen>>

WaitReceive(r, g) ==
    /\ peersLock = r
    /\ rx[g] # <<>>
    /\ rx' = [rx EXCEPT ![g] = Tail(@)]
    /\ peersLock' = None
    /\ UNCHANGED <<chars, appPair, appGen, sub, air, nextGen>>

(* Variant: the early return of the timeout keeps the mutex.                  *)
WaitTimeoutKeepsLock(r, g) ==
    /\ peersLock = r
    /\ rx[g] = <<>>
    /\ UNCHANGED perVars

(* tokio's timeout polls the recv first: it elapses on an empty channel only. *)
WaitTimeout(r, g) ==
    /\ peersLock = r
    /\ rx[g] = <<>>
    /\ peersLock' = None
    /\ UNCHANGED <<chars, appPair, appGen, sub, rx, air, nextGen>>

-----------------------------------------------------------------------------
(* The per-peer control loop.                                                 *)

Subscribe ==
    /\ appGen # 0
    /\ ~sub
    /\ sub' = TRUE
    /\ UNCHANGED <<chars, peersLock, appPair, appGen, rx, air, nextGen>>

SessionClosed ==
    /\ "link" \in Faults
    /\ sub
    /\ sub' = FALSE
    /\ UNCHANGED <<chars, peersLock, appPair, appGen, rx, air, nextGen>>

(* A phone writes the response characteristic it finds: the one of whichever  *)
(* service is registered, not necessarily the one it was challenged on.  The  *)
(* write is dropped if the phone has no connection or finds none.             *)
ResponseWritten(x) ==
    /\ \/ appGen # 0 /\ air' = Append(air, x)
       \/ air' = air
    /\ UNCHANGED <<chars, peersLock, appPair, appGen, sub, rx, nextGen>>

(* response_tx.send(bytes).await blocks the loop while the channel is full.   *)
ResponseForward ==
    /\ air # <<>>
    /\ appGen # 0
    /\ Len(rx[appGen]) < RespDepth
    /\ rx' = [rx EXCEPT ![appGen] = Append(@, Head(air))]
    /\ air' = Tail(air)
    /\ UNCHANGED <<chars, peersLock, appPair, appGen, sub, nextGen>>
=============================================================================

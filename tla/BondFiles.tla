------------------------------- MODULE BondFiles -------------------------------
(* The bond files, bonds.toml and keys/<peer_id>.bin, and the processes that  *)
(* rewrite them: `syauth pair`, `syauth revoke` and the daemon's              *)
(* pair_event_consumer.  Nobody takes a lock: each writer loads the whole     *)
(* store, changes its copy and renames a new file over the old one, and the   *)
(* key file is overwritten in place before (daemon) or after (CLI) that.      *)
(* A pairing is named by the number of the operation that made it, which      *)
(* stands for its created_at and its bond key.                                *)
EXTENDS Naturals, SequencesExt

CONSTANTS
    Peers,      \* phones; peer_id_from_pubkey is taken to be injective
    Clis,       \* CLI processes
    Daemon,     \* the daemon's pair_event_consumer
    Faults,     \* subset of {"io", "crash", "power"}
    MaxOps      \* bound: operations in one run

ASSUME BondFilesAssumption ==
    /\ Peers # {}
    /\ Daemon \notin Clis
    /\ Faults \subseteq {"io", "crash", "power"}
    /\ MaxOps \in Nat

VARIABLES
    dir,        \* the directory of bonds.toml
    file,       \* bonds.toml as every process sees it
    disk,       \* what a power failure may bring back instead
    key,        \* keys/<peer_id>.bin: pairing, Missing or Torn
    keyDisk,    \* what a power failure may bring back instead
    proc,       \* the writers
    ops,        \* operations begun
    \* History, read by the properties only.
    last,       \* the last operation begun on each peer
    ideal,      \* each peer's records if the saves applied one after the other
    overlap,    \* peers edited while another operation was under way
    failed      \* a crash, an I/O error or a power failure has happened

vars == <<dir, file, disk, key, keyDisk, proc, ops, last, ideal, overlap, failed>>

Procs == Clis \cup {Daemon}
Stamps == 1..MaxOps
Missing == 0
Torn == MaxOps + 1
BOND_SCHEMA_VERSION_LATEST == 1

Bond == [peer_id : Peers, pubkey : Peers, status : {"bonded", "revoked"},
         made : 0..MaxOps, reason : 0..MaxOps]

NoFile == [kind |-> "none", version |-> 0, bonds |-> <<>>]
Garbage == [kind |-> "garbage", version |-> 0, bonds |-> <<>>]
Toml(v, s) == [kind |-> "toml", version |-> v, bonds |-> s]

BondError == {"Io", "Parse", "UnsupportedSchemaVersion", "AlreadyBonded",
              "UnknownPeer", "ParentDirTooPermissive", "PeerIdMismatch"}
Outcome == BondError \cup {"none", "bonded", "revoked", "already-revoked",
                           "key-io", "crashed"}
Steps == {"idle", "load", "dir", "mkdir", "chmod", "write", "sync", "rename",
          "keyopen", "keywrite", "signal"}
Writer == [pc : Steps, op : {"none", "pair", "force", "revoke", "daemon"}, peer : Peers,
           stamp : 0..MaxOps, store : Seq(Bond), synced : BOOLEAN, out : Outcome]

Idle == [pc |-> "idle", op |-> "none", peer |-> CHOOSE p \in Peers : TRUE,
         stamp |-> 0, store |-> <<>>, synced |-> FALSE, out |-> "none"]

-----------------------------------------------------------------------------
(* BondStore in memory.                                                       *)

FindIndex(s, p) == SelectInSeq(s, LAMBDA b : b.peer_id = p)
Has(s, p) == FindIndex(s, p) # 0

(* The record run_pair_with_io and pair_event_consumer make.                  *)
NewBond(p, n) == [peer_id |-> p, pubkey |-> p, status |-> "bonded",
                  made |-> n, reason |-> 0]

StoreRemove(s, p) == RemoveAt(s, FindIndex(s, p))

(* Variant: the old record of the peer stays.                                 *)
ReplaceKeepsOld(s, p, n) == Append(s, NewBond(p, n))
(* Variant: the other peers' records go too.                                  *)
ReplaceWhole(s, p, n) == <<NewBond(p, n)>>
(* remove, then add: `pair --force` and persist_pair_bond_record.             *)
Replace(s, p, n) ==
    IF Has(s, p) THEN Append(StoreRemove(s, p), NewBond(p, n))
                 ELSE Append(s, NewBond(p, n))

MarkRevoked(s, p, n) ==
    LET i == FindIndex(s, p)
    IN  IF s[i].status = "revoked" THEN s
        ELSE [s EXCEPT ![i].status = "revoked", ![i].reason = n]

Records(s) == [p \in Peers |-> {b \in ToSet(s) : b.peer_id = p}]

Changed(w, s) ==
    IF proc[w].op = "revoke" THEN MarkRevoked(s, proc[w].peer, proc[w].stamp)
                             ELSE Replace(s, proc[w].peer, proc[w].stamp)

(* BondStore::load: the error, or "none".                                     *)
LoadError(f) ==
    CASE f.kind = "garbage" -> "Parse"
      [] f.version > BOND_SCHEMA_VERSION_LATEST -> "UnsupportedSchemaVersion"
      [] \E i \in DOMAIN f.bonds : f.bonds[i].peer_id # f.bonds[i].pubkey
            -> "PeerIdMismatch"
      [] OTHER -> "none"

-----------------------------------------------------------------------------
(* bonds.toml may have been written by an earlier run, by a newer version of  *)
(* the program or by hand.                                                    *)
OldBond(p, st) == [NewBond(p, 0) EXCEPT !.status = st]
OldFile(p, q, st) == Toml(1, <<OldBond(p, "bonded"), OldBond(q, st)>>)
NewerFile(p) == Toml(2, <<OldBond(p, "bonded")>>)
EditedFile(p, q) == Toml(1, <<[OldBond(p, "bonded") EXCEPT !.pubkey = q]>>)
InitFiles ==
    {NoFile, Garbage}
    \cup {OldFile(p, q, st) : p \in Peers, q \in Peers, st \in {"bonded", "revoked"}}
    \cup {NewerFile(p) : p \in Peers}
    \cup {EditedFile(p, q) : p \in Peers, q \in Peers}
UniqueIds(s) == \A i, j \in DOMAIN s : s[i].peer_id = s[j].peer_id => i = j

Init ==
    /\ file \in {f \in InitFiles : UniqueIds(f.bonds)}
    /\ dir \in IF file = NoFile THEN {"absent", "tight", "loose", "notdir"}
                                ELSE {"tight", "loose"}
    /\ disk = file
    /\ key = [p \in Peers |-> Missing]
    /\ keyDisk = key
    /\ proc = [w \in Procs |-> Idle]
    /\ ops = 0
    /\ last = [p \in Peers |-> 0]
    /\ ideal = Records(file.bonds)
    /\ overlap = {}
    /\ failed = FALSE

Active == {w \in Procs : proc[w].pc # "idle"}
Goto(w, step) == proc' = [proc EXCEPT ![w].pc = step]
Finish(w, result) == proc' = [proc EXCEPT ![w].pc = "idle", ![w].out = result,
                                          ![w].store = <<>>, ![w].synced = FALSE]
filesUnchanged == UNCHANGED <<file, disk, key, keyDisk>>
history == <<last, ideal, overlap, failed>>

(* `syauth pair` once the pairing itself has succeeded, `syauth revoke`, or   *)
(* a pairing event received by the daemon.  The daemon writes the key first.  *)
Begin(w, op, p) ==
    /\ proc[w].pc = "idle"
    /\ op \in IF w = Daemon THEN {"daemon"} ELSE {"pair", "force", "revoke"}
    /\ ops < MaxOps
    /\ ops' = ops + 1
    /\ proc' = [proc EXCEPT ![w] =
                  [Idle EXCEPT !.pc = IF op = "daemon" THEN "keyopen" ELSE "load",
                               !.op = op, !.peer = p, !.stamp = ops + 1]]
    /\ last' = [last EXCEPT ![p] = ops + 1]
    /\ overlap' = IF Active = {} THEN overlap
                  ELSE overlap \cup {p} \cup {proc[v].peer : v \in Active}
    /\ filesUnchanged
    /\ UNCHANGED <<dir, ideal, failed>>

-----------------------------------------------------------------------------
(* Load and change.                                                           *)

LoadRefused(w) ==
    /\ proc[w].pc = "load"
    /\ LoadError(file) # "none"
    /\ Finish(w, LoadError(file))
    /\ filesUnchanged /\ UNCHANGED <<dir, ops, history>>

(* lookup_status finds no record.                                             *)
RevokeUnknown(w) ==
    /\ proc[w].pc = "load"
    /\ LoadError(file) = "none"
    /\ proc[w].op = "revoke" /\ ~Has(file.bonds, proc[w].peer)
    /\ Finish(w, "UnknownPeer")
    /\ filesUnchanged /\ UNCHANGED <<dir, ops, history>>

(* apply_revoke on a revoked bond: nothing is saved.                          *)
RevokeAgain(w) ==
    /\ proc[w].pc = "load"
    /\ LoadError(file) = "none"
    /\ proc[w].op = "revoke" /\ Has(file.bonds, proc[w].peer)
    /\ file.bonds[FindIndex(file.bonds, proc[w].peer)].status = "revoked"
    /\ Finish(w, "already-revoked")
    /\ filesUnchanged /\ UNCHANGED <<dir, ops, history>>

(* Without --force a recorded peer is refused, a revoked one as well.         *)
PairAgain(w) ==
    /\ proc[w].pc = "load"
    /\ LoadError(file) = "none"
    /\ proc[w].op = "pair" /\ Has(file.bonds, proc[w].peer)
    /\ Finish(w, "AlreadyBonded")
    /\ filesUnchanged /\ UNCHANGED <<dir, ops, history>>

LoadAndChange(w) ==
    /\ proc[w].pc = "load"
    /\ LoadError(file) = "none"
    /\ proc[w].op = "revoke" =>
          /\ Has(file.bonds, proc[w].peer)
          /\ file.bonds[FindIndex(file.bonds, proc[w].peer)].status = "bonded"
    /\ proc[w].op = "pair" => ~Has(file.bonds, proc[w].peer)
    /\ proc' = [proc EXCEPT ![w].pc = "dir", ![w].store = Changed(w, file.bonds)]
    /\ filesUnchanged /\ UNCHANGED <<dir, ops, history>>

-----------------------------------------------------------------------------
(* BondStore::save.                                                           *)

EnsureDir(w) ==
    /\ proc[w].pc = "dir"
    /\ dir = "tight"
    /\ Goto(w, "write")
    /\ filesUnchanged /\ UNCHANGED <<dir, ops, history>>

EnsureDirRefused(w) ==
    /\ proc[w].pc = "dir"
    /\ \/ dir = "loose" /\ Finish(w, "ParentDirTooPermissive")
       \/ dir = "notdir" /\ Finish(w, "Io")
    /\ filesUnchanged /\ UNCHANGED <<dir, ops, history>>

EnsureDirMissing(w) ==
    /\ proc[w].pc = "dir"
    /\ dir = "absent"
    /\ Goto(w, "mkdir")
    /\ filesUnchanged /\ UNCHANGED <<dir, ops, history>>

(* create_dir_all: the mode of a new directory is up to the umask.            *)
MadeDir == dir' \in IF dir = "absent" THEN {"tight", "loose"} ELSE {dir}
MakeDir(w) ==
    /\ proc[w].pc = "mkdir"
    /\ MadeDir
    /\ Goto(w, "chmod")
    /\ filesUnchanged /\ UNCHANGED <<ops, history>>

SetDirMode(w) ==
    /\ proc[w].pc = "chmod"
    /\ dir' = "tight"
    /\ Goto(w, "write")
    /\ filesUnchanged /\ UNCHANGED <<ops, history>>

WriteTemp(w) ==
    /\ proc[w].pc = "write"
    /\ Goto(w, "sync")
    /\ filesUnchanged /\ UNCHANGED <<dir, ops, history>>

(* Variant: the temporary file is not synced.                                 *)
SyncTempSkipped(w) ==
    /\ proc[w].pc = "sync"
    /\ Goto(w, "rename")
    /\ filesUnchanged /\ UNCHANGED <<dir, ops, history>>
SyncTemp(w) ==
    /\ proc[w].pc = "sync"
    /\ proc' = [proc EXCEPT ![w].pc = "rename", ![w].synced = TRUE]
    /\ filesUnchanged /\ UNCHANGED <<dir, ops, history>>

(* What the operation means for the records of its peer.                      *)
Intended(w, R) ==
    IF proc[w].op = "revoke"
    THEN {IF b.status = "revoked" THEN b
          ELSE [b EXCEPT !.status = "revoked", !.reason = proc[w].stamp] : b \in R}
    ELSE {NewBond(proc[w].peer, proc[w].stamp)}

(* tempfile persist: the rename is atomic, and durable at some later time.    *)
Persist(w) ==
    /\ proc[w].pc = "rename"
    /\ file' = Toml(BOND_SCHEMA_VERSION_LATEST, proc[w].store)
    /\ disk' \in {disk} \cup IF proc[w].synced THEN {} ELSE {Garbage}
    /\ ideal' = [ideal EXCEPT ![proc[w].peer] = Intended(w, @)]
    /\ IF proc[w].op = "revoke" THEN Finish(w, "revoked")
       ELSE Goto(w, IF w = Daemon THEN "signal" ELSE "keyopen")
    /\ UNCHANGED <<dir, key, keyDisk, ops, last, overlap, failed>>

SaveFails(w) ==
    /\ "io" \in Faults
    /\ proc[w].pc \in {"mkdir", "chmod", "write", "sync", "rename"}
    /\ Finish(w, "Io")
    /\ failed' = TRUE
    /\ filesUnchanged /\ UNCHANGED <<dir, ops, last, ideal, overlap>>

-----------------------------------------------------------------------------
(* The key file: write_pam_bond_key and persist_pair_bond_key make keys/ (and *)
(* with it, for the daemon, a missing parent) and write the file in place.    *)

KeyOpen(w) ==
    /\ proc[w].pc = "keyopen"
    /\ dir # "notdir"
    /\ MadeDir
    /\ key' = [key EXCEPT ![proc[w].peer] = Torn]
    /\ Goto(w, "keywrite")
    /\ UNCHANGED <<file, disk, keyDisk, ops, history>>

(* Variant: reports success before the key is on file.                        *)
KeyWriteNot(w) ==
    /\ proc[w].pc = "keywrite"
    /\ IF w = Daemon THEN Goto(w, "load") ELSE Finish(w, "bonded")
    /\ UNCHANGED <<dir, file, disk, key, keyDisk, ops, history>>
KeyWrite(w) ==
    /\ proc[w].pc = "keywrite"
    /\ key' = [key EXCEPT ![proc[w].peer] = proc[w].stamp]
    /\ IF w = Daemon THEN Goto(w, "load") ELSE Finish(w, "bonded")
    /\ UNCHANGED <<dir, file, disk, keyDisk, ops, history>>

(* The directory cannot be made, or the write fails after the truncation.     *)
KeyFails(w) ==
    /\ \/ proc[w].pc = "keyopen" /\ (dir = "notdir" \/ "io" \in Faults)
       \/ proc[w].pc = "keywrite" /\ "io" \in Faults
    /\ Finish(w, "key-io")
    /\ failed' = TRUE
    /\ filesUnchanged /\ UNCHANGED <<dir, ops, last, ideal, overlap>>

(* The pairing is done: the orchestrator is told to reload.                   *)
Signal(w) ==
    /\ proc[w].pc = "signal"
    /\ Finish(w, "bonded")
    /\ filesUnchanged /\ UNCHANGED <<dir, ops, history>>

-----------------------------------------------------------------------------
(* The machine.                                                               *)

Crash(w) ==
    /\ "crash" \in Faults
    /\ proc[w].pc # "idle"
    /\ Finish(w, "crashed")
    /\ failed' = TRUE
    /\ filesUnchanged /\ UNCHANGED <<dir, ops, last, ideal, overlap>>

(* The kernel writes everything back.                                         *)
WriteBack ==
    /\ <<disk, keyDisk>> # <<file, key>>
    /\ "power" \in Faults
    /\ disk' = file /\ keyDisk' = key
    /\ UNCHANGED <<dir, file, key, proc, ops, history>>

(* A file whose last write was not yet on disk keeps the old or the new       *)
(* contents; one overwritten in place may also be cut short.                  *)
PowerLoss ==
    /\ "power" \in Faults
    /\ ~failed
    /\ file' \in {file, disk}
    /\ \E k \in [Peers -> 1..3] :
          key' = [p \in Peers |-> IF key[p] = keyDisk[p] THEN key[p]
                                  ELSE <<key[p], keyDisk[p], Torn>>[k[p]]]
    /\ disk' = file' /\ keyDisk' = key'
    /\ proc' = [w \in Procs |-> [proc[w] EXCEPT !.pc = "idle", !.store = <<>>,
                                                !.synced = FALSE, !.out = "crashed"]]
    /\ ideal' = Records(file'.bonds)
    /\ failed' = TRUE
    /\ UNCHANGED <<dir, ops, last, overlap>>

Store(w) == LoadRefused(w) \/ RevokeUnknown(w) \/ RevokeAgain(w) \/ PairAgain(w)
            \/ LoadAndChange(w)
Save(w) ==
    \/ EnsureDir(w) \/ EnsureDirRefused(w) \/ EnsureDirMissing(w) \/ MakeDir(w)
    \/ SetDirMode(w) \/ WriteTemp(w) \/ SyncTemp(w) \/ Persist(w) \/ SaveFails(w)
WriteKey(w) == KeyOpen(w) \/ KeyWrite(w) \/ KeyFails(w)

Next ==
    \/ \E w \in Procs :
          \/ \E op \in {"pair", "force", "revoke", "daemon"}, p \in Peers : Begin(w, op, p)
          \/ Store(w) \/ Save(w) \/ WriteKey(w) \/ Signal(w) \/ Crash(w)
    \/ WriteBack \/ PowerLoss

Spec == Init /\ [][Next]_vars

-----------------------------------------------------------------------------
(* Properties.                                                                *)

FileOK(f) ==
    /\ f.kind \in {"none", "garbage", "toml"}
    /\ f.version \in 0..2
    /\ f.bonds \in Seq(Bond)
TypeOK ==
    /\ dir \in {"absent", "tight", "loose", "notdir"}
    /\ FileOK(file) /\ FileOK(disk)
    /\ key \in [Peers -> 0..Torn] /\ keyDisk \in [Peers -> 0..Torn]
    /\ proc \in [Procs -> Writer]
    /\ ops \in 0..MaxOps
    /\ last \in [Peers -> 0..MaxOps]
    /\ ideal \in [Peers -> SUBSET Bond]
    /\ overlap \in SUBSET Peers
    /\ failed \in BOOLEAN

(* What no step may do to bonds.toml.  "The destination either has the        *)
(* previous bytes or the new bytes": whatever is interrupted, by a crash of a *)
(* writer or of the machine, a file that could be loaded can be loaded.  One  *)
(* the program cannot load (newer schema, hand edited, damaged) is left as it *)
(* is.  And it is only written in a directory of mode 0700, however the       *)
(* writers race to make it.                                                   *)
Foreign(f) == \/ f.kind = "garbage"
              \/ f.version > BOND_SCHEMA_VERSION_LATEST
              \/ \E b \in ToSet(f.bonds) : b.peer_id # b.pubkey
FileStep ==
    /\ LoadError(file) = "none" => LoadError(file') = "none"
    /\ Foreign(file) => file' = file
    /\ \A w \in Procs : proc[w].pc = "rename" /\ proc'[w].pc # "rename" /\ file' # file
          => dir = "tight"
FileKept == [][FileStep]_vars

(* Besides its types: a peer has one record, also when unlocked writers       *)
(* overwrite each other, so find_index always finds the record everyone else  *)
(* sees.                                                                      *)
OneRecordPerPeer == TypeOK /\ UniqueIds(file.bonds)

(* As long as operations do not overlap, no update is lost: bonds.toml is     *)
(* the result of all saves one after the other, whatever has failed.          *)
SerialWritersKeepUpdates == overlap = {} => Records(file.bonds) = ideal

(* A pairing that was reported as done left its record and its own key: the   *)
(* last one of a peer stands unless a later operation on that peer or an      *)
(* overlapping one touched it, or a failure intervened.                       *)
LastOf(w) == last[proc[w].peer] = proc[w].stamp
DonePairingUsable ==
    \A w \in Procs :
        proc[w].out = "bonded" /\ LastOf(w) /\ proc[w].peer \notin overlap /\ ~failed =>
            /\ key[proc[w].peer] = proc[w].stamp
            /\ overlap = {} => NewBond(proc[w].peer, proc[w].stamp) \in ToSet(file.bonds)

-----------------------------------------------------------------------------
(* The inductive invariant.                                                   *)

Saving == {"dir", "mkdir", "chmod", "write", "sync", "rename"}
Matching(s) == \A i \in DOMAIN s : s[i].peer_id = s[i].pubkey

(* What a writer has established when it is where it is.                      *)
WriterOK(w) ==
    /\ proc[w].pc # "idle" => /\ proc[w].stamp > 0
                              /\ proc[w].out = "none"
                              /\ proc[w].op # "none"
                              /\ proc[w].op = "daemon" <=> w = Daemon
    /\ proc[w].pc = "signal" => w = Daemon
    /\ proc[w].op = "revoke" => proc[w].pc \in Saving \cup {"idle", "load"}
    /\ proc[w].pc \in {"write", "sync", "rename"} => dir = "tight"
    /\ proc[w].pc = "rename" => proc[w].synced
    /\ proc[w].pc \in Saving => ~Foreign(file)
    /\ UniqueIds(proc[w].store) /\ Matching(proc[w].store)

(* What a power failure brings back loads if the file did.                    *)
FilesOK ==
    /\ UniqueIds(file.bonds) /\ UniqueIds(disk.bonds)
    /\ Foreign(file) => disk = file
    /\ ~Foreign(file) => ~Foreign(disk)

(* Operations are numbered as they begin, and one that began while another    *)
(* was under way has put both peers in overlap.                               *)
StampsOK ==
    /\ \A p \in Peers : last[p] <= ops
    /\ \A w \in Procs : proc[w].stamp <= last[proc[w].peer]
    /\ \A v, w \in Procs : v # w /\ proc[v].stamp = proc[w].stamp => proc[v].stamp = 0
    /\ \A v \in Active, w \in Procs :
          proc[w].stamp > proc[v].stamp => {proc[v].peer, proc[w].peer} \subseteq overlap

(* A writer that was alone all along saves what it would have made of the     *)
(* file as it is now.                                                         *)
StoreIsCurrent ==
    \A w \in Procs :
        overlap = {} /\ proc[w].pc \in Saving =>
            /\ proc[w].op = "revoke" => Has(file.bonds, proc[w].peer)
            /\ proc[w].store = Changed(w, file.bonds)

(* How far a pairing has come: the daemon writes its key first, the CLI last. *)
KeyWritten(w) == \/ proc[w].out = "bonded"
                 \/ w = Daemon /\ proc[w].pc \in Saving \cup {"load", "signal"}
BondWritten(w) == \/ proc[w].out = "bonded"
                  \/ proc[w].pc = "signal"
                  \/ w # Daemon /\ proc[w].pc \in {"keyopen", "keywrite"}
PairingOK(w) ==
    LastOf(w) /\ proc[w].peer \notin overlap /\ ~failed =>
        /\ KeyWritten(w) => key[proc[w].peer] = proc[w].stamp
        /\ BondWritten(w) /\ overlap = {} =>
              NewBond(proc[w].peer, proc[w].stamp) \in ToSet(file.bonds)

IInv ==
    /\ TypeOK
    /\ \A w \in Procs : WriterOK(w)
    /\ FilesOK
    /\ StampsOK
    /\ SerialWritersKeepUpdates
    /\ StoreIsCurrent
    /\ \A w \in Procs : PairingOK(w)
===============================================================================

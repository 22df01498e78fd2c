# A TLA+ verification project for syauth

syauth unlocks a Linux session with a phone: a PAM module asks a daemon
(`syauth-presenced`), the daemon puts a challenge to the phone over BLE, the
phone's user approves, the phone signs, and the daemon verifies. This directory
models that path from the login to the bytes on the air, and what surrounds it:
the bond files and their writers, pairing, the daemon's life, the audit log, the
installers. TLC checks the models on small instances; TLAPS proves the main
safety results of the daemon.

## The system

| Part | State it keeps | Operations | Talks to |
|---|---|---|---|
| `PersistentPeripheral` (syauth-transport) | `peers` map behind one mutex, one `app_handle`, per peer a response channel and a notification session | `add_peer`, `remove_peer`, `notify_challenge`, `wait_for_response`, `set_session_uuids`, a control loop per peer | BlueZ, phones |
| `Orchestrator` (syauth-presenced) | `peers` map of `PeerEntry` (bond key, `NonceCache`, one-permit semaphore), reload queue | `issue_challenge`, reload, minute rotation | peripheral, bond files, audit log |
| runtime (syauth-presenced) | pidfile lock, tasks | start-up, inotify watcher, SIGHUP, `pair_event_consumer`, shutdown | all of the daemon |
| RPC server (syauth-presenced) | accept semaphore (4) | `Challenge`, `Reload`, `Status` | PAM, CLI, orchestrator |
| bond files (syauth-core) | `bonds.toml`, `keys/<peer>.bin` | load, add, remove, mark_revoked, save | CLI, daemon, PAM |
| PAM module (syauth-pam) | per-call budgets | connect, ask, map the outcome | RPC server |
| audit log (syauth-presenced, syauth-pam) | `last.log`, a sync counter per daemon process | append by two programs, sync | PAM, daemon |
| `syauth pair` (syauth-cli) | agent, advertisement, confirmation handlers, the applet's two files | the pairing flow | BlueZ, operator, phone, bond files |
| installers (syauth-cli) | a PAM service file, its `.bak`, unit, binary | install-pam, uninstall-pam, install-presenced | the system's files |
| reports (syauth-cli) | none | list, status, doctor | bond files, daemon |
| Android app | GATT client, pending approval, bond store, background services | connect, subscribe, show, approve or deny, pair | peripheral |
| pure code (syauth-core, syauth-transport) | none | frame codec, MAC, signature, replay window, minute arithmetic | all |

What is hard in it:

- one mutex guards the peripheral's peer map and is held while a transaction
  waits for a phone, up to eight seconds;
- a transaction works on an entry and a characteristic set it looked up
  earlier, while reloads remove and re-create both;
- there is one GATT application for all peers, and every add or remove replaces
  it, with phones in the middle of an answer;
- answers come late, after the deadline of the request they belong to;
- the bond record and the key file are written by two programs, in different
  orders, and the reload is triggered by events on one of them only;
- `bonds.toml` is loaded, changed and replaced as a whole by programs that take
  no lock;
- processes that start and stop at the same time share the pidfile and socket
  paths, and a crash leaves both behind;
- the login's budget and the daemon's deadline have the same length and start at
  different times, so either may give up on the other;
- while a phone pairs, BlueZ, the operator, an applet and two threads wait for
  each other, each with its own deadline or none;
- a command that edits the login stack may be stopped between any two file
  operations, and the stack must work then;
- any of registration, advertising, notification, file I/O and the random
  source may fail, each with an early return of its own.

For each component, correct means: the peripheral never hands a transaction a
response from a set that was removed under it; the orchestrator says ok only for
a signature by the right phone over the transaction's own nonce, runs one
transaction per entry, writes one audit line for each that it can write, and
answers each one; the reload
leaves both maps in agreement, ends, advertises exactly the live peers and takes
revoked peers out; a process that stops or crashes does not harm one that
serves, and a clean exit leaves no files; `bonds.toml` loads whatever happens, and
updates survive writers that do not overlap; PAM grants only on an ok of its own
transaction, denies only on a verdict about the response, and always returns; a
grant leaves its record; a pairing is confirmed by the answer to its own question
and comes to an end; both ends read the same bytes in a frame; the installers
keep the administrator's lines and a way back. `PROJECT.json` lists the hazards
by source line.

## Modules

| Module | Models |
|---|---|
| `Peripheral` | `peripheral.rs`, `peripheral/notification.rs`: one action per step between awaits |
| `Orchestrator` | `orchestrator.rs`: transactions, reload, rotation; extends `Peripheral` |
| `Presenced` | the composition: bond files and their writers, reload triggers, phones; the properties and the inductive invariant; extends `Orchestrator` |
| `UnlockService` | the promise of the RPC `Challenge` request; `Presenced` implements it |
| `MCPresenced` | model values and symmetry for TLC |
| `PresencedProofs`, `ReloadProofs` | the theorems about it: what a transaction relies on; what a reload relies on, the nonce caches, the audit lines, and why both come to an end |
| `Lifecycle` | `lock.rs`, `server.rs` (bind, accept loop, shutdown) and `run` of `runtime.rs`, for several processes; a model of its own |
| `MCLifecycle`, `LifecycleProofs` | its model values and its theorems |
| `BondFiles`, `MCBondFiles`, `BondFilesProofs` | `bond.rs` and its writers `pair.rs`, `revoke.rs`, `persist_pair_bond_record`: one action per file operation |
| `LastLog` | `audit.rs` and `append_last_log`: lines, syncs, power failure |
| `PamUnlock`, `MCPamUnlock`, `PamUnlockProofs` | `syauth-pam`, the accept loop and connection tasks of `server.rs`, the probe of `status` and `doctor`, cold start and reload of the peer set; extends `LastLog` |
| `PairFlow`, `MCPairFlow`, `PairFlowProofs` | `run_pair_with_io` of `pair.rs` and `pair_backend.rs`, with BlueZ, operator, applet and phone |
| `Frame` | `frame.rs` and `reassemble` of `bluez.rs` |
| `Exchange` | one challenge byte for byte through `run_challenge`, the companion service, the bindings and `parse_signature`; extends `Frame` |
| `ReplayCache` | `replay.rs` |
| `Discovery` | the minute rotation against the phone's scan window |
| `Invite` | `parse_invite_uri` of syauth-mobile |
| `MCCore` | drives these five, one per behaviour: they share no state |
| `CoreProofs` | the theorems about these five and about `MCCore`, their composition |
| `Install`, `MCInstall`, `InstallProofs` | `install_pam.rs`, `uninstall_pam.rs`, `install_presenced.rs` and their dispatch in `main.rs` |

`PROJECT.json` maps each definition to its source lines. The main choices:

- **Generations.** Each successful `serve_gatt_application` creates a
  characteristic set, and the reload creates one `PeerEntry` with it. Both are
  named by a generation number. `chars` and `live` are the two maps;
  `txGen` and `txChan` are the `Arc`s a transaction keeps.
- **Locks.** `peersLock` records only a holder that keeps the mutex across an
  await (`wait_for_response`); every other critical section is one atomic step
  guarded by `peersLock = None`. `add_peer` is four steps, since it releases
  the mutex in between. `nonce_cache`, `app_handle` and the audit lock are never
  held across anything another task can see.
- **Signatures.** A response is `<<phone, nonce>>`, or `<<phone, Deny>>` for the
  zero bytes a phone writes on Cancel or after a failed biometric prompt.
  Forgery is outside the model.
- **Delivery.** A notification goes to whoever is subscribed: `SendDelivered` puts
  the nonce before any set of phones, the one it is meant for or not, or none. The
  app shows whatever it is notified of and never checks the MAC
  (`SyauthCompanionService.kt`), so a phone may well approve another one's
  challenge; only signer and nonce decide then, in `Verified`. The abstract
  `Sign` of `UnlockService` allows the same.
- **Verdict.** `wait_for_response` gives up the map's mutex when it returns the
  bytes. Taking them (`ReceiveResponse`) and judging them (`JudgeBad`,
  `JudgeReplay`, `JudgeOk`) are therefore two steps, and a reload may remove the
  peer in between. Look-up and insertion in the nonce cache are one step, as they
  are under one lock.
- **Audit.** Every return path of `issue_challenge` has its own `AuditAt`, with the
  nonce if one was drawn. It is best effort: the append may fail or there may be
  no log (fault "audit"), and the outcome is returned all the same. `unlogged`
  remembers which lines failed. `Return` then drops the permit.
- **Nonces** are drawn with `\E` from a small set, so a repeated nonce, which
  the cache exists for, does happen.
- **Deadlines** are nondeterministic: a wait may time out whenever its channel
  is empty, the permit may be refused as busy whenever somebody else holds it.
- **Writes by phones** reach the application registered at that moment, or are
  lost.
- **Faults** lists which failures an instance allows, so that liveness can be
  asked with and safety with all of them. "deny" is a user's refusal.
- **Mutant variants.** An operator marked *Variant* is a plausible wrong version
  of the definition after it. It is not used by the specification; substituting
  it makes the property named in `PROJECT.json` fail.

**Lifecycle.** A pidfile is an inode number. The path names one inode or none; a
process locks the inode it has opened, which need not be the one at the path any
more. Each process has a main task (`pc`, one step per call of
`PidFileLock::acquire`, then the wait for the signal, the joins, the unlink and
the close) and an accept-loop task (`srv`). `Accept` and `Admit` are two steps
because the permit is awaited after the stream was accepted. A crash, possible at
every step, releases the lock and leaves both paths. `faulted` is a history
variable: it says which kinds of failure have happened, and excuses `NoDebris`
from the files these leave. `bind` and `chmod` are one
step: `serve` has no await between them, and a crash there leaves the same stale
file. The orchestrator task is taken to end when told to; its reloads end by
`ReloadEnds`.

**BondFiles.** A pairing is named by the number of the operation that made it, in
its record and in its key file, so a key of one pairing next to a record of
another shows. `file` and `key` are what processes see; `disk` and `keyDisk` are
what may be there after a power failure instead, until a sync. The history
variables `ideal` (the saves applied one after the other) and `overlap` (peers
edited while another operation was under way) state what unlocked writers owe
each other.

**PamUnlock.** A connection is named by its call. The phone's part is a
nondeterministic verdict, since `Orchestrator` has it; in exchange there is a
clock: `Tick` counts down every budget and waits for a step that is due at zero.
Client and connection task are separate, so a caller that has timed out or was
killed leaves its transaction running. `slotq` is the peer's semaphore with its
queue. `keys` is the peers whose key file loads: a record may be saved before its
key (`Pair`, `WriteKey`), and pairing again truncates the key before it is written
(`OpenKey`). A reload takes the bonded records whose key loads (`NewSet`); a peer
whose `add_peer` or `remove_peer` fails stays as it was. `fresh` says that a start
or a reload has read the present files and nothing failed in it.

**PairFlow.** One handler per SMP attempt, on the blocking pool. `StdoutHeld` is
the lock `run_pair` holds; `hd[a].late` excuses an attempt that had to wait behind
another one's handler. The applet reads and writes `pair-request.json` and
`pair-response.json` whenever it likes.

**Core.** Bytes are tuples, so the symbolic bytes of a MAC or a signature stand
beside plain ones; lengths are constants. A notification may arrive cut at any
length. The replay cache is compared with a sliding window over the history of
what it accepted. In `Discovery` the wall clock may jump and the machine may
sleep; the interval runs on the monotonic clock. The loop of `run` serves ticks
and reloads one at a time (`phase`), and time passes wherever it is: a tick that
falls due during a reload is served late, and the next keeps its schedule. A
rotation reads the minute, takes the old advertisement down and registers the new
one, in three steps.

**Install.** A line is abstracted to what the tools tell apart, including a line
they do not recognise and one that is not UTF-8. A file is its lines, its mode,
whether it is whole and whether it is synced. `admin` is every line the
administrator ever had in the file, and no command changes it; `kept` is what of it
should be there now, `snap` what the backup has. They part when uninstall puts back
a backup older than an edit, which `dropped` records. `clash`, `dark` and
`moved` record overlapping commands, a power failure and a backup moved aside,
which excuse a property where the code does not protect against them.

Simplifications to know about. In `Presenced` a reload reads `bonds.toml` and the
key files in one step, and a save of `bonds.toml` changes one record atomically;
`BondFiles` has the steps and the lost updates. The pairing channel has
room for one event in progress. The inotify watcher's wait for room in the
reload queue is part of its step. `MaxGen` bounds the registrations and
`MaxEdits` the pairings and revocations. The error paths of encoding a challenge
frame and its body bytes cannot be reached, since the payload is empty, and are left
out. Requests are not cancelled when a client
disconnects. Start-up begins with bonded records only; revoked ones appear
through `CliRevoke`. Shutdown, crash and restart are in `Lifecycle`, which knows
nothing of the requests' content, and in `PamUnlock`, where a start is one step.
In `PairFlow` at most one phone writes its key, and what the flow saves at its end
is `BondFiles`. CBOR, TOML and JSON are abstracted to whether the text loads.

## What TLC checks

| Run | Instance | Properties | States |
|---|---|---|---|
| `challenge` | 1 peer, 3 requests, 2 nonces, link / nonce / deny / audit faults, no edits | `PermitExclusive`, `SingleUse`, `AuditedOnce` | 1,402,772 |
| `swap` | 2 peers, 2 requests, 1 nonce, 2 generations, no edits | `IInv`, `OkIsApproved`, `ImplementsUnlockService` | 288,818 |
| `files` | 1 peer, 2 keys, 3 generations, 2 edits, load / persist / advertise / register faults, queue of 2 | `AdvertisesLive`, `RevokedNotLive`, `MapsAgree`, `ServesOnlyMapped`, `TakenWhileRegistered` | 354,144 |
| `liveness` | 1 peer, 2 requests, 2 generations, 1 edit, registration may fail | `TxTerminates`, `ReloadEnds`, `RevocationTakesEffect` | 87,173 |
| `lifecycle` | 3 processes, 3 starts, cap 2, crash / write / chmod | `LInv`, `ListenerReachable`, `NoDebris`, `ShutdownEnds` | 40,799 |
| `bondfiles` | 2 peers, 2 command lines and the daemon, 2 operations, io / crash / power | `OneRecordPerPeer`, `SerialWritersKeepUpdates`, `DonePairingUsable`, `FileKept` | 586,896 |
| `pam` | 2 logins, 2 peers, 2 daemon starts, 1 edit, 1 fault (not a panic), two verdicts | `SlotAlwaysMoves`, `VerdictAgrees`, `PamPeerIsServed`, `SuccessIsAudited` | 3,178,159 |
| `pam_live` | 1 login, 1 probe, 1 permit, 1 fault, a panic too, all verdicts | `NobodyWaitsForever` | 31,416 |
| `pair` | 2 SMP attempts, 1 typed line, 1 fault, a window of a minute and a half | `RequestHasAHandler`, `WaybarDecides`, `OnAirAndCurrent`, `PairingEnds` | 606,702 |
| `core` | byte strings up to a frame, 3 challenges, 4 nonces, capacities 0, 1, 3, lifetimes 0 to 2, 2 clock upsets, 3 query pairs | `PureCodeAgrees`, `OkMeansThisChallenge`, `InPhoneWindow`, `AnswersLikeWindow`, `WholeApprovalUnlocks` | 1,230,461 |
| `install` | 2 commands at a time, 3 in all, 2 troubles | `NamedOnce`, `ServiceKept`, `Undoable`, `EnabledRunnable` | 2,255,944 |
| `doc_answered` | as `pair` | `AnsweredInTime`, violated | |

What the properties say, where the name is not enough:

- `AuditedOnce`: on every path a transaction that has its outcome has exactly one
  line, with that outcome and its nonce, unless this very append failed.
  `TakenWhileRegistered`: a response is taken only while its peer is registered,
  and ok is said only over one that was taken. After `remove_peer` has returned,
  only a transaction that already has its response can still say ok.
- `FileKept`: no step turns a `bonds.toml` that loads into one that does not,
  replaces one the program cannot read, or writes one in a directory that is not
  private. `SerialWritersKeepUpdates`: unless operations overlap, the file is
  the result of all saves one after the other. `DonePairingUsable`: a pairing
  reported as done has its own record and its own key.
- `VerdictAgrees`: success only on the ok of the call's own transaction, never a
  denial of an approved one, and a denial only on a verdict about the response;
  everything else falls through to the next factor. `SlotAlwaysMoves`: whoever
  timed out or was killed, the head of a peer's semaphore is somebody who runs.
  `PamPeerIsServed`: after a start or a reload that read the present files with
  nothing failing, the daemon serves the peer PAM will ask for, if its key loads.
  `SuccessIsAudited`: a success line in `last.log` has the daemon's record before
  it, through power failures, and few of the daemon's records can be lost.
  `NobodyWaitsForever`: calls return and connections close.
- `WaybarDecides`: an applet's answer comes in time and decides its own attempt
  only. `OnAirAndCurrent`: rotation never leaves the air empty.
  `RequestHasAHandler`: no question outlives who asked it. `PairingEnds`: the
  window closes and the process exits.
- `PureCodeAgrees`: codec, reassembly, the bindings' check and the invite parser
  against reference definitions. `OkMeansThisChallenge` and
  `WholeApprovalUnlocks`: safety and use of the two ends' byte layouts together.
  `AnswersLikeWindow`: the cache answers like a sliding window. `InPhoneWindow`:
  a minute after the last upset, the phone accepts what is on the air as long as
  the next tick is not overdue. Before any upset it is the current minute until
  the tick falls due, and still accepted when a reload delays the tick by up to a
  minute. Not promised: after an upset, a late tick may leave the old identifier on
  the air past the phone's window, and a failed `Advertise` leaves nothing there
  until the next rotation.
- `ServiceKept`: the service file keeps its mode and the administrator's lines in
  their order: all they ever had, until an uninstall drops what was added since its
  backup. `NamedOnce`: never two recognised directives or two fallbacks, even when
  commands overlap; and never two lines for `pam_syauth`, recognised or not, while
  commands run one after the other and the backup stays in its place. `Undoable`:
  the backup exists and is what was there before.
  `EnabledRunnable`: the unit is enabled only with a complete binary and the
  loaded command line.
- `ServesOnlyMapped`: between reloads no characteristic of a removed peer is
  registered.

The bounds are the smallest in which the case each run is about occurs. Three
requests let one hold the permit, one queue and one be refused, or fill and
overflow a cache of one. Two nonces separate an eviction from a replay. Two
generations give a swap of the application or a removed and re-added peer, three
give a swap after that. Two edits give a revocation and a re-pairing. In `swap`
both peers may draw the same nonce, so that only the signer tells them apart.
`SingleUse` is per entry, as in the code: a re-added peer starts with an empty
cache, which is harmless with 32-byte random nonces.

Three processes are the fewest in which one stops, one has the old pidfile open
and one makes a new one; with three starts one slot may also be used again. A cap
of two is reached, with a further connection in the accept loop's branch. In
`swap` a reload adds the second peer and replaces the application in the middle
of the first one's transaction, with either phone showing either challenge; `files`
revokes a peer in the middle of its transaction, and removes and adds the same
peer. Edits and two peers together are left to the theorems.

Two operations are the fewest that can lose an update, and two peers the fewest in
which it is another peer's. Two logins queue for one permit; two starts give a
restart, with a power failure in between; the sync interval of two is reached and
missed by one. `pam` leaves three of the five verdicts to `pam_live`, where they
differ only in the answer, and the panic of the module, which ends the caller like
a kill does but with a code. Two pairing attempts let a decision for the first be
found by the second, and a window of a minute and a half has one or two
rotations. The clocks of `PairFlow` and `PamUnlock` keep the order of
the deadlines (applet wait < BlueZ's timeout; probe <= busy <= response = login
budget) in the smallest numbers that have it. Lengths of two separate an empty,
a partly filled and a full field. A minute of four seconds has jumps that are
shorter, equal and longer. Three commands give install, uninstall and install
again, or two of them at once and one after.

Deadlock is checked in the runs of `MCPresenced`: an operator's reload or the
minute tick is always possible, so the check adds little; `ReloadEnds` and `TxTerminates` are
what excludes transactions and reloads waiting on each other. In all other runs it
is off, since a behaviour may end there: all processes ended and no start left,
all operations done, all calls returned, the flow over.

Symmetry is used only where no liveness is checked, over peers, requests and
nonces, processes or calls.

**Fairness** (`FairSpec`): weak fairness of each transaction's own steps, of the
reload's steps, of taking a reload from the queue and of the inotify watcher.
Tokio polls every ready task, its timers fire, and its mutexes and semaphores
are queues. Nothing is assumed of phones, users, the link, the operator or the
writers. "register" is among the faults of the liveness run, so that a reload at
the bound `MaxGen` can still end the way a refused registration ends.
In `Lifecycle`, `PoliteSpec` is weak fairness of each process's main task, of its
accept loop, and of the end of its connections: every client sends its request
or hangs up, and `handle_connection` then returns, as `TxTerminates` shows for a
challenge. The last part is an assumption about clients, not about the code:
`read_frame` has no deadline and the accept loop waits for a permit where it
does not see the stop signal, so silent clients on every permit and one more in
the queue keep the process from ending after SIGTERM.
`PamUnlock` assumes that the client processes, the connection tasks and the accept
loop run and that time passes; BlueZ's `notify` call returns. Nothing is assumed
of the phone, the operator or a restart. `PairFlow` assumes the flow's thread, the
handlers' threads, BlueZ's own SMP timer and time; nothing of the phone, the
operator or the applet.

### Where the documents and the code disagree

`doc_answered` refutes a comment of the repository: the confirmation wait is
"Bounded so BlueZ always gets an answer" (`pair_backend.rs:540`). `run_pair` takes
`stdout.lock()` and keeps it to its end (`pair.rs:913`); the stdio and `--yes`
handlers run on another thread and print the code first, so they wait for that
lock, without a bound, while BlueZ waits for them. TLC's trace shows it. The
waybar handler does not print, and `WaybarDecides` holds.

Others came out of the modelling. They are design limits or statements that are
broader than the code, and the results above are stated so that they hold with
them. A late or misdirected answer is refused, never accepted.

In the daemon:

- "one in-flight challenge per peer": the permit belongs to the entry; a re-added
  peer has a new one while the old transaction still runs;
- a transaction that holds its response when its peer is removed may still say ok,
  since the mutex is released before the response is judged
  (`orchestrator.rs:931-984`);
- a reload and the minute tick share one loop, so a challenge that keeps the map's
  mutex delays the rotation by seconds;
- the pair service is said to stay registered with zero bonds; `remove_peer` drops
  the application and nothing registers the pair service again;
- one service per peer is described; registering a peer replaces the application
  by that peer's service;
- a reload compares peer ids only, so a new key of a live peer is not picked up;
- `syauth pair` saves the record before the key: a reload in between skips the
  peer, and nothing triggers another one;
- the pidfile is unlinked before its lock is released, so that two processes may
  each hold a lock; the second fails to bind, and `ListenerReachable` holds;
- after a crash the stale socket makes `bind` fail, and `run` waits for a signal
  without a server;
- `read_frame` has no deadline, and a full accept cap makes the 200 ms probe of
  `status` and `doctor` report a running daemon as down.

Around it:

- a pairing of another peer that loaded `bonds.toml` before an acknowledged
  revocation saved it brings the revoked record back (`overlap` in
  `SerialWritersKeepUpdates`);
- the CLI's key file is said to be written atomically; it is `fs::write`
  (`pair.rs:892`);
- a comment in `auth.rs` expects the daemon's own timeout to trip first; the two
  budgets are equal and PAM's starts earlier;
- the default module arguments contain `timeout=8000`, which
  `Config::from_pam_argv` ignores;
- `status.rs:302` reads the first 64 lines of the log where its doc says last, and
  `last.log` has lines of two formats;
- a daemon without orchestrator answers "not-implemented", which PAM maps to a
  denial;
- Ctrl-C leaves the applet's request file; the confirmation mutex is held for a
  phone that has gone; the OOB question does not end at the end of stdin;
- `build_response_frame` says that the desktop expects a framed response; the
  daemon takes only a bare signature (`Exchange`, `ApproveFramed`). The app does
  not call `verify_challenge_frame`, which `BondRecord.kt:12` says gates a
  challenge. `ReplayCache`, `reassemble`, `sign_challenge_response` and
  `BleScanController` have no caller outside tests;
- the installers' backup is never synced; their recogniser misses a bracketed
  control field and an absolute module path, so that installing with such a
  control, moving the backup aside and installing again leaves two `pam_syauth`
  lines where `install_pam.rs:4` says "Idempotent" (`moved` in `NamedOnce`);
  uninstall drops edits made since install (`uninstall_pam.rs:190-197`, `dropped`
  in `ServiceKept`); two overlapping installs may leave a backup that has our line
  (`clash` in `Undoable`); `--dry-run` without `--unit-dir` overwrites the live unit; reinstalling
  over a running daemon fails on the busy binary.

## What is proved

Every safety property that a run checks is also a theorem, for every value of the
constants that satisfies the assumptions named below. In each component the
argument is an inductive invariant, defined in the component's own module: it holds
initially, every action keeps it, it implies the property. The proofs have a lemma
per action or group of actions, frame lemmas (what a kind of step leaves alone)
and, where it pays, lemmas about the operators.

### The daemon: `PresencedProofs`, `ReloadProofs`

From `PeripheralAssumption`, `OrchestratorAssumption` and `PresencedAssumption`:
the capacities and bounds are natural numbers, positive except `MaxEdits`; the
markers `None` and `Deny` are not values; `HostKey` is a key.

| Theorem | Statement |
|---|---|
| `PresencedProofs!CoreInductive` | `Spec => []CoreInv` |
| `TypeCorrect` | `Spec => []TypeOK` |
| `NoUnlockWithoutApproval` | `Spec => []OkIsApproved` |
| `PermitsAreExclusive` | `Spec => []PermitExclusive` |
| `MapsStayTogether` | `Spec => []MapsAgree` |
| `WaitsArePinned` | `Spec => []ResponsePinned` |
| `NoResponseAfterRemoval` | `Spec => TakenWhileRegistered` |
| `Refinement` | `Spec => ImplementsUnlockService` |
| `ReloadProofs!Inductive` | `Spec => []IInv` |
| `OneAuditLine` | `Spec => []AuditedOnce` |
| `NoncesAreSingleUse` | `Spec => []SingleUse` |
| `AdvertisementIsCurrent` | `Spec => []AdvertisesLive` |
| `ApplicationIsMapped` | `Spec => []ServesOnlyMapped` |
| `RevocationsHold` | `Spec => []RevokedNotLive` |
| `TransactionsGoForward` | `Spec => TxForward` |
| `WaitsHaveAnEnd` | `Spec => []NoCircularWait` |
| `ReloadsGoForward` | `Spec => ReloadForward` |

`CoreInv` is what a transaction relies on. `OkIsApproved` alone is not inductive: ok
is said over a response that came through a channel, so `ResponseInv` says that
everything in a channel, on its way there, or taken and not yet judged is a denial or
was approved. `TxInv` gives each transaction in flight its peer, its entry's permit
and its nonce, from which `PermitExclusive` follows, since a permit has one holder.
`LockInv` ties the mutex to the one transaction in `recv`, and with it `remove_peer`
cannot pull a characteristic set from under a wait (`ResponsePinned`);
`NoResponseAfterRemoval` rests on that. `ReloadInv` says how far the reload has come,
which `MapsAgree` needs. `InboxInv` says that a phone shows only nonces some
transaction drew, for this phone or for another, which the refinement's `Sign` step
needs. The refinement maps a transaction to idle, open or closed by `pc` and `out`.

`IInv` adds what the reload and the caches rely on, and stands on `CoreInv` being an
invariant already. `CacheInv` says that the last accepted nonces of an entry, as many
as its cache holds, are the cache: the step that accepts a nonce has seen the cache
without it, hence `SingleUse`. `AuditedOnce` needs `LoggedInv`, that only a
transaction with an outcome can have lost its line. `AppInv` ties the one registered
application to the peer a reload is adding or to the map. `SyncInv` says what the
live set knows of `bonds.toml` when no reload is queued or under way: a revocation
leaves a trigger behind, and a reload that has read an older file is followed by
another. `RevokedNotLive` is that, read for a revoked record.

The last three are the part of `TxTerminates` and `ReloadEnds` that needs neither
fairness nor `ENABLED`. A transaction's `Stage` only grows and a reload's lists
only shrink, or it gets on with the peer it is at: both have finitely many steps.
What can stop one is a wait. `PermitInv` (a conjunct of `IInv`) says that a permit
is out only to a transaction that has not returned, so no return path keeps one;
with `LockInv`, whoever is waited for is at a later stage than the one who waits,
so waits form no circle, and the mutex that reloads and other transactions need is
kept only by one that waits for a phone or its own timeout. That such a
transaction does take its step is the fairness `liveness` assumes.

### The process lifecycle: `LifecycleProofs`

From `LifecycleAssumption` (the markers are not processes, the bounds are
positive), for every number of processes and starts:

| Theorem | Statement |
|---|---|
| `LifecycleInductive` | `Spec => []LInv` |
| `ListenersReachable` | `Spec => []ListenerReachable` |
| `CleanShutdown` | `Spec => []NoDebris` |

`ListenerReachable` is inductive with `ServerInv` (the accept loop runs between
its spawn and its join, so a process that releases everything regularly is not
listening) and the types. `NoDebris` needs an owner for each file (`OwnedInv`):
somebody has the file at the pidfile path open and has not yet unlinked it. The
step that could lose the owner is a process that finds the lock taken and gives
up: then the holder has the same inode open (`HolderInv`), and is not past its
unlink, since the path still names that inode (`UnlinkedInv`). A new file's
inode is one that nobody has open (`FdInv`).

### The login path: `PamUnlockProofs`

From `PamUnlockAssumption` (the names of calls and peers are apart, `Peers` is
finite, the accept cap and the budgets are positive, and the budgets are ordered
as the code's: probe, busy deadline, authentication) and `LastLogAssumption`:

| Theorem | Statement |
|---|---|
| `Inductive` | `Spec => []IInv` |
| `CodesAgree` | `Spec => []VerdictAgrees` |
| `SlotsMove` | `Spec => []SlotAlwaysMoves` |
| `PamAndDaemonAgree` | `Spec => []PamPeerIsServed` |
| `SuccessesAreAudited` | `Spec => []SuccessIsAudited` |

`CallInv` relates the two ends of a connection, which outlive each other: a reason
the caller has is its own or what its own connection answered, and a connection
has an answer only past its transaction. `SlotInv` says that a handler is in its
own peer's queue exactly once, and that only the first is past the queue, so that
a slot with somebody in it has somebody who will give it back. For the log,
`LineInv` carries the daemon's record from the write to the caller's own success
line; `SyncInv` counts what is not synced: less than one batch of the running
daemon and of each earlier one, which is what a power failure may take.

### Pairing: `PairFlowProofs`, `BondFilesProofs`

From `PairFlowAssumption`; the one inequality in it, that the agent's own timeout
is shorter than BlueZ's, is that of the two constants in `pair.rs`:

| Theorem | Statement |
|---|---|
| `Inductive` | `Spec => []IInv` |
| `RequestsAreWatched` | `Spec => []RequestHasAHandler` |
| `WaybarIsAnswered` | `Spec => []WaybarDecides` |
| `AdvertIsCurrent` | `Spec => []OnAirAndCurrent` |

An attempt's answer must have BlueZ's time left (`WaybarOK`): a poll that has not
had to wait has the difference of the two timeouts to spare at all times, and the
answer is the click the request's own prompt showed (`ResponseOK`). `AirOK` is the
advertisement between rotations and within one.

From `BondFilesAssumption` (there is a peer, the daemon is not a CLI process):

| Theorem | Statement |
|---|---|
| `Inductive` | `Spec => []IInv` |
| `PeersHaveOneRecord` | `Spec => []OneRecordPerPeer` |
| `UpdatesAreKept` | `Spec => []SerialWritersKeepUpdates` |
| `PairingsAreUsable` | `Spec => []DonePairingUsable` |
| `BondsFileIsKept` | `Spec => FileKept` |

Nothing locks `bonds.toml`, so the invariant is about what a writer still knows at
each of its steps. `WriterOK`: it saves only over a file it could load, into a
directory it has tightened, and renames only what it has synced. `StoreIsCurrent`:
while no operations have overlapped, what it holds is what it would make of the
file as it is now. `StampsOK` numbers the operations, and makes `overlap` tell the
truth about two that were under way together. `PairingOK` follows the key and the
record of a pairing in the order their writer makes them, which differs between
the daemon and the CLI.

### Bytes, caches and minutes: `CoreProofs`

| Theorem | Statement | From |
|---|---|---|
| `PhonesFindTheHost` | `DiscoverySpec => []InPhoneWindow` | `DiscoveryAssumption` |
| `ExchangeInductive` | `ExchangeSpec => []ExchangeInv` | `FrameAssumption`, `ExchangeAssumption` |
| `OkIsThisChallenge` | `ExchangeSpec => []OkMeansThisChallenge` | the same |
| `WholeAnswersUnlock` | `ExchangeSpec => WholeApprovalUnlocks` | the same and `StripLen = TagLen` |
| `CacheInductive` | `CacheSpec => []CacheInv` | `ReplayCacheAssumption` |
| `CacheIsAWindow` | `CacheSpec => AnswersLikeWindow` | the same |
| `DriversDriveTheParts` | `Spec => ExchangeSpec /\ CacheSpec /\ DiscoverySpec` (`Spec` of `MCCore`) | none |
| `LibraryInductive` | `Spec => []LibraryInv` | `FrameAssumption`, `ExchangeAssumption`, `ReplayCacheAssumption` |
| `PureCodeIsRight` | `Spec => []PureCodeAgrees` | the same |

`Discovery` holds for every length of a minute and every delay of a tick. What is on
the air is owed to the latest tick served; if that fell due after the last upset,
both clocks have run together since, and the minute was read somewhere between then
and now (`ReadSince`, with `Age` for how long ago). Before the first upset every tick
falls due at a full minute, which makes it the minute of the tick. In
`Exchange` everything a phone has in hand is a genuine challenge, and what an
answer decodes to was approved by the phone that sent it. `StripLen = TagLen` is
the only hypothesis a theorem adds: the Android side has its own constant for the
number of bytes it cuts off, and the theorem says what depends on its being right.
For the replay cache, the queue and the history of accepted nonces agree counted
from the newest entry; what the queue no longer has within its capacity has
expired, since times do not decrease along the history. The assumption is that the
capacities an instance tries have a largest one.

`DriversDriveTheParts` carries these theorems over to the composition that `core`
checks. `LibraryInv` is the invariants of the parts and `InputsOK`: the byte
strings, segments and query pairs are made of what the code can be given.
`PureCodeAgrees` then holds in every state, by one lemma for each piece of code:

- `DecodeIsInverse`: a string is its version byte, nonce, payload and tag,
  concatenated (`Pieces`), so what `decode` slices off encodes to what it was given,
  and a frame that encodes to it has these very slices.
- `ReassembleIsInverse`: in a concatenation each part is found between where the
  parts before it end and where it ends (`FlattenedParts`), so the payloads of the
  segments can be read off the whole.
- `VerifiesGenuine`: what a phone has is the front of one genuine challenge; only
  the whole of it decodes, and its tag tells whose key made it.
- `InviteAgrees`: after any number of pairs the loop holds the last value of each
  key, or knows that there was none (`ScanKnows`).

Concatenation and the parser's loop are recursive functions. That the recursion
has a solution (`FlattensExists`, `ScansExists`) and what it computes is shown by
induction on the number of parts or pairs. The induction is stated for a set in
the place of a predicate (`SetInduction`), which holds since a set of numbers that
misses one misses a least one.

### The installers: `InstallProofs`

`Install` needs no assumption; the theorems hold for every number of commands,
administrator's edits and troubles.

| Theorem | Statement |
|---|---|
| `Inductive` | `Spec => []IInv` |
| `StackNamesUsOnce` | `Spec => []NamedOnce` |
| `AdministratorsLinesStay` | `Spec => []ServiceKept` |
| `InstallCanBeUndone` | `Spec => []Undoable` |
| `UnitIsRunnable` | `Spec => EnabledRunnable` |

The first part of `NamedOnce` holds even when commands overlap: every content that
any command has read, made or written has at most one recognised line (`FileFits`,
`CommandFits`), and inserting happens only into one that has none. The rest is about
commands that do not overlap. Lines the tools do not recognise need an invariant of
their own, proved on top of `IInv`: `NameInv` says that while the backup is in its
place a `pam_syauth` line in either form is in the file only beside a backup, whose
presence makes an install refuse, and never in the backup. `HistoryInv` says that
`kept` is `admin` until a restore drops an edit. `Knows` says what the one command
under way has established at its step (what it read is what the file still has, the
backup it made is that), `FilesTell` what the files themselves tell in between. That
the administrator's lines stay is stated by their places: the lines of the file that
are not ours, in order, are `kept`, one place of the file for each. Inserting our
line shifts the places after it, removing it shifts them back.

### Only model-checked

- Liveness: `TxTerminates`, `ReloadEnds`, `RevocationTakesEffect`, `ShutdownEnds`,
  `NobodyWaitsForever`, `PairingEnds`. Fairness and `ENABLED` are out of the
  prover's reach; for the first two the rankings are proved (`ReloadProofs`).
- `AnsweredInTime` of `doc_answered` does not hold.

`ResponsePinned` and `TypeOK` of `Presenced` are proved and follow from `IInv`, so
no run repeats them.

## Plan

Done: the daemon core, the process lifecycle, the bond files, the login path with
its clock and its log, the pairing flow, the byte-level and pure code, the
installers, and the proofs of their safety properties. Left:

`PhoneClient`: `PersistentGattClient`, the companion service and the approval
activity; stale callbacks after a reconnect.

## Not modelled

- The secret store (`secrets.rs`): reads with permission checks, without a caller
  on the unlock path.
- The OOB word code: a table indexed by a hash, without state.
- The central-role client of `bluez.rs` and the mock transport: not on the daemon's
  path; only `reassemble` is modelled.
- The Android screens, history and scan, and the connection state machine of the
  phone's GATT client (planned); the phone is what it shows, signs and writes.
- The text of `status`, `doctor` and `list`; argument parsing.
- Cryptography itself: a MAC or a signature is a value nobody else can make, a
  session identifier is the minute it was derived from.

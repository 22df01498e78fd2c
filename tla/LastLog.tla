-------------------------------- MODULE LastLog --------------------------------
(* last.log: the daemon's AuditLog and the PAM module's append_last_log write *)
(* to the same file with O_APPEND, so lines are whole and in one order, but   *)
(* only the daemon ever syncs it, every AUDIT_FSYNC_EVERY of its own appends. *)
EXTENDS Naturals, Sequences, FiniteSets

CONSTANTS
    Writers,            \* what a line can be about: the calls
    AUDIT_FSYNC_EVERY,
    LineResults         \* outcomes a line can carry

ASSUME LastLogAssumption == AUDIT_FSYNC_EVERY \in Nat \ {0}

VARIABLES
    log,            \* the lines
    synced,         \* lines a power failure cannot take
    appended,       \* AuditLog.appended_since_fsync of the running daemon
    opens,          \* times the daemon has started
    syncFailed      \* a sync_all has failed (history)

logVars == <<log, synced, appended, opens, syncFailed>>

Line == [src : {"daemon", "pam"}, call : Writers, res : LineResults]

LogTypeOK ==
    /\ log \in Seq(Line)
    /\ synced \in 0..Len(log)
    /\ appended \in Nat
    /\ opens \in Nat
    /\ syncFailed \in BOOLEAN

LogInit ==
    /\ log = <<>>
    /\ synced = 0
    /\ appended = 0
    /\ opens = 0
    /\ syncFailed = FALSE

(* AuditLog::open of a starting daemon: the counter starts over.              *)
LogOpen ==
    /\ appended' = 0
    /\ opens' = opens + 1
    /\ UNCHANGED <<log, synced, syncFailed>>

(* The append that is about to happen is followed by a sync.                  *)
Due == (appended + 1) % AUDIT_FSYNC_EVERY = 0

(* AuditLog::append: the write, and the sync when it is due.                  *)
LogAppend(c, reason) ==
    /\ log' = Append(log, [src |-> "daemon", call |-> c, res |-> reason])
    /\ appended' = appended + 1
    /\ synced' = IF Due THEN Len(log) + 1 ELSE synced
    /\ UNCHANGED <<opens, syncFailed>>

(* The write succeeds and the sync that is due fails; the counter stays.      *)
LogAppendUnsynced(c, reason) ==
    /\ Due
    /\ log' = Append(log, [src |-> "daemon", call |-> c, res |-> reason])
    /\ appended' = appended + 1
    /\ syncFailed' = TRUE
    /\ UNCHANGED <<synced, opens>>

(* append_last_log: opened for this line, never synced.                       *)
LogAppendPam(c, verb) ==
    /\ log' = Append(log, [src |-> "pam", call |-> c, res |-> verb])
    /\ UNCHANGED <<synced, appended, opens, syncFailed>>

(* A power failure keeps a prefix that includes what was synced.              *)
LogPowerLoss ==
    /\ \E n \in synced..Len(log) : log' = SubSeq(log, 1, n)
    /\ synced' = Len(log')
    /\ UNCHANGED <<appended, opens, syncFailed>>

-----------------------------------------------------------------------------
(* "fsyncs every 32 transactions": what a power failure can take of the       *)
(* daemon's records is less than AUDIT_FSYNC_EVERY for each time the daemon   *)
(* has opened the log, whatever the PAM module wrote in between.              *)
Unsynced == {i \in (synced + 1)..Len(log) : log[i].src = "daemon"}
UnsyncedBounded ==
    ~syncFailed => Cardinality(Unsynced) <= opens * (AUDIT_FSYNC_EVERY - 1)
================================================================================

------------------------------ MODULE Install -------------------------------
(* `syauth install-pam`, `uninstall-pam` and `install-presenced` (install_pam, *)
(* uninstall_pam, install_presenced and their dispatch in main.rs): one PAM    *)
(* service file, its .bak, the daemon's binary and its systemd user unit.      *)
(* Commands are processes that take one file operation per step; they may      *)
(* overlap, fail, be killed or lose power between any two, and the             *)
(* administrator may edit the files meanwhile.  A file is its lines, its mode  *)
(* and whether it is whole; a line is abstracted to what the tools tell apart: *)
(*   "auth" another auth directive     "syauth"  a line the tools recognise    *)
(*   "note" anything else              "syauthX" one they do not (a bracketed  *)
(*   "u2f"  a pam_u2f directive                  control with blanks, a path)  *)
(*   "latin1" a line that is not UTF-8                                         *)
EXTENDS Naturals, Sequences, SequencesExt, FiniteSets

CONSTANTS
    Procs,          \* command invocations in progress at a time
    MaxCommands,    \* bound: commands started
    MaxTrouble      \* bound: failures, kills, power losses, edits by the administrator

VARIABLES
    svc,        \* <pam_dir>/<service>
    bak,        \* <service>.bak, or NoFile
    unit,       \* ExecStart of the installed unit: "none", "libexec", "source"
    bin,        \* /usr/local/libexec/syauth-presenced: "none", "torn", "whole"
    systemd,    \* what systemd has loaded and enabled: [exec, enabled]
    proc,       \* the commands
    started,    \* commands started so far
    trouble,    \* troubles so far
    admin,      \* history: the lines of their own the administrator has ever had in svc
    kept, snap, \* history: those in svc, and in bak, by what the commands did
    dropped,    \* history: a restored backup was older than an edit
    clash,      \* history: two commands, or a command and an edit, overlapped
    dark,       \* history: the power was lost
    moved       \* history: the administrator moved a backup aside

vars == <<svc, bak, unit, bin, systemd, proc, started, trouble, admin, kept, snap, dropped,
          clash, dark, moved>>
daemonVars == <<unit, bin, systemd>>
histVars == <<admin, kept, snap, dropped, clash, dark, moved>>

Lines == {"auth", "note", "latin1", "u2f", "syauth", "syauthX"}
Ours == {"syauth", "syauthX", "u2f"}
NoFile == [lines |-> <<>>, mode |-> "none", whole |-> FALSE, synced |-> FALSE]
Mode == "0644"
Original == <<"note", "auth", "note">>
NoCommand == [pc |-> "idle", cmd |-> "none", line |-> "syauth", u2f |-> FALSE, daemon |-> FALSE,
              from |-> FALSE, dry |-> FALSE, seen |-> <<>>, mode |-> "none", tmp |-> NoFile]
Commands == {"install", "uninstall", "daemon"}
Busy == {p \in Procs : proc[p].pc # "idle"}

Content == [lines : Seq(Lines), mode : {"0600", Mode}, whole : BOOLEAN, synced : BOOLEAN]
File == Content \cup {NoFile}
PCs == {"idle", "read", "backup", "open", "copy", "temp", "persist", "remove",
        "unit", "binary", "fill", "reload", "enable"}
Command == [pc : PCs, cmd : Commands \cup {"none"}, line : {"syauth", "syauthX"},
            u2f : BOOLEAN, daemon : BOOLEAN, from : BOOLEAN, dry : BOOLEAN,
            seen : Seq(Lines), mode : {"none", "0600", Mode}, tmp : File]

(* The files, the unit and the commands have the values named above.           *)
TypeOK ==
    /\ svc \in File /\ bak \in File
    /\ unit \in {"none", "libexec", "source"}
    /\ bin \in {"none", "torn", "whole"}
    /\ systemd \in [exec : {"none", "libexec", "source"}, enabled : BOOLEAN]
    /\ proc \in [Procs -> Command]
    /\ kept \in Seq(Lines) /\ snap \in Seq(Lines)
    /\ clash \in BOOLEAN /\ dark \in BOOLEAN /\ moved \in BOOLEAN

-----------------------------------------------------------------------------
(* recognition_regex and u2f_recognition_regex.                                *)
Recognised(lines) == \E i \in DOMAIN lines : lines[i] = "syauth"
HasU2f(lines) == \E i \in DOMAIN lines : lines[i] = "u2f"
IsAuthDirective(line) == line # "note"

FirstWhere(lines, P(_)) ==
    CHOOSE i \in DOMAIN lines : P(lines[i]) /\ \A j \in 1..(i - 1) : ~P(lines[j])

(* Variant: replaces the first auth line.                                      *)
InsertLineOver(lines, new) ==
    IF \E i \in DOMAIN lines : IsAuthDirective(lines[i])
    THEN [lines EXCEPT ![FirstWhere(lines, IsAuthDirective)] = new]
    ELSE <<new>> \o lines

(* insert_line: above the first auth directive, or at the top.                 *)
InsertLine(lines, new) ==
    IF \E i \in DOMAIN lines : IsAuthDirective(lines[i])
    THEN InsertAt(lines, FirstWhere(lines, IsAuthDirective), new)
    ELSE <<new>> \o lines

(* maybe_insert_u2f_fallback: below the syauth line, recognised or not.        *)
MaybeInsertU2f(lines, enabled) ==
    LET IsOurs(l) == l \in {"syauth", "syauthX"}
    IN  IF ~enabled \/ HasU2f(lines) \/ ~\E i \in DOMAIN lines : IsOurs(lines[i]) THEN lines
        ELSE InsertAt(lines, FirstWhere(lines, IsOurs) + 1, "u2f")

(* Variant: the line is inserted whether or not there is one.                  *)
NewContentsAgain(c) == MaybeInsertU2f(InsertLine(c.seen, c.line), c.u2f)

NewContents(c) ==
    MaybeInsertU2f(IF Recognised(c.seen) THEN c.seen ELSE InsertLine(c.seen, c.line), c.u2f)

-----------------------------------------------------------------------------
Init ==
    /\ svc \in {NoFile} \cup {[lines |-> l, mode |-> Mode, whole |-> TRUE, synced |-> TRUE] :
                                l \in {Original, <<"note">>, <<"latin1", "auth">>}}
    /\ bak = NoFile
    /\ unit = "none" /\ bin = "none" /\ systemd = [exec |-> "none", enabled |-> FALSE]
    /\ proc = [p \in Procs |-> NoCommand]
    /\ started = 0 /\ trouble = 0
    /\ admin = svc.lines /\ kept = svc.lines /\ snap = <<>> /\ dropped = FALSE
    /\ clash = FALSE /\ dark = FALSE /\ moved = FALSE

(* One command line; a second one beside a running one is a clash.             *)
Begin(p, cmd, line, u2f, daemon, from, dry) ==
    /\ proc[p].pc = "idle"
    /\ started < MaxCommands
    /\ started' = started + 1
    /\ proc' = [proc EXCEPT ![p] = [NoCommand EXCEPT
                    !.pc = IF cmd = "daemon" THEN "unit" ELSE "read", !.cmd = cmd, !.line = line,
                    !.u2f = u2f, !.daemon = daemon, !.from = from, !.dry = dry]]
    /\ clash' = (clash \/ Busy # {})
    /\ UNCHANGED <<svc, bak, daemonVars, trouble, admin, kept, snap, dropped, dark, moved>>

End(p) == proc' = [proc EXCEPT ![p] = NoCommand]
Step(p, pc) == proc' = [proc EXCEPT ![p].pc = pc]

(* After the PAM part, run_install goes on to install_presenced if asked to.   *)
PamDone(p) ==
    proc' = [proc EXCEPT ![p] =
        IF proc[p].daemon THEN [NoCommand EXCEPT !.pc = "unit", !.cmd = "install"]
        ELSE NoCommand]

Here(p, cmd, pc) == proc[p].cmd = cmd /\ proc[p].pc = pc
NoFileChange == UNCHANGED <<svc, bak, daemonVars, started, trouble, histVars>>

-----------------------------------------------------------------------------
(* service.exists and read_utf8: ServiceNotFound, NotUtf8.                     *)
Readable == svc # NoFile /\ \A i \in DOMAIN svc.lines : svc.lines[i] # "latin1"

Unreadable(p) ==
    /\ proc[p].pc = "read"
    /\ ~Readable
    /\ End(p)
    /\ NoFileChange

(* install                                                                     *)

AlreadyInstalled(p) ==
    /\ Here(p, "install", "read") /\ Readable
    /\ Recognised(svc.lines)
    /\ ~proc[p].u2f \/ HasU2f(svc.lines)
    /\ PamDone(p)
    /\ NoFileChange

(* The file is to change: for the line, which needs a backup first, or only    *)
(* for the fallback.                                                           *)
InstallRead(p) ==
    /\ Here(p, "install", "read") /\ Readable
    /\ ~Recognised(svc.lines) \/ (proc[p].u2f /\ ~HasU2f(svc.lines))
    /\ proc' = [proc EXCEPT ![p].seen = svc.lines, ![p].mode = svc.mode,
                            ![p].pc = IF Recognised(svc.lines) THEN "temp" ELSE "backup"]
    /\ NoFileChange

BackupExists(p) ==
    /\ Here(p, "install", "backup")
    /\ bak # NoFile
    /\ End(p)
    /\ NoFileChange

(* backup.exists() said no: another command may make the file before ...       *)
BackupFree(p) ==
    /\ Here(p, "install", "backup")
    /\ bak = NoFile
    /\ Step(p, "open")
    /\ NoFileChange

(* ... fs::copy opens and truncates it, and then fills it                      *)
BackupOpen(p) ==
    /\ Here(p, "install", "open")
    /\ bak' = [lines |-> <<>>, mode |-> Mode, whole |-> FALSE, synced |-> FALSE]
    /\ Step(p, "copy")
    /\ UNCHANGED <<svc, daemonVars, started, trouble, histVars>>

(* with what the service file holds now, and its mode.                         *)
BackupCopy(p) ==
    /\ Here(p, "install", "copy")
    /\ bak' = [svc EXCEPT !.synced = FALSE]
    /\ snap' = kept
    /\ Step(p, "temp")
    /\ UNCHANGED <<svc, daemonVars, started, trouble, admin, kept, dropped, clash, dark, moved>>

(* atomic_write up to the rename: write, sync_all, set_permissions.            *)
WriteTemp(p) ==
    /\ Here(p, "install", "temp")
    /\ proc' = [proc EXCEPT ![p].tmp = [lines |-> NewContents(proc[p]), mode |-> proc[p].mode,
                                        whole |-> TRUE, synced |-> TRUE],
                            ![p].seen = <<>>, ![p].pc = "persist"]
    /\ NoFileChange

(* The rename.  Of the administrator's lines those the command read survive.   *)
Persist(p) ==
    /\ Here(p, "install", "persist")
    /\ svc' = proc[p].tmp
    /\ PamDone(p)
    /\ UNCHANGED <<bak, daemonVars, started, trouble, histVars>>

-----------------------------------------------------------------------------
(* uninstall                                                                   *)

NotInstalled(p) ==
    /\ Here(p, "uninstall", "read") /\ Readable
    /\ ~Recognised(svc.lines)
    /\ End(p)
    /\ NoFileChange

UninstallRead(p) ==
    /\ Here(p, "uninstall", "read") /\ Readable
    /\ Recognised(svc.lines)
    /\ Step(p, "backup")
    /\ NoFileChange

BackupMissing(p) ==
    /\ Here(p, "uninstall", "backup")
    /\ bak = NoFile
    /\ End(p)
    /\ NoFileChange

(* Reads the backup and the current mode, and writes the temporary file.       *)
RestoreTemp(p) ==
    /\ Here(p, "uninstall", "backup")
    /\ bak # NoFile
    /\ proc' = [proc EXCEPT ![p].tmp = [bak EXCEPT !.mode = svc.mode, !.synced = TRUE],
                            ![p].pc = "persist"]
    /\ NoFileChange

(* Variant: the backup goes before the service file is replaced.               *)
RestoreRemovesFirst(p) ==
    /\ Here(p, "uninstall", "persist")
    /\ bak' = NoFile
    /\ Step(p, "remove")
    /\ UNCHANGED <<svc, daemonVars, started, trouble, histVars>>

(* The backup takes the file's place; what the administrator added to the file *)
(* since the backup was made goes with it.                                     *)
RestorePersist(p) ==
    /\ Here(p, "uninstall", "persist")
    /\ svc' = proc[p].tmp
    /\ kept' = snap
    /\ dropped' = (dropped \/ snap # kept)
    /\ proc' = [proc EXCEPT ![p].tmp = NoFile, ![p].pc = "remove"]
    /\ UNCHANGED <<bak, daemonVars, started, trouble, admin, snap, clash, dark, moved>>

(* fs::remove_file; that the backup is already gone is an error, too late.     *)
RemoveBackup(p) ==
    /\ Here(p, "uninstall", "remove")
    /\ bak' = NoFile
    /\ End(p)
    /\ UNCHANGED <<svc, daemonVars, started, trouble, histVars>>

-----------------------------------------------------------------------------
(* install_presenced                                                           *)
OnDaemonPart(p, pc) == proc[p].cmd # "none" /\ proc[p].pc = pc

(* resolve_source_binary, rewrite_exec_start, atomic_write_text.  The unit     *)
(* names the source for --from and for --dry-run, the copy otherwise.          *)
WriteUnit(p) ==
    /\ OnDaemonPart(p, "unit")
    /\ unit' = IF proc[p].dry \/ proc[p].from THEN "source" ELSE "libexec"
    /\ IF proc[p].dry THEN End(p) ELSE Step(p, "binary")
    /\ UNCHANGED <<svc, bak, bin, systemd, started, trouble, histVars>>

(* No --from and no sibling binary, or no home directory.                      *)
DaemonUnresolved(p) ==
    /\ OnDaemonPart(p, "unit")
    /\ End(p)
    /\ NoFileChange

(* fs::copy over the installed binary; the kernel refuses (ETXTBSY) while the  *)
(* daemon runs from it.                                                        *)
OpenBinary(p) ==
    /\ OnDaemonPart(p, "binary")
    /\ ~(systemd.enabled /\ systemd.exec = "libexec")
    /\ bin' = "torn"
    /\ Step(p, "fill")
    /\ UNCHANGED <<svc, bak, unit, systemd, started, trouble, histVars>>

BinaryBusy(p) ==
    /\ OnDaemonPart(p, "binary")
    /\ systemd.enabled /\ systemd.exec = "libexec"
    /\ End(p)
    /\ NoFileChange

FillBinary(p) ==
    /\ OnDaemonPart(p, "fill")
    /\ bin' = "whole"
    /\ Step(p, "reload")
    /\ UNCHANGED <<svc, bak, unit, systemd, started, trouble, histVars>>

(* Variant: no daemon-reload before the unit is enabled.                       *)
DaemonReloadSkipped(p) ==
    /\ OnDaemonPart(p, "reload")
    /\ Step(p, "enable")
    /\ NoFileChange

DaemonReload(p) ==
    /\ OnDaemonPart(p, "reload")
    /\ systemd' = [systemd EXCEPT !.exec = unit]
    /\ Step(p, "enable")
    /\ UNCHANGED <<svc, bak, unit, bin, started, trouble, histVars>>

EnableNow(p) ==
    /\ OnDaemonPart(p, "enable")
    /\ systemd' = [systemd EXCEPT !.enabled = TRUE]
    /\ End(p)
    /\ UNCHANGED <<svc, bak, unit, bin, started, trouble, histVars>>

-----------------------------------------------------------------------------
(* Trouble.                                                                    *)

(* A file operation or systemctl fails, or the process is killed: the command  *)
(* ends where it is, and its temporary file goes with it or is left unused.    *)
Stops(p) ==
    /\ proc[p].pc # "idle"
    /\ trouble < MaxTrouble
    /\ trouble' = trouble + 1
    /\ End(p)
    /\ UNCHANGED <<svc, bak, daemonVars, started, histVars>>

(* The administrator appends a line of their own ...                           *)
Edit ==
    /\ trouble < MaxTrouble
    /\ svc # NoFile
    /\ trouble' = trouble + 1
    /\ svc' = [svc EXCEPT !.lines = Append(@, "note")]
    /\ admin' = Append(admin, "note")
    /\ kept' = Append(kept, "note")
    /\ clash' = (clash \/ Busy # {})
    /\ UNCHANGED <<bak, daemonVars, proc, started, snap, dropped, dark, moved>>

(* ... or moves the backup aside, as the refusal suggests.                     *)
MoveAside ==
    /\ trouble < MaxTrouble
    /\ bak # NoFile
    /\ trouble' = trouble + 1
    /\ bak' = NoFile
    /\ moved' = TRUE
    /\ clash' = (clash \/ Busy # {})
    /\ UNCHANGED <<svc, daemonVars, proc, started, admin, kept, snap, dropped, dark>>

(* What was synced survives; a file that never was may come back incomplete.   *)
(* (A rename or a removal the journal lost is a command that stopped earlier.) *)
Surviving(f) ==
    IF f = NoFile \/ f.synced THEN {f} ELSE {f, [f EXCEPT !.whole = FALSE, !.lines = <<>>]}

PowerLoss ==
    /\ trouble < MaxTrouble
    /\ trouble' = trouble + 1
    /\ dark' = TRUE
    /\ svc' \in Surviving(svc)
    /\ bak' \in Surviving(bak)
    /\ proc' = [p \in Procs |-> NoCommand]
    /\ UNCHANGED <<daemonVars, started, admin, kept, snap, dropped, clash, moved>>

-----------------------------------------------------------------------------
InstallStep(p) ==
    \/ AlreadyInstalled(p) \/ InstallRead(p) \/ BackupExists(p) \/ BackupFree(p)
    \/ BackupOpen(p) \/ BackupCopy(p) \/ WriteTemp(p) \/ Persist(p)

UninstallStep(p) ==
    \/ NotInstalled(p) \/ UninstallRead(p) \/ BackupMissing(p) \/ RestoreTemp(p)
    \/ RestorePersist(p) \/ RemoveBackup(p)

DaemonStep(p) ==
    \/ WriteUnit(p) \/ DaemonUnresolved(p) \/ OpenBinary(p) \/ BinaryBusy(p) \/ FillBinary(p)
    \/ DaemonReload(p) \/ EnableNow(p)

(* --with-presenced is tried without the fallback, and its own options with    *)
(* install-presenced: neither changes what the other does.                     *)
StartCommand(p) ==
    \/ \E line \in {"syauth", "syauthX"}, u2f \in BOOLEAN :
          Begin(p, "install", line, u2f, FALSE, FALSE, FALSE)
    \/ Begin(p, "install", "syauth", FALSE, TRUE, FALSE, FALSE)
    \/ Begin(p, "uninstall", "syauth", FALSE, FALSE, FALSE, FALSE)
    \/ \E from, dry \in BOOLEAN : Begin(p, "daemon", "syauth", FALSE, FALSE, from, dry)

Next ==
    \/ \E p \in Procs :
          \/ StartCommand(p) \/ Unreadable(p) \/ InstallStep(p) \/ UninstallStep(p)
          \/ DaemonStep(p) \/ Stops(p)
    \/ Edit \/ MoveAside \/ PowerLoss

Spec == Init /\ [][Next]_vars

-----------------------------------------------------------------------------
Count(lines, l) == Cardinality({i \in DOMAIN lines : lines[i] = l})

(* One directive at most of each kind that the tools recognise, and one at     *)
(* most for pam_syauth, recognised or not.                                     *)
Once(lines) == Count(lines, "syauth") <= 1 /\ Count(lines, "u2f") <= 1
Named == {"syauth", "syauthX"}
SyauthOnce(lines) ==
    \A i, j \in DOMAIN lines : lines[i] \in Named /\ lines[j] \in Named => i = j

(* The administrator's lines among the first i, and all of them in order.      *)
Place(lines, i) == Cardinality({j \in 1..i : lines[j] \notin Ours})
AdminLinesAre(lines, own) ==
    /\ Len(own) = Place(lines, Len(lines))
    /\ \A i \in DOMAIN lines : lines[i] \notin Ours => own[Place(lines, i)] = lines[i]

(* Wherever a command stops, and whatever order commands run in, the service   *)
(* file keeps its mode, and, unless commands overlapped or the power was lost, *)
(* is whole and holds the administrator's own lines, in their order, and the   *)
(* password directive among them: every line they ever had there, until an     *)
(* uninstall puts back a backup older than an edit, which drops what was added *)
(* since; and from then on those of the backup and the later ones.             *)
ServiceKept ==
    svc # NoFile =>
        /\ svc.mode = Mode
        /\ ~clash /\ ~dark => svc.whole /\ AdminLinesAre(svc.lines, kept)
        /\ ~dropped => kept = admin

(* Besides the types: the stack never has two lines the tools recognise, or    *)
(* two fallbacks, even when commands overlap.  And it never names pam_syauth   *)
(* twice, in a form they recognise or not, as long as commands run one after   *)
(* the other and the backup, which makes the second install refuse, stays.     *)
NamedOnce ==
    /\ TypeOK /\ Once(svc.lines)
    /\ ~clash /\ ~moved => SyauthOnce(svc.lines)

(* As long as syauth is wired in by a line the tools recognise, and nobody     *)
(* moved the backup aside, uninstall can undo it, a second time too when the   *)
(* first was stopped half way.  And the backup is what the file was before     *)
(* syauth: restoring it takes the line out and brings back what was there.     *)
Undoable ==
    ~clash =>
        /\ ~dark /\ ~moved /\ Recognised(svc.lines) => bak # NoFile /\ bak.whole
        /\ bak # NoFile /\ bak.whole =>
              ~Recognised(bak.lines) /\ (~dark => AdminLinesAre(bak.lines, snap))

(* The unit is only ever enabled with its binary complete and with the command *)
(* line systemd has loaded.                                                    *)
EnableStep ==
    systemd'.enabled /\ ~systemd.enabled /\ ~clash =>
        systemd'.exec = unit /\ (unit = "libexec" => bin = "whole")
EnabledRunnable == [][EnableStep]_vars

-----------------------------------------------------------------------------
(* The inductive invariant.  Every text a command holds names syauth once ...  *)
FileFits(f) == Once(f.lines) /\ (f # NoFile => f.mode = Mode)
CommandFits(c) ==
    /\ Once(c.seen) /\ FileFits(c.tmp)
    /\ c.pc \in {"backup", "open", "copy", "temp"} =>
          svc # NoFile /\ (c.cmd = "install" => c.mode = Mode)
    /\ c.pc = "persist" => c.tmp # NoFile

(* ... and a command that runs alone knows the files: what it read is still    *)
(* there, the line goes in after the backup, and the backup goes after it.     *)
BackedUp == bak # NoFile /\ (~dark => bak.whole)
InstallerKnows(c) ==
    /\ c.pc \in {"backup", "open", "copy"} => c.seen = svc.lines /\ ~Recognised(svc.lines)
    /\ c.pc = "temp" => c.seen = svc.lines
    /\ c.pc \in {"temp", "persist"} => Recognised(svc.lines) \/ BackedUp
    /\ c.pc = "persist" => c.tmp.whole /\ (~dark => AdminLinesAre(c.tmp.lines, kept))
UninstallerKnows(c) ==
    /\ c.pc = "backup" => Recognised(svc.lines)
    /\ c.pc = "persist" =>
          ~Recognised(c.tmp.lines) /\ (~dark => c.tmp.whole /\ AdminLinesAre(c.tmp.lines, snap))
    /\ c.pc = "remove" => ~Recognised(svc.lines)
DaemonKnows(c) ==
    /\ c.pc \in {"reload", "enable"} => bin = "whole"
    /\ c.pc = "enable" => systemd.exec = unit
Knows(c) ==
    /\ c.cmd = "install" => InstallerKnows(c)
    /\ c.cmd = "uninstall" => UninstallerKnows(c)
    /\ DaemonKnows(c)

FilesTell ==
    /\ bak # NoFile => ~Recognised(bak.lines)
    /\ ~dark =>
          /\ svc # NoFile => svc.whole /\ AdminLinesAre(svc.lines, kept)
          /\ bak # NoFile /\ bak.whole => AdminLinesAre(bak.lines, snap)
          /\ Recognised(svc.lines) => IF bak = NoFile THEN moved ELSE bak.whole

IInv ==
    /\ TypeOK /\ FileFits(svc) /\ FileFits(bak)
    /\ \A p \in Procs : CommandFits(proc[p])
    /\ ~clash =>
          /\ FilesTell
          /\ \A p \in Busy : Knows(proc[p]) /\ \A q \in Busy : p = q

(* Besides, without a clash and with the backup in its place: a line for       *)
(* pam_syauth, in either form, is in the file only beside a backup, and never  *)
(* in the backup; so the line goes in only where there was none.               *)
Unnamed(lines) == \A i \in DOMAIN lines : lines[i] \notin Named
NameKnows(c) ==
    /\ c.cmd = "install" =>
          /\ c.pc \in {"open", "copy"} => Unnamed(svc.lines)
          /\ c.pc = "temp" => bak # NoFile /\ (Recognised(svc.lines) \/ Unnamed(svc.lines))
          /\ c.pc = "persist" => bak # NoFile /\ SyauthOnce(c.tmp.lines)
    /\ c.cmd = "uninstall" =>
          /\ c.pc = "persist" => Unnamed(c.tmp.lines)
          /\ c.pc = "remove" => Unnamed(svc.lines)
NameInv ==
    ~clash /\ ~moved =>
        /\ SyauthOnce(svc.lines)
        /\ bak = NoFile => Unnamed(svc.lines)
        /\ Unnamed(bak.lines)
        /\ \A p \in Busy : NameKnows(proc[p])

(* And the histories agree until a backup drops an edit.                       *)
HistoryInv == ~dropped => kept = admin
=============================================================================

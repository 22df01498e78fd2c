------------------------------- MODULE PairFlow --------------------------------
(* One `syauth pair` process (syauth-cli pair.rs and pair_backend.rs): the    *)
(* flow on the main thread, the BlueZ agent with its confirmation handlers on *)
(* the blocking pool, the stdin reader, the waybar applet's two files, the    *)
(* rotating pair advertisement, and the phones.  A handler belongs to one     *)
(* SMP pairing attempt.  What the flow writes at its end is BondFiles.        *)
EXTENDS Integers, Sequences, FiniteSets

CONSTANTS
    OsTimeout,      \* OS_CONFIRM_DECISION_TIMEOUT = PAIR_IPC_DECISION_TIMEOUT, in ticks
    SmpTimeout,     \* BlueZ's SMP_CONN_TOUT
    Minute,         \* SECONDS_PER_MINUTE
    Window,         \* PAIR_ADVERTISE_ACCEPT_WINDOW
    None,
    MaxAttempts,    \* bound: SMP pairing attempts
    MaxLines,       \* bound: lines the operator types
    MaxFaults       \* bound: failing calls

ASSUME PairFlowAssumption ==
    /\ OsTimeout \in Nat \ {0} /\ SmpTimeout \in Nat
    /\ OsTimeout < SmpTimeout
    /\ Minute \in Nat \ {0} /\ Window \in Nat \ {0}
    /\ MaxAttempts \in Nat /\ MaxLines \in Nat /\ MaxFaults \in Nat
    /\ None \notin Nat

Attempts == 1 .. MaxAttempts

VARIABLES
    opts,       \* PairOpts: the flags that steer the flow
    pc,         \* where the flow is
    result,     \* what run_pair returned
    handler,    \* confirm_channel: the installed ConfirmSource
    agent,      \* the agent is registered with BlueZ
    t,          \* time since the accept window opened
    phase,      \* where in a minute the window opened
    adverts,    \* minutes whose pair UUID is on air
    rot,        \* the rotation ticker's turn in this tick
    slot,       \* current_minute
    mailbox,    \* phone_pubkey_mailbox is full
    smp,        \* the SMP side of each attempt
    hd,         \* the handler of each attempt
    lines,      \* OperatorLines
    typed,      \* lines typed so far
    request,    \* pair-request.json: the attempt it names
    response,   \* pair-response.json
    ui,         \* what the applet has made of each attempt's request
    faults      \* failing calls so far

flowVars == <<opts, pc, result, handler, agent, mailbox>>
airVars == <<t, phase, adverts, rot, slot>>
termVars == <<lines, typed>>
ipcVars == <<request, response>>
vars == <<flowVars, airVars, smp, hd, termVars, ipcVars, ui, faults>>

Sources == {"Stdio", "AutoAccept", "Waybar"}
Results == {"none", "Bonded", "AdapterMissing", "Backend", "NoPeers", "PeerNotFound",
            "Revoked", "NotSaved"}
SmpStates == {"none", "asked", "accepted", "rejected", "timeout", "gone"}
HandlerPCs == {"none", "mutex", "stdout", "lines", "request", "poll", "clean",
               "reply", "done"}

(* Handlers that wait for nobody but the scheduler, and those that hold the   *)
(* mutex around confirm_channel (os_confirm_decision keeps the guard while    *)
(* the handler runs).                                                         *)
Busy == {"request", "clean", "reply"}
Inside == {"stdout", "lines", "request", "poll", "clean", "reply"}
Holder == {a \in Attempts : hd[a].pc \in Inside}

(* Whether the flow holds io::stdout(): run_pair locks it and keeps the lock  *)
(* until it returns.                                                          *)
StdoutHeld == pc # "end"

(* unix_minute_floor.                                                         *)
MinuteNow == (phase + t) \div Minute

-----------------------------------------------------------------------------
(* The flow: run_pair_with_io over BluerPairBackend.                          *)

(* ConfirmSource::from_opts; opts.yes stands for --yes and --scripted-oob.    *)
FromOpts(o) == IF o.yes THEN "AutoAccept"
               ELSE IF o.waybar THEN "Waybar" ELSE "Stdio"

(* With both flags --yes wins: the run is that of --yes alone.                *)
Init ==
    /\ opts \in {o \in [yes : BOOLEAN, waybar : BOOLEAN] : ~(o.yes /\ o.waybar)}
    /\ pc = "adapter" /\ result = "none" /\ handler = None
    /\ agent = FALSE /\ mailbox = FALSE
    /\ t = 0 /\ phase \in 0 .. Minute - 1
    /\ adverts = {} /\ rot = "done" /\ slot = 0
    /\ smp = [a \in Attempts |-> [st |-> "none", left |-> 0]]
    /\ hd = [a \in Attempts |-> [pc |-> "none", left |-> 0, ans |-> FALSE, late |-> FALSE]]
    /\ lines = <<>> /\ typed = 0
    /\ request = None /\ response = None
    /\ ui = [a \in Attempts |-> "hidden"]
    /\ faults = 0

(* The accept loop's clock and locals are gone.                               *)
LoopGone == t' = 0 /\ phase' = 0 /\ slot' = 0 /\ rot' = "done"

(* run_pair returns: the agent's and the advertisement's handles are dropped, *)
(* BlueZ cancels what the agent had not answered, stdout is free.             *)
EndWith(r) ==
    /\ pc' = "end" /\ result' = r
    /\ agent' = FALSE /\ adverts' = {} /\ LoopGone
    /\ smp' = [a \in Attempts |-> IF smp[a].st = "asked" THEN [st |-> "gone", left |-> 0]
                                  ELSE smp[a]]
    /\ UNCHANGED <<opts, handler, hd, termVars, ipcVars, ui>>

Fault == faults < MaxFaults /\ faults' = faults + 1

(* adapter_info opens and powers the adapter; it reports LESC support as a    *)
(* constant, so the LescUnsupported gate is never taken here.  The answer     *)
(* path is installed before the radio is touched (install_os_confirm).        *)
Install ==
    /\ pc = "adapter"
    /\ pc' = "register" /\ handler' = FromOpts(opts)
    /\ UNCHANGED <<opts, result, agent, mailbox, airVars, smp, hd, termVars, ipcVars,
                   ui, faults>>

(* The adapter is unknown, or a BlueZ call failed.                            *)
SetupFails ==
    /\ pc \in {"adapter", "register", "serve"} /\ Fault
    /\ \E r \in {"AdapterMissing", "Backend"} : EndWith(r)
    /\ UNCHANGED mailbox

(* scan_peers registers the agent as the default one.                         *)
RegisterAgent ==
    /\ pc = "register" /\ pc' = "serve" /\ agent' = TRUE
    /\ UNCHANGED <<opts, result, handler, mailbox, airVars, smp, hd, termVars, ipcVars,
                   ui, faults>>

(* It makes the adapter pairable, serves the application and advertises the   *)
(* UUID of this minute; the accept window opens.                              *)
Serve ==
    /\ pc = "serve" /\ pc' = "scan"
    /\ adverts' = {MinuteNow} /\ slot' = MinuteNow
    /\ UNCHANGED <<opts, result, handler, agent, mailbox, t, phase, rot, smp, hd, termVars,
                   ipcVars, ui, faults>>

(* The rotation ticker.  The new advertisement is registered first; the old   *)
(* handle is dropped by the assignment that follows.                          *)
RotationDue == pc = "scan" /\ rot = "due"
Rotate ==
    /\ RotationDue /\ MinuteNow # slot
    /\ adverts' = adverts \cup {MinuteNow} /\ rot' = "swap"
    /\ UNCHANGED <<flowVars, t, phase, slot, smp, hd, termVars, ipcVars, ui, faults>>
DropOld ==
    /\ pc = "scan" /\ rot = "swap"
    /\ adverts' = {MinuteNow} /\ slot' = MinuteNow /\ rot' = "done"
    /\ UNCHANGED <<flowVars, t, phase, smp, hd, termVars, ipcVars, ui, faults>>
(* Variant: the slot moves on although nothing was registered.                 *)
RotateFailsMovesOn ==
    /\ RotationDue /\ MinuteNow # slot /\ Fault
    /\ rot' = "failed" /\ slot' = MinuteNow
    /\ UNCHANGED <<flowVars, t, phase, adverts, smp, hd, termVars, ipcVars, ui>>
RotateFails ==
    /\ RotationDue /\ MinuteNow # slot /\ Fault
    /\ rot' = "failed"
    /\ UNCHANGED <<flowVars, t, phase, adverts, slot, smp, hd, termVars, ipcVars, ui>>
SameMinute ==
    /\ RotationDue /\ MinuteNow = slot /\ rot' = "done"
    /\ UNCHANGED <<flowVars, t, phase, adverts, slot, smp, hd, termVars, ipcVars, ui,
                   faults>>

(* A phone writes its key.  The characteristic asks for no encryption, so the *)
(* write may come before, during or after a comparison.  scan_peers returns   *)
(* its one candidate and drops the agent.                                     *)
PhoneWrites ==
    /\ pc = "scan" /\ rot # "swap"
    /\ pc' = "pick" /\ mailbox' = TRUE /\ agent' = FALSE /\ LoopGone
    /\ smp' = [a \in Attempts |-> IF smp[a].st = "asked" THEN [st |-> "gone", left |-> 0]
                                  ELSE smp[a]]
    /\ UNCHANGED <<opts, result, handler, adverts, hd, termVars, ipcVars, ui, faults>>

(* ... fewer than 32 bytes, or the writer could not be accepted; or the       *)
(* control stream ended.                                                      *)
BadWrite ==
    /\ pc = "scan" /\ rot # "swap" /\ Fault
    /\ \E r \in {"Backend", "NoPeers"} : EndWith(r)
    /\ UNCHANGED mailbox

(* tokio_timeout over the accept loop.                                        *)
WindowEnds ==
    /\ pc = "scan" /\ t >= Window
    /\ EndWith("NoPeers") /\ UNCHANGED <<mailbox, faults>>

(* filter_candidates, pick_unambiguous: one synthetic candidate, so never     *)
(* ambiguous; --peer matches its name or does not.                            *)
Pick ==
    /\ pc = "pick" /\ pc' = "lesc"
    /\ UNCHANGED <<opts, result, handler, agent, mailbox, airVars, smp, hd, termVars, ipcVars,
                   ui, faults>>
PickNone ==
    /\ pc = "pick"
    /\ EndWith("PeerNotFound") /\ UNCHANGED <<mailbox, faults>>

(* initiate_lesc_with_peer drains the mailbox without waiting, so the timeout *)
(* around it cannot elapse; then the OOB code is printed.                     *)
DrainMailbox ==
    /\ pc = "lesc" /\ mailbox
    /\ mailbox' = FALSE /\ pc' = "oob"
    /\ UNCHANGED <<opts, result, handler, agent, airVars, smp, hd, termVars, ipcVars,
                   ui, faults>>

(* read_oob_confirmation: nothing is read with --yes; otherwise one line is   *)
(* taken from the queue, with no timeout.                                     *)
OobAuto ==
    /\ pc = "oob" /\ opts.yes /\ pc' = "persist"
    /\ UNCHANGED <<opts, result, handler, agent, mailbox, airVars, smp, hd, termVars, ipcVars,
                   ui, faults>>
OobYes ==
    /\ pc = "oob" /\ ~opts.yes /\ lines # <<>> /\ Head(lines) = "y"
    /\ pc' = "persist" /\ lines' = Tail(lines)
    /\ UNCHANGED <<opts, result, handler, agent, mailbox, airVars, smp, hd, typed, ipcVars,
                   ui, faults>>
OobNo ==
    /\ pc = "oob" /\ ~opts.yes /\ lines # <<>> /\ Head(lines) # "y"
    /\ pc' = "end" /\ result' = "Revoked" /\ lines' = Tail(lines) /\ adverts' = {}
    /\ UNCHANGED <<opts, handler, agent, mailbox, t, phase, rot, slot, smp, hd, typed,
                   ipcVars, ui, faults>>

(* BondStore load, add, save and the key file: BondFiles.                     *)
PersistBond ==
    /\ pc = "persist" /\ EndWith("Bonded") /\ UNCHANGED <<mailbox, faults>>
PersistFails ==
    /\ pc = "persist" /\ Fault /\ EndWith("NotSaved") /\ UNCHANGED mailbox

-----------------------------------------------------------------------------
(* The agent and its handlers.  One attempt's RequestConfirmation starts one  *)
(* spawn_blocking task, which nothing can cancel.                             *)

SetH(a, h) == hd' = [hd EXCEPT ![a] = h]

(* BlueZ asks the agent to confirm an attempt's code.                         *)
RequestConfirmation(a) ==
    /\ agent /\ smp[a].st = "none" /\ (a > 1 => smp[a - 1].st # "none")
    /\ smp' = [smp EXCEPT ![a] = [st |-> "asked", left |-> SmpTimeout]]
    /\ SetH(a, [hd[a] EXCEPT !.pc = "mutex"])
    /\ UNCHANGED <<flowVars, airVars, termVars, ipcVars, ui, faults>>

(* os_confirm_decision: no handler means reject.  (late is history: the task  *)
(* had to wait for the mutex.)                                                *)
Enter(a) ==
    /\ hd[a].pc = "mutex" /\ Holder = {}
    /\ SetH(a, [hd[a] EXCEPT !.pc = CASE handler = None -> "reply"
                                      [] handler = "Waybar" -> "request"
                                      [] OTHER -> "stdout",
                           !.late = smp[a].left < SmpTimeout])
    /\ UNCHANGED <<flowVars, airVars, smp, termVars, ipcVars, ui, faults>>

(* The stdio and the auto-accept handler print the code; the stdio one then   *)
(* waits for a line, holding stdout.                                          *)
PrintCode(a) ==
    /\ hd[a].pc = "stdout" /\ ~StdoutHeld
    /\ SetH(a, IF handler = "AutoAccept"
               THEN [hd[a] EXCEPT !.pc = "reply", !.ans = TRUE]
               ELSE [hd[a] EXCEPT !.pc = "lines", !.left = OsTimeout])
    /\ UNCHANGED <<flowVars, airVars, smp, termVars, ipcVars, ui, faults>>
TakeLine(a) ==
    /\ hd[a].pc = "lines" /\ lines # <<>>
    /\ SetH(a, [hd[a] EXCEPT !.pc = "reply", !.ans = (Head(lines) = "y")])
    /\ lines' = Tail(lines)
    /\ UNCHANGED <<flowVars, airVars, smp, typed, ipcVars, ui, faults>>
(* Variant: take_line(None) in the confirmation handler.                       *)
LinesTimeoutNever(a) ==
    /\ hd[a].pc = "lines" /\ hd[a].left < 0
    /\ SetH(a, [hd[a] EXCEPT !.pc = "reply"])
    /\ UNCHANGED <<flowVars, airVars, smp, termVars, ipcVars, ui, faults>>
LinesTimeout(a) ==
    /\ hd[a].pc = "lines" /\ hd[a].left = 0
    /\ SetH(a, [hd[a] EXCEPT !.pc = "reply"])
    /\ UNCHANGED <<flowVars, airVars, smp, termVars, ipcVars, ui, faults>>

(* The waybar handler: clear a stale response, write the request, poll.       *)
WriteRequest(a) ==
    /\ hd[a].pc = "request"
    /\ response' = None /\ request' = a
    /\ SetH(a, [hd[a] EXCEPT !.pc = "poll", !.left = OsTimeout])
    /\ UNCHANGED <<flowVars, airVars, smp, termVars, ui, faults>>
WriteRequestFails(a) ==
    /\ hd[a].pc = "request" /\ Fault
    /\ SetH(a, [hd[a] EXCEPT !.pc = "reply"])
    /\ response' \in {None, response} /\ UNCHANGED request
    /\ UNCHANGED <<flowVars, airVars, smp, termVars, ui>>

(* Variant: the request id is not compared.                                    *)
DecidesAny(r, a) == r # None

(* parse_decision: only a response that names this request decides.           *)
Decides(r, a) == r # None /\ r.id = a
FindDecision(a) ==
    /\ hd[a].pc = "poll" /\ hd[a].left > 0 /\ Decides(response, a)
    /\ SetH(a, [hd[a] EXCEPT !.pc = "clean", !.ans = (response.decision = "accept")])
    /\ UNCHANGED <<flowVars, airVars, smp, termVars, ipcVars, ui, faults>>
(* Variant: a timeout returns before the files are removed.                    *)
PollTimeoutNoClean(a) ==
    /\ hd[a].pc = "poll" /\ hd[a].left = 0
    /\ SetH(a, [hd[a] EXCEPT !.pc = "reply"])
    /\ UNCHANGED <<flowVars, airVars, smp, termVars, ipcVars, ui, faults>>
PollTimeout(a) ==
    /\ hd[a].pc = "poll" /\ hd[a].left = 0
    /\ SetH(a, [hd[a] EXCEPT !.pc = "clean"])
    /\ UNCHANGED <<flowVars, airVars, smp, termVars, ipcVars, ui, faults>>
Clean(a) ==
    /\ hd[a].pc = "clean"
    /\ request' = None /\ response' = None
    /\ SetH(a, [hd[a] EXCEPT !.pc = "reply"])
    /\ UNCHANGED <<flowVars, airVars, smp, termVars, ui, faults>>

(* The task's answer goes to BlueZ if BlueZ still waits for it.               *)
Reply(a) ==
    /\ hd[a].pc = "reply"
    /\ SetH(a, [hd[a] EXCEPT !.pc = "done", !.left = 0, !.ans = FALSE])
    /\ smp' = IF smp[a].st = "asked"
              THEN [smp EXCEPT ![a] = [st |-> IF hd[a].ans THEN "accepted" ELSE "rejected",
                                       left |-> 0]]
              ELSE smp
    /\ UNCHANGED <<flowVars, airVars, termVars, ipcVars, ui, faults>>

HandlerStep(a) ==
    \/ Enter(a) \/ PrintCode(a) \/ TakeLine(a) \/ LinesTimeout(a)
    \/ WriteRequest(a) \/ WriteRequestFails(a)
    \/ FindDecision(a) \/ PollTimeout(a) \/ Clean(a) \/ Reply(a)

-----------------------------------------------------------------------------
(* The phone's SMP, the operator, the applet, and time.                       *)

SmpTimesOut(a) ==
    /\ smp[a].st = "asked" /\ smp[a].left = 0
    /\ smp' = [smp EXCEPT ![a].st = "timeout"]
    /\ UNCHANGED <<flowVars, airVars, hd, termVars, ipcVars, ui, faults>>

(* The phone disconnects; the task started for it runs on.                    *)
PhoneGivesUp(a) ==
    /\ smp[a].st = "asked"
    /\ smp' = [smp EXCEPT ![a] = [st |-> "gone", left |-> 0]]
    /\ UNCHANGED <<flowVars, airVars, hd, termVars, ipcVars, ui, faults>>

(* spawn_stdin_reader pushes every line.  At end of file no line comes any    *)
(* more, and the queue stays open because the flow keeps a sender: the same   *)
(* as an operator who types nothing.  With --yes nobody reads the queue, and  *)
(* its lines are left out.                                                    *)
Type(l) ==
    /\ typed < MaxLines /\ ~opts.yes
    /\ lines' = Append(lines, l) /\ typed' = typed + 1
    /\ UNCHANGED <<flowVars, airVars, smp, hd, ipcVars, ui, faults>>

(* The applet (external) shows a request; the click that takes the prompt     *)
(* away writes the response for it, and the request may by then have been     *)
(* withdrawn.                                                                 *)
AppletShows(a) ==
    /\ request = a /\ ui[a] = "hidden" /\ ui' = [ui EXCEPT ![a] = "shown"]
    /\ UNCHANGED <<flowVars, airVars, smp, hd, termVars, ipcVars, faults>>
Click(a, d) ==
    /\ ui[a] = "shown" /\ ui' = [ui EXCEPT ![a] = d]
    /\ response' = [id |-> a, decision |-> d]
    /\ UNCHANGED <<flowVars, airVars, smp, hd, termVars, request, faults>>

Less(n) == IF n > 0 THEN n - 1 ELSE 0

(* A tick passes once every timer that is due has been served and no thread   *)
(* has a step of its own left in this tick; one tick is a second or more.     *)
Urgent ==
    \/ pc \in {"adapter", "register", "serve", "pick", "lesc", "persist"}
    \/ pc = "scan" /\ (rot \in {"due", "swap"} \/ t >= Window)
    \/ \E a \in Attempts :
          \/ hd[a].pc \in Busy
          \/ hd[a].pc = "mutex" /\ Holder = {}
          \/ hd[a].pc = "stdout" /\ ~StdoutHeld
          \/ hd[a].pc = "poll" /\ Decides(response, a)
          \/ hd[a].pc \in {"lines", "poll"} /\ hd[a].left = 0
          \/ smp[a].st = "asked" /\ smp[a].left = 0
Tick ==
    /\ ~Urgent
    /\ \/ pc = "scan"
       \/ \E a \in Attempts : hd[a].pc \in {"lines", "poll"}
    /\ IF pc = "scan" THEN t' = t + 1 /\ rot' = "due" ELSE UNCHANGED <<t, rot>>
    /\ smp' = [a \in Attempts |-> [smp[a] EXCEPT !.left = Less(@)]]
    /\ hd' = [a \in Attempts |-> [hd[a] EXCEPT !.left = Less(@)]]
    /\ UNCHANGED <<flowVars, phase, adverts, slot, termVars, ipcVars, ui, faults>>

FlowStep ==
    \/ Install \/ SetupFails \/ RegisterAgent \/ Serve
    \/ Rotate \/ DropOld \/ RotateFails \/ SameMinute
    \/ WindowEnds \/ Pick \/ PickNone \/ DrainMailbox
    \/ OobAuto \/ OobYes \/ OobNo \/ PersistBond \/ PersistFails

Next ==
    \/ FlowStep \/ PhoneWrites \/ BadWrite \/ Tick
    \/ \E a \in Attempts :
          \/ HandlerStep(a) \/ RequestConfirmation(a) \/ SmpTimesOut(a)
          \/ PhoneGivesUp(a) \/ AppletShows(a)
    \/ \E l \in {"y", "n"} : Type(l)
    \/ \E a \in Attempts, d \in {"accept", "reject"} : Click(a, d)

(* The flow's thread, the handlers' threads and BlueZ's SMP timer run, and    *)
(* time passes.  Nothing is assumed of the phone, the operator or the applet. *)
Spec ==
    /\ Init /\ [][Next]_vars
    /\ WF_vars(FlowStep) /\ WF_vars(Tick)
    /\ \A a \in Attempts : WF_vars(HandlerStep(a)) /\ WF_vars(SmpTimesOut(a))

-----------------------------------------------------------------------------
Smp == [st : SmpStates, left : 0 .. SmpTimeout]
Handler == [pc : HandlerPCs, left : 0 .. SmpTimeout, ans : BOOLEAN, late : BOOLEAN]

TypeOK ==
    /\ opts \in [yes : BOOLEAN, waybar : BOOLEAN]
    /\ pc \in {"adapter", "register", "serve", "scan", "pick", "lesc", "oob", "persist", "end"}
    /\ result \in Results /\ handler \in Sources \cup {None}
    /\ agent \in BOOLEAN /\ mailbox \in BOOLEAN
    /\ t \in 0 .. Window /\ phase \in 0 .. Minute - 1
    /\ adverts \in SUBSET (0 .. Window) /\ slot \in 0 .. Window
    /\ rot \in {"done", "due", "swap", "failed"}
    /\ smp \in [Attempts -> Smp] /\ hd \in [Attempts -> Handler]
    /\ lines \in Seq({"y", "n"}) /\ typed \in 0 .. MaxLines
    /\ request \in Attempts \cup {None}
    /\ response \in [id : Attempts, decision : {"accept", "reject"}] \cup {None}
    /\ ui \in [Attempts -> {"hidden", "shown", "accept", "reject"}]
    /\ faults \in 0 .. MaxFaults

(* BlueZ gave up on an attempt whose handler never had to wait for another.   *)
Unanswered(a) == smp[a].st = "timeout" /\ hd[a].pc # "mutex" /\ ~hd[a].late

(* With --waybar, an attempt that does not wait behind an earlier attempt's   *)
(* handler is answered before BlueZ's own timeout, whenever the operator      *)
(* clicks and whatever happens to the files: the decision wait of             *)
(* wait_for_decision ends in time for the reply.  And BlueZ hears "accept"    *)
(* only after the operator clicked accept on the request of that very         *)
(* attempt: a late click on an older request, found by the next handler,      *)
(* decides nothing (parse_decision compares request ids).                     *)
WaybarDecides ==
    handler = "Waybar" =>
        \A a \in Attempts : ~Unanswered(a) /\ (smp[a].st = "accepted" => ui[a] = "accept")

(* While the accept window is open a pair UUID is on air, and it is that of   *)
(* the current minute unless registering it failed in this very tick: a       *)
(* failed rotation is tried again and never leaves the air empty.             *)
OnAirAndCurrent ==
    pc = "scan" => /\ adverts # {}
                   /\ rot = "done" => adverts = {MinuteNow}

(* Besides the types: the request file exists only while the handler that     *)
(* wrote it still looks for its answer, so the applet never offers a question *)
(* nobody waits for, also after a timeout and after the phone or the flow has *)
(* gone.                                                                      *)
RequestHasAHandler ==
    /\ TypeOK
    /\ request # None => hd[request].pc \in {"poll", "clean"}

-----------------------------------------------------------------------------
(* The inductive invariant behind the theorems of PairFlowProofs.             *)

(* Nothing has happened before the answer path is installed.                  *)
NotYet == pc = "adapter" => ~agent /\ \A a \in Attempts : hd[a].pc = "none"

(* An attempt has a handler from when BlueZ asks until BlueZ is answered or   *)
(* no longer waits, and only a handler about to answer has an answer.         *)
AttemptOK(a) ==
    /\ smp[a].st = "none" <=> hd[a].pc = "none"
    /\ smp[a].st = "asked" => hd[a].pc # "done"
    /\ smp[a].st = "timeout" => smp[a].left = 0
    /\ hd[a].ans => hd[a].pc \in {"clean", "reply"}

(* What a waybar handler that did not have to wait has left of BlueZ's time,  *)
(* and whose click is behind its answer.                                      *)
Spare == SmpTimeout - OsTimeout
WaybarOK(a) ==
    /\ hd[a].pc \notin {"stdout", "lines"}
    /\ smp[a].st = "asked" /\ ~hd[a].late =>
          /\ hd[a].pc = "request" => smp[a].left = SmpTimeout
          /\ hd[a].pc = "poll" => smp[a].left >= hd[a].left + Spare
          /\ hd[a].pc \in {"clean", "reply"} => smp[a].left >= Spare
    /\ hd[a].ans \/ smp[a].st = "accepted" => ui[a] = "accept"
    /\ ~Unanswered(a)

(* A response is the click that its prompt showed.                            *)
ResponseOK == response # None => ui[response.id] = response.decision

(* The advertisement is that of the slot except within a rotation.            *)
AirOK ==
    pc = "scan" => /\ adverts # {}
                   /\ rot # "swap" => adverts = {slot}
                   /\ rot = "done" => slot = MinuteNow

IInv ==
    /\ RequestHasAHandler /\ NotYet /\ ResponseOK /\ AirOK
    /\ \A a \in Attempts : AttemptOK(a)
    /\ handler = "Waybar" => \A a \in Attempts : WaybarOK(a)

-----------------------------------------------------------------------------
(* The flow ends or reaches the OOB question, whatever the phone does: the    *)
(* accept window closes.  (The question itself has no timeout.)  And once     *)
(* run_pair has returned, every confirmation task finishes, so that dropping  *)
(* the runtime, which waits for started blocking tasks, returns and the       *)
(* process exits.                                                             *)
PairingEnds ==
    /\ <>(pc \in {"oob", "end"})
    /\ [](pc = "end" => <>(\A a \in Attempts : hd[a].pc \in {"none", "done"}))

(* "Bounded so BlueZ always gets an answer": said of the stdio handler, and   *)
(* meant by the move to the blocking pool for every handler.                  *)
AnsweredInTime == \A a \in Attempts : ~Unanswered(a)
=============================================================================

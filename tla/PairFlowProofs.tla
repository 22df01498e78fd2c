---------------------------- MODULE PairFlowProofs ----------------------------
(* Theorems about PairFlow, for every number of attempts, lines and faults    *)
(* and every choice of the timeouts that satisfies PairFlowAssumption.        *)
EXTENDS PairFlow, TLAPS

USE PairFlowAssumption DEF PairFlowAssumption

-----------------------------------------------------------------------------
(* Types.                                                                     *)

(* The minute of an instant within the window is a small number.              *)
LEMMA MinuteInWindow ==
    ASSUME NEW M \in Nat \ {0}, NEW W \in Nat \ {0}, NEW x \in 0..W, NEW p \in 0..(M - 1)
    PROVE  (p + x) \div M \in 0..W
<1> DEFINE q == (p + x) \div M
<1>1. p + x = M * q + ((p + x) % M) /\ q \in Int /\ (p + x) % M \in 0..(M - 1)
  <2>1. p + x \in Nat
    OBVIOUS
  <2> QED
    BY <2>1
<1> HIDE DEF q
<1>2. q >= 0
  <2>1. q <= -1 => M * q <= -M
    BY <1>1
  <2> QED
    BY <1>1, <2>1
<1>3. q <= W
  <2>1. q >= W + 1 => M * q >= M * (W + 1)
    BY <1>1
  <2>2. M * (W + 1) >= M + W
    OBVIOUS
  <2> QED
    BY <1>1, <2>1, <2>2
<1> QED
  BY <1>1, <1>2, <1>3 DEF q

PCs == {"adapter", "register", "serve", "scan", "pick", "lesc", "oob", "persist", "end"}
FlowOK ==
    /\ opts \in [yes : BOOLEAN, waybar : BOOLEAN] /\ pc \in PCs
    /\ result \in Results /\ handler \in Sources \cup {None}
    /\ agent \in BOOLEAN /\ mailbox \in BOOLEAN
AirTypeOK ==
    /\ t \in 0 .. Window /\ phase \in 0 .. Minute - 1
    /\ adverts \in SUBSET (0 .. Window) /\ slot \in 0 .. Window
    /\ rot \in {"done", "due", "swap", "failed"}
AttemptsOK == smp \in [Attempts -> Smp] /\ hd \in [Attempts -> Handler]
TermOK == lines \in Seq({"y", "n"}) /\ typed \in 0 .. MaxLines
FilesOK ==
    /\ request \in Attempts \cup {None}
    /\ response \in [id : Attempts, decision : {"accept", "reject"}] \cup {None}
    /\ ui \in [Attempts -> {"hidden", "shown", "accept", "reject"}]

LEMMA TypeParts ==
    TypeOK <=> FlowOK /\ AirTypeOK /\ AttemptsOK /\ TermOK /\ FilesOK /\ faults \in 0 .. MaxFaults
BY DEF TypeOK, FlowOK, AirTypeOK, AttemptsOK, TermOK, FilesOK, PCs

LEMMA MinuteType == AirTypeOK => MinuteNow \in 0 .. Window
BY MinuteInWindow DEF AirTypeOK, MinuteNow

(* The two actions shapes that end the accept loop.                           *)
Cancelled ==
    smp' = [a \in Attempts |-> IF smp[a].st = "asked" THEN [st |-> "gone", left |-> 0]
                               ELSE smp[a]]

Ending == SetupFails \/ BadWrite \/ WindowEnds \/ PickNone \/ PersistBond \/ PersistFails
          \/ PhoneWrites

(* Flow steps that leave the attempts alone.                                  *)
Walking == Install \/ RegisterAgent \/ Serve \/ Rotate \/ DropOld \/ RotateFails \/ SameMinute
           \/ Pick \/ DrainMailbox \/ OobAuto \/ OobYes \/ OobNo

(* Steps of the attempt's own SMP side.                                       *)
SmpStep(a) == RequestConfirmation(a) \/ SmpTimesOut(a) \/ PhoneGivesUp(a)

(* Steps of the operator.                                                     *)
UserStep == (\E l \in {"y", "n"} : Type(l)) \/ (\E a \in Attempts : AppletShows(a))
            \/ (\E a \in Attempts, d \in {"accept", "reject"} : Click(a, d))

LEMMA NextParts ==
    [Next]_vars => \/ Ending \/ Walking \/ Tick \/ UserStep \/ UNCHANGED vars
                   \/ \E a \in Attempts : HandlerStep(a) \/ SmpStep(a)
BY DEF Next, FlowStep, Ending, Walking, UserStep, SmpStep

LEMMA EndingFrame ==
    Ending => /\ Cancelled /\ pc' \in {"end", "pick"} /\ agent' = FALSE /\ LoopGone
              /\ adverts' \in {{}, adverts}
              /\ UNCHANGED <<opts, handler, hd, termVars, ipcVars, ui>>
<1>1. (\E r \in Results : EndWith(r)) =>
              /\ Cancelled /\ pc' = "end" /\ agent' = FALSE /\ LoopGone /\ adverts' = {}
              /\ UNCHANGED <<opts, handler, hd, termVars, ipcVars, ui>>
  BY DEF EndWith, Cancelled
<1>2. PhoneWrites => /\ Cancelled /\ pc' = "pick" /\ agent' = FALSE /\ LoopGone
                     /\ adverts' = adverts
                     /\ UNCHANGED <<opts, handler, hd, termVars, ipcVars, ui>>
  BY DEF PhoneWrites, Cancelled
<1>3. SetupFails \/ BadWrite \/ WindowEnds \/ PickNone \/ PersistBond \/ PersistFails =>
         \E r \in Results : EndWith(r)
  BY DEF SetupFails, BadWrite, WindowEnds, PickNone, PersistBond, PersistFails, Results
<1> QED
  BY <1>1, <1>2, <1>3 DEF Ending

LEMMA WalkingFrame == Walking => UNCHANGED <<smp, hd, ipcVars, ui>>
BY DEF Walking, Install, RegisterAgent, Serve, Rotate, DropOld, RotateFails, SameMinute, Pick,
       DrainMailbox, OobAuto, OobYes, OobNo

LEMMA AttemptFrame ==
    ASSUME NEW a \in Attempts, HandlerStep(a) \/ SmpStep(a)
    PROVE  UNCHANGED <<flowVars, airVars, typed, ui>>
<1>1. CASE HandlerStep(a)
  BY <1>1 DEF HandlerStep, Enter, PrintCode, TakeLine, LinesTimeout, WriteRequest,
              WriteRequestFails, FindDecision, PollTimeout, Clean, Reply, termVars
<1>2. CASE SmpStep(a)
  BY <1>2 DEF SmpStep, RequestConfirmation, SmpTimesOut, PhoneGivesUp, termVars
<1> QED
  BY <1>1, <1>2

LEMMA UserFrame == UserStep => UNCHANGED <<flowVars, airVars, smp, hd, request, faults>>
BY DEF UserStep, Type, AppletShows, Click, ipcVars

-----------------------------------------------------------------------------
LEMMA FaultsKept ==
    ASSUME TypeOK, [Next]_vars
    PROVE  faults' \in 0 .. MaxFaults
<1>1. CASE UNCHANGED faults
  BY <1>1 DEF TypeOK
<1>2. CASE Fault
  BY <1>2 DEF TypeOK, Fault
<1>3. CASE Ending
  BY <1>1, <1>2, <1>3 DEF Ending, SetupFails, BadWrite, WindowEnds, PickNone, PersistBond,
                          PersistFails, PhoneWrites
<1>4. CASE Walking
  BY <1>1, <1>2, <1>4 DEF Walking, Install, RegisterAgent, Serve, Rotate, DropOld, RotateFails,
                          SameMinute, Pick, DrainMailbox, OobAuto, OobYes, OobNo
<1>5. ASSUME NEW a \in Attempts, HandlerStep(a) PROVE faults' \in 0 .. MaxFaults
  BY <1>1, <1>2, <1>5 DEF HandlerStep, Enter, PrintCode, TakeLine, LinesTimeout, WriteRequest,
                          WriteRequestFails, FindDecision, PollTimeout, Clean, Reply
<1>6. ASSUME NEW a \in Attempts, SmpStep(a) PROVE faults' \in 0 .. MaxFaults
  BY <1>1, <1>6 DEF SmpStep, RequestConfirmation, SmpTimesOut, PhoneGivesUp
<1>7. CASE Tick \/ UserStep \/ UNCHANGED vars
  BY <1>1, <1>7, UserFrame DEF Tick, vars
<1> QED
  BY <1>3, <1>4, <1>5, <1>6, <1>7, NextParts

LEMMA FlowKept ==
    ASSUME TypeOK, [Next]_vars
    PROVE  FlowOK'
<1>0. FlowOK
  BY TypeParts
<1>1. CASE UNCHANGED flowVars
  BY <1>0, <1>1 DEF FlowOK, flowVars
<1>2. CASE Ending
  <2>1. result' \in Results /\ mailbox' \in BOOLEAN
    BY <1>0, <1>2 DEF FlowOK, Ending, SetupFails, BadWrite, WindowEnds, PickNone, PersistBond,
                      PersistFails, PhoneWrites, EndWith, Results
  <2> QED
    BY <1>0, <1>2, <2>1, EndingFrame DEF FlowOK, PCs
<1>3. CASE Walking
  <2>1. CASE Install
    BY <1>0, <2>1 DEF Install, FlowOK, FromOpts, Sources, PCs
  <2>2. CASE Rotate \/ DropOld \/ RotateFails \/ SameMinute
    BY <1>1, <2>2 DEF Rotate, DropOld, RotateFails, SameMinute
  <2>3. CASE RegisterAgent \/ Serve \/ Pick \/ DrainMailbox \/ OobAuto \/ OobYes \/ OobNo
    BY <1>0, <2>3 DEF RegisterAgent, Serve, Pick, DrainMailbox, OobAuto, OobYes, OobNo, FlowOK,
                      PCs, Results
  <2> QED
    BY <1>3, <2>1, <2>2, <2>3 DEF Walking
<1> QED
  BY <1>1, <1>2, <1>3, NextParts, AttemptFrame, UserFrame DEF Tick, vars

LEMMA AirTypeKept ==
    ASSUME TypeOK, [Next]_vars
    PROVE  AirTypeOK'
<1>0. AirTypeOK /\ MinuteNow \in 0 .. Window
  BY TypeParts, MinuteType
<1>1. CASE UNCHANGED airVars
  BY <1>0, <1>1 DEF AirTypeOK, airVars
<1>2. CASE Ending
  <2>1. t' = 0 /\ phase' = 0 /\ slot' = 0 /\ rot' = "done" /\ adverts' \in {{}, adverts}
    BY <1>2, EndingFrame DEF LoopGone
  <2>2. adverts \in SUBSET (0 .. Window)
    BY <1>0 DEF AirTypeOK
  <2>3. 0 \in 0 .. Window /\ 0 \in 0 .. Minute - 1
    OBVIOUS
  <2> QED
    BY <2>1, <2>2, <2>3, Zenon DEF AirTypeOK
<1>3. CASE Walking
  <2>1. CASE Install \/ RegisterAgent \/ Pick \/ DrainMailbox \/ OobAuto \/ OobYes
    BY <1>1, <2>1 DEF Install, RegisterAgent, Pick, DrainMailbox, OobAuto, OobYes
  <2>2. CASE Serve \/ OobNo
    BY <1>0, <2>2 DEF Serve, OobNo, AirTypeOK
  <2>3. CASE Rotate \/ DropOld \/ RotateFails \/ SameMinute
    BY <1>0, <2>3 DEF Rotate, DropOld, RotateFails, SameMinute, AirTypeOK
  <2> QED
    BY <1>3, <2>1, <2>2, <2>3 DEF Walking
<1>4. CASE Tick
  <2>1. pc = "scan" => t < Window
    BY <1>0, <1>4 DEF Tick, Urgent, AirTypeOK
  <2> QED
    BY <1>0, <1>4, <2>1 DEF Tick, AirTypeOK
<1> QED
  BY <1>1, <1>2, <1>3, <1>4, NextParts, AttemptFrame, UserFrame DEF vars

LEMMA TermKept ==
    ASSUME TypeOK, [Next]_vars
    PROVE  TermOK'
<1>0. TermOK
  BY TypeParts
<1>1. CASE UNCHANGED termVars
  BY <1>0, <1>1 DEF TermOK, termVars
<1>2. ASSUME lines # <<>>, lines' = Tail(lines), UNCHANGED typed PROVE TermOK'
  BY <1>0, <1>2 DEF TermOK
<1>3. CASE Walking
  BY <1>1, <1>2, <1>3 DEF Walking, Install, RegisterAgent, Serve, Rotate, DropOld, RotateFails,
                          SameMinute, Pick, DrainMailbox, OobAuto, OobYes, OobNo
<1>4. ASSUME NEW a \in Attempts, HandlerStep(a) PROVE TermOK'
  BY <1>1, <1>2, <1>4 DEF HandlerStep, Enter, PrintCode, TakeLine, LinesTimeout, WriteRequest,
                          WriteRequestFails, FindDecision, PollTimeout, Clean, Reply
<1>5. ASSUME NEW a \in Attempts, SmpStep(a) PROVE TermOK'
  BY <1>1, <1>5 DEF SmpStep, RequestConfirmation, SmpTimesOut, PhoneGivesUp
<1>6. CASE UserStep
  BY <1>0, <1>1, <1>6 DEF UserStep, Type, AppletShows, Click, TermOK
<1> QED
  BY <1>1, <1>3, <1>4, <1>5, <1>6, NextParts, EndingFrame DEF Tick, vars

LEMMA FilesKept ==
    ASSUME TypeOK, [Next]_vars
    PROVE  FilesOK'
<1>0. FilesOK
  BY TypeParts
<1>1. CASE UNCHANGED <<ipcVars, ui>>
  BY <1>0, <1>1 DEF FilesOK, ipcVars
<1>2. ASSUME NEW a \in Attempts, HandlerStep(a) PROVE FilesOK'
  <2>1. UNCHANGED ui
    BY <1>2, AttemptFrame
  <2>2. request' \in {request, None, a} /\ response' \in {response, None}
    BY <1>2 DEF HandlerStep, Enter, PrintCode, TakeLine, LinesTimeout, WriteRequest,
                WriteRequestFails, FindDecision, PollTimeout, Clean, Reply, ipcVars
  <2> QED
    BY <1>0, <2>1, <2>2 DEF FilesOK
<1>3. ASSUME NEW a \in Attempts, SmpStep(a) PROVE FilesOK'
  BY <1>1, <1>3 DEF SmpStep, RequestConfirmation, SmpTimesOut, PhoneGivesUp
<1>4. ASSUME NEW a \in Attempts, NEW d \in {"accept", "reject"}, Click(a, d) PROVE FilesOK'
  BY <1>0, <1>4 DEF Click, FilesOK
<1>5. ASSUME NEW a \in Attempts, AppletShows(a) PROVE FilesOK'
  BY <1>0, <1>5 DEF AppletShows, FilesOK, ipcVars
<1>6. ASSUME NEW l, Type(l) PROVE FilesOK'
  BY <1>1, <1>6 DEF Type
<1> QED
  BY <1>1, <1>2, <1>3, <1>4, <1>5, <1>6, NextParts, EndingFrame, WalkingFrame
     DEF Tick, vars, UserStep

-----------------------------------------------------------------------------
(* The attempts.                                                              *)

AttInv(a) == AttemptOK(a) /\ (handler = "Waybar" => WaybarOK(a))
AllAtt == \A a \in Attempts : AttInv(a)

LEMMA AttFrame ==
    ASSUME NEW a \in Attempts, AttInv(a), smp'[a] = smp[a], hd'[a] = hd[a], ui'[a] = ui[a],
           handler' = handler
    PROVE  AttInv(a)'
BY DEF AttInv, AttemptOK, WaybarOK, Unanswered

(* Only the attempt's own two records change.                                 *)
Own(a) == \A b \in Attempts \ {a} : smp'[b] = smp[b] /\ hd'[b] = hd[b]

LEMMA OwnKeeps ==
    ASSUME AllAtt, NEW a \in Attempts, Own(a), UNCHANGED <<ui, handler>>, AttInv(a)'
    PROVE  AllAtt'
BY AttFrame DEF AllAtt, Own

(* What a step of attempt a does to its two records.                          *)
LEMMA HandlerMoves ==
    ASSUME AttemptsOK, FlowOK, NEW a \in Attempts, HandlerStep(a)
    PROVE  /\ AttemptsOK' /\ Own(a)
           /\ smp'[a] = smp[a] \/ (hd[a].pc = "reply" /\ smp[a].st = "asked")
<1>0. hd[a] \in Handler /\ smp[a] \in Smp
  BY DEF AttemptsOK
<1>1. ASSUME NEW h \in Handler, SetH(a, h), UNCHANGED smp
      PROVE  AttemptsOK' /\ Own(a) /\ smp'[a] = smp[a]
  BY <1>1 DEF SetH, AttemptsOK, Own
<1>2. OsTimeout \in 0 .. SmpTimeout /\ 0 \in 0 .. SmpTimeout
  OBVIOUS
<1>3. CASE Enter(a)
  <2> DEFINE p == CASE handler = None -> "reply"
                    [] handler = "Waybar" -> "request"
                    [] OTHER -> "stdout"
             l == smp[a].left < SmpTimeout
  <2>1. p \in HandlerPCs /\ l \in BOOLEAN
    BY DEF HandlerPCs
  <2>2. SetH(a, [hd[a] EXCEPT !.pc = p, !.late = l]) /\ UNCHANGED smp
    BY <1>3 DEF Enter
  <2> HIDE DEF p, l
  <2>3. [hd[a] EXCEPT !.pc = p, !.late = l] \in Handler
    BY <1>0, <2>1 DEF Handler
  <2> QED
    BY <1>1, <2>2, <2>3
<1>4. CASE PrintCode(a)
  <2>1. [hd[a] EXCEPT !.pc = "reply", !.ans = TRUE] \in Handler
    BY <1>0 DEF Handler, HandlerPCs
  <2>2. [hd[a] EXCEPT !.pc = "lines", !.left = OsTimeout] \in Handler
    BY <1>0, <1>2 DEF Handler, HandlerPCs
  <2> QED
    BY <1>1, <1>4, <2>1, <2>2 DEF PrintCode
<1>5. CASE TakeLine(a)
  <2> DEFINE y == Head(lines) = "y"
  <2>1. [hd[a] EXCEPT !.pc = "reply", !.ans = y] \in Handler
    <3>1. y \in BOOLEAN /\ "reply" \in HandlerPCs
      BY DEF HandlerPCs
    <3> HIDE DEF y
    <3> QED
      BY <1>0, <3>1 DEF Handler
  <2> QED
    BY <1>1, <1>5, <2>1 DEF TakeLine
<1>6. CASE LinesTimeout(a) \/ WriteRequestFails(a) \/ Clean(a)
  <2>1. [hd[a] EXCEPT !.pc = "reply"] \in Handler
    BY <1>0 DEF Handler, HandlerPCs
  <2> QED
    BY <1>1, <1>6, <2>1 DEF LinesTimeout, WriteRequestFails, Clean
<1>7. CASE WriteRequest(a)
  <2>1. [hd[a] EXCEPT !.pc = "poll", !.left = OsTimeout] \in Handler
    BY <1>0, <1>2 DEF Handler, HandlerPCs
  <2> QED
    BY <1>1, <1>7, <2>1 DEF WriteRequest
<1>8. CASE FindDecision(a)
  <2> DEFINE y == response.decision = "accept"
  <2>1. [hd[a] EXCEPT !.pc = "clean", !.ans = y] \in Handler
    <3>1. y \in BOOLEAN /\ "clean" \in HandlerPCs
      BY DEF HandlerPCs
    <3> HIDE DEF y
    <3> QED
      BY <1>0, <3>1 DEF Handler
  <2> QED
    BY <1>1, <1>8, <2>1 DEF FindDecision
<1>9. CASE PollTimeout(a)
  <2>1. [hd[a] EXCEPT !.pc = "clean"] \in Handler
    BY <1>0 DEF Handler, HandlerPCs
  <2> QED
    BY <1>1, <1>9, <2>1 DEF PollTimeout
<1>10. CASE Reply(a)
  <2>1. [hd[a] EXCEPT !.pc = "done", !.left = 0, !.ans = FALSE] \in Handler
    <3>1. "done" \in HandlerPCs
      BY DEF HandlerPCs
    <3> QED
      BY <1>0, <1>2, <3>1 DEF Handler
  <2>2. hd' \in [Attempts -> Handler] /\ \A b \in Attempts \ {a} : hd'[b] = hd[b]
    BY <1>10, <2>1 DEF Reply, SetH, AttemptsOK
  <2> DEFINE s == [st |-> IF hd[a].ans THEN "accepted" ELSE "rejected", left |-> 0]
  <2>3. s \in Smp
    BY <1>2 DEF Smp, SmpStates
  <2>4. smp' = IF smp[a].st = "asked" THEN [smp EXCEPT ![a] = s] ELSE smp
    BY <1>10 DEF Reply
  <2> HIDE DEF s
  <2>5. /\ smp' \in [Attempts -> Smp] /\ \A b \in Attempts \ {a} : smp'[b] = smp[b]
        /\ smp'[a] = smp[a] \/ smp[a].st = "asked"
    BY <2>3, <2>4 DEF AttemptsOK
  <2> QED
    BY <1>10, <2>2, <2>5 DEF AttemptsOK, Own, Reply
<1> QED
  BY <1>3, <1>4, <1>5, <1>6, <1>7, <1>8, <1>9, <1>10 DEF HandlerStep

LEMMA HandlerAtt ==
    ASSUME TypeOK, AllAtt, ResponseOK, NEW a \in Attempts, HandlerStep(a)
    PROVE  AttInv(a)'
<1>0. hd[a] \in Handler /\ smp[a] \in Smp /\ AttInv(a) /\ hd \in [Attempts -> Handler]
  BY DEF TypeOK, AllAtt
<1>1. UNCHANGED <<ui, handler>>
  BY AttemptFrame DEF flowVars
<1>2. smp[a].left \in Nat /\ hd[a].left \in Nat /\ smp[a].left <= SmpTimeout
  BY <1>0 DEF Smp, Handler
<1>3. CASE Enter(a)
  <2>1. /\ hd[a].pc = "mutex" /\ UNCHANGED smp /\ hd'[a].ans = hd[a].ans
        /\ smp[a].left < SmpTimeout => hd'[a].late
        /\ ~(smp[a].left < SmpTimeout) => ~hd'[a].late
        /\ hd'[a].pc = CASE handler = None -> "reply"
                         [] handler = "Waybar" -> "request"
                         [] OTHER -> "stdout"
    BY <1>0, <1>3 DEF Enter, SetH, Handler
  <2>2. AttemptOK(a)'
    BY <1>0, <2>1 DEF AttInv, AttemptOK
  <2>3. ASSUME handler = "Waybar" PROVE WaybarOK(a)'
    <3>1. hd'[a].pc = "request" /\ ~hd[a].ans
      BY <1>0, <2>1, <2>3 DEF AttInv, AttemptOK
    <3>2. ~hd'[a].late => smp[a].left = SmpTimeout
      BY <1>2, <2>1
    <3>3. smp[a].st = "timeout" => hd'[a].late
      BY <1>0, <2>1 DEF AttInv, AttemptOK
    <3> QED
      BY <1>0, <1>1, <2>1, <2>3, <3>1, <3>2, <3>3 DEF AttInv, WaybarOK, Unanswered
  <2> QED
    BY <1>1, <2>2, <2>3 DEF AttInv
<1>4. CASE PrintCode(a) \/ TakeLine(a) \/ LinesTimeout(a)
  <2>1. hd[a].pc \in {"stdout", "lines"} /\ UNCHANGED smp /\ hd'[a].pc \in {"reply", "lines"}
        /\ (hd'[a].ans => hd'[a].pc = "reply" \/ hd[a].ans)
    <3>1. CASE PrintCode(a)
      BY <1>0, <3>1 DEF PrintCode, SetH, Handler
    <3>2. CASE TakeLine(a)
      <4>1. hd[a].pc = "lines" /\ UNCHANGED smp
            /\ hd' = [hd EXCEPT ![a] = [hd[a] EXCEPT !.pc = "reply", !.ans = (Head(lines) = "y")]]
        BY <3>2 DEF TakeLine, SetH
      <4>2. hd'[a].pc = "reply"
        BY <1>0, <4>1 DEF Handler
      <4> QED
        BY <4>1, <4>2
    <3>3. CASE LinesTimeout(a)
      BY <1>0, <3>3 DEF LinesTimeout, SetH, Handler
    <3> QED
      BY <1>4, <3>1, <3>2, <3>3
  <2>2. AttemptOK(a)'
    BY <1>0, <2>1 DEF AttInv, AttemptOK
  <2> QED
    BY <1>0, <1>1, <2>1, <2>2 DEF AttInv, WaybarOK
<1>5. CASE WriteRequest(a)
  <2>1. /\ hd[a].pc = "request" /\ UNCHANGED smp /\ hd'[a].ans = hd[a].ans
        /\ hd'[a].late = hd[a].late /\ hd'[a].pc = "poll" /\ hd'[a].left = OsTimeout
    BY <1>0, <1>5 DEF WriteRequest, SetH, Handler
  <2>2. AttemptOK(a)'
    BY <1>0, <2>1 DEF AttInv, AttemptOK
  <2>3. ASSUME handler = "Waybar" PROVE WaybarOK(a)'
    BY <1>0, <1>1, <1>2, <2>1, <2>3 DEF AttInv, WaybarOK, Unanswered, Spare
  <2> QED
    BY <1>1, <2>2, <2>3 DEF AttInv
<1>6. CASE WriteRequestFails(a) \/ PollTimeout(a) \/ Clean(a)
  <2>1. /\ UNCHANGED smp /\ hd'[a].ans = hd[a].ans /\ hd'[a].late = hd[a].late
        /\ \/ hd[a].pc = "request" /\ hd'[a].pc = "reply"
           \/ hd[a].pc = "poll" /\ hd'[a].pc = "clean"
           \/ hd[a].pc = "clean" /\ hd'[a].pc = "reply"
    BY <1>0, <1>6 DEF WriteRequestFails, PollTimeout, Clean, SetH, Handler
  <2>2. AttemptOK(a)'
    BY <1>0, <2>1 DEF AttInv, AttemptOK
  <2>3. ASSUME handler = "Waybar" PROVE WaybarOK(a)'
    BY <1>0, <1>1, <1>2, <2>1, <2>3 DEF AttInv, WaybarOK, Unanswered, Spare
  <2> QED
    BY <1>1, <2>2, <2>3 DEF AttInv
<1>7. CASE FindDecision(a)
  <2>1. /\ hd[a].pc = "poll" /\ UNCHANGED smp /\ hd'[a].late = hd[a].late /\ hd'[a].pc = "clean"
        /\ hd'[a].ans = (response.decision = "accept") /\ response # None /\ response.id = a
    BY <1>0, <1>7 DEF FindDecision, Decides, SetH, Handler
  <2>2. AttemptOK(a)'
    BY <1>0, <2>1 DEF AttInv, AttemptOK
  <2>3. hd'[a].ans => ui[a] = "accept"
    BY <2>1 DEF ResponseOK
  <2>4. ASSUME handler = "Waybar" PROVE WaybarOK(a)'
    BY <1>0, <1>1, <1>2, <2>1, <2>3, <2>4 DEF AttInv, WaybarOK, Unanswered, Spare
  <2> QED
    BY <1>1, <2>2, <2>4 DEF AttInv
<1>8. CASE Reply(a)
  <2>1. /\ hd[a].pc = "reply" /\ hd'[a].ans = FALSE /\ hd'[a].late = hd[a].late
        /\ hd'[a].pc = "done"
        /\ \/ smp[a].st # "asked" /\ smp'[a] = smp[a]
           \/ /\ smp[a].st = "asked" /\ smp'[a].left = 0
              /\ smp'[a].st = IF hd[a].ans THEN "accepted" ELSE "rejected"
    <3>1. /\ hd[a].pc = "reply" /\ hd'[a].ans = FALSE /\ hd'[a].late = hd[a].late
          /\ hd'[a].pc = "done"
      BY <1>0, <1>8 DEF Reply, SetH, Handler
    <3>2. smp' = IF smp[a].st = "asked"
                 THEN [smp EXCEPT ![a] = [st |-> IF hd[a].ans THEN "accepted" ELSE "rejected",
                                          left |-> 0]]
                 ELSE smp
      BY <1>8 DEF Reply
    <3>3. smp \in [Attempts -> Smp]
      BY DEF TypeOK
    <3> QED
      BY <3>1, <3>2, <3>3
  <2>2. AttemptOK(a)'
    BY <1>0, <2>1 DEF AttInv, AttemptOK
  <2>3. ASSUME handler = "Waybar" PROVE WaybarOK(a)'
    BY <1>0, <1>1, <2>1, <2>3 DEF AttInv, WaybarOK, Unanswered
  <2> QED
    BY <1>1, <2>2, <2>3 DEF AttInv
<1> QED
  BY <1>3, <1>4, <1>5, <1>6, <1>7, <1>8 DEF HandlerStep

LEMMA SmpAtt ==
    ASSUME TypeOK, AllAtt, NEW a \in Attempts, SmpStep(a)
    PROVE  AttemptsOK' /\ Own(a) /\ AttInv(a)'
<1>0. hd[a] \in Handler /\ smp[a] \in Smp /\ AttInv(a) /\ AttemptsOK
  BY DEF TypeOK, AllAtt, AttemptsOK
<1>1. UNCHANGED <<ui, handler>>
  BY AttemptFrame DEF flowVars
<1>2. CASE RequestConfirmation(a)
  <2>1. /\ smp[a].st = "none" /\ smp' = [smp EXCEPT ![a] = [st |-> "asked", left |-> SmpTimeout]]
        /\ hd' = [hd EXCEPT ![a] = [hd[a] EXCEPT !.pc = "mutex"]]
    BY <1>2 DEF RequestConfirmation, SetH
  <2>2. [hd[a] EXCEPT !.pc = "mutex"] \in Handler
    BY <1>0 DEF Handler, HandlerPCs
  <2>3. [st |-> "asked", left |-> SmpTimeout] \in Smp
    <3>1. SmpTimeout \in 0 .. SmpTimeout /\ "asked" \in SmpStates
      BY DEF SmpStates
    <3> QED
      BY <3>1 DEF Smp
  <2>4. AttemptsOK' /\ Own(a)
    BY <1>0, <2>1, <2>2, <2>3 DEF AttemptsOK, Own
  <2>5. smp'[a].st = "asked" /\ hd'[a].pc = "mutex" /\ hd'[a].ans = hd[a].ans
    BY <1>0, <2>1 DEF AttemptsOK, Handler
  <2>6. ~hd[a].ans
    BY <1>0, <2>1 DEF AttInv, AttemptOK
  <2>7. AttInv(a)'
    BY <2>5, <2>6 DEF AttInv, AttemptOK, WaybarOK, Unanswered
  <2> QED
    BY <2>4, <2>7
<1>3. CASE SmpTimesOut(a)
  <2>1. /\ smp[a].st = "asked" /\ smp[a].left = 0 /\ UNCHANGED hd
        /\ smp' = [smp EXCEPT ![a].st = "timeout"]
    BY <1>3 DEF SmpTimesOut
  <2>2. AttemptsOK' /\ Own(a) /\ smp'[a].st = "timeout" /\ smp'[a].left = 0
    BY <1>0, <2>1 DEF AttemptsOK, Own, Smp, SmpStates
  <2>3. AttemptOK(a)'
    BY <1>0, <2>1, <2>2 DEF AttInv, AttemptOK
  <2>4. ASSUME handler = "Waybar" PROVE WaybarOK(a)'
    <3>1. hd[a].pc \in {"mutex", "request", "poll", "clean", "reply"}
      <4>1. hd[a].pc \in HandlerPCs
        BY <1>0 DEF Handler
      <4> QED
        BY <1>0, <2>1, <2>4, <4>1 DEF AttInv, AttemptOK, WaybarOK, HandlerPCs
    <3>2. Spare > 0 /\ Spare \in Int
      BY DEF Spare
    <3>3. hd[a].left \in Nat
      BY <1>0 DEF Handler
    <3>4. hd[a].pc # "mutex" => hd[a].late
      BY <1>0, <2>1, <2>4, <3>1, <3>2, <3>3 DEF AttInv, WaybarOK
    <3> QED
      BY <1>0, <1>1, <2>1, <2>2, <2>4, <3>4 DEF AttInv, WaybarOK, Unanswered
  <2> QED
    BY <1>1, <2>2, <2>3, <2>4 DEF AttInv
<1>4. CASE PhoneGivesUp(a)
  <2>1. /\ smp[a].st = "asked" /\ UNCHANGED hd
        /\ smp' = [smp EXCEPT ![a] = [st |-> "gone", left |-> 0]]
    BY <1>4 DEF PhoneGivesUp
  <2>2. AttemptsOK' /\ Own(a) /\ smp'[a].st = "gone"
    BY <1>0, <2>1 DEF AttemptsOK, Own, Smp, SmpStates
  <2> QED
    BY <1>0, <1>1, <2>1, <2>2 DEF AttInv, AttemptOK, WaybarOK, Unanswered
<1> QED
  BY <1>2, <1>3, <1>4 DEF SmpStep

LEMMA EndingAtt ==
    ASSUME TypeOK, AllAtt, Ending
    PROVE  AttemptsOK' /\ AllAtt'
<1>0. Cancelled /\ UNCHANGED <<handler, hd, ui>> /\ AttemptsOK
  BY EndingFrame DEF TypeOK, AttemptsOK
<1>1. ASSUME NEW a \in Attempts
      PROVE  smp'[a] \in Smp /\ AttInv(a)'
  <2>0. AttInv(a) /\ smp[a] \in Smp
    BY <1>0 DEF AllAtt, AttemptsOK
  <2>1. CASE smp[a].st = "asked"
    <3>1. smp'[a] = [st |-> "gone", left |-> 0]
      BY <1>0, <2>1 DEF Cancelled
    <3>2. smp'[a] \in Smp /\ smp'[a].st = "gone"
      BY <3>1 DEF Smp, SmpStates
    <3> QED
      BY <1>0, <2>0, <2>1, <3>2 DEF AttInv, AttemptOK, WaybarOK, Unanswered
  <2>2. CASE smp[a].st # "asked"
    <3>1. smp'[a] = smp[a]
      BY <1>0, <2>2 DEF Cancelled
    <3> QED
      BY <1>0, <2>0, <3>1, AttFrame
  <2> QED
    BY <2>1, <2>2
<1>2. smp' \in [Attempts -> Smp]
  BY <1>0, <1>1 DEF Cancelled
<1> QED
  BY <1>0, <1>1, <1>2 DEF AttemptsOK, AllAtt

LEMMA TickAtt ==
    ASSUME TypeOK, AllAtt, Tick
    PROVE  AttemptsOK' /\ AllAtt'
<1>0. /\ UNCHANGED <<handler, ui>> /\ ~Urgent
      /\ smp' = [a \in Attempts |-> [smp[a] EXCEPT !.left = Less(@)]]
      /\ hd' = [a \in Attempts |-> [hd[a] EXCEPT !.left = Less(@)]]
  BY DEF Tick, flowVars
<1>1. ASSUME NEW a \in Attempts
      PROVE  smp'[a] \in Smp /\ hd'[a] \in Handler /\ AttInv(a)'
  <2>0. AttInv(a) /\ smp[a] \in Smp /\ hd[a] \in Handler
    BY DEF AllAtt, TypeOK
  <2>1. /\ smp'[a] \in Smp /\ smp'[a].st = smp[a].st /\ smp'[a].left = Less(smp[a].left)
        /\ smp[a].left \in Nat
    BY <1>0, <2>0 DEF Smp, Less
  <2>2. /\ hd'[a] \in Handler /\ hd'[a].pc = hd[a].pc /\ hd'[a].left = Less(hd[a].left)
        /\ hd'[a].ans = hd[a].ans /\ hd'[a].late = hd[a].late /\ hd[a].left \in Nat
    BY <1>0, <2>0 DEF Handler, Less
  <2>3. AttemptOK(a)'
    BY <2>0, <2>1, <2>2 DEF AttInv, AttemptOK, Less
  <2>4. ASSUME handler = "Waybar" PROVE WaybarOK(a)'
    <3>1. hd[a].pc \notin {"request", "clean", "reply"}
      BY <1>0 DEF Urgent, Busy
    <3>2. hd[a].pc = "poll" => hd[a].left # 0
      BY <1>0 DEF Urgent
    <3>3. smp[a].st = "asked" => smp[a].left # 0
      BY <1>0 DEF Urgent
    <3>4. Spare \in Int
      BY DEF Spare
    <3> QED
      BY <1>0, <2>0, <2>1, <2>2, <2>4, <3>1, <3>2, <3>3, <3>4
         DEF AttInv, WaybarOK, Unanswered, Less
  <2> QED
    BY <1>0, <2>1, <2>2, <2>3, <2>4 DEF AttInv
<1>2. smp' \in [Attempts -> Smp] /\ hd' \in [Attempts -> Handler]
  BY <1>0, <1>1
<1> QED
  BY <1>1, <1>2 DEF AttemptsOK, AllAtt

LEMMA AttKept ==
    ASSUME TypeOK, AllAtt, NotYet, ResponseOK, [Next]_vars
    PROVE  AttemptsOK' /\ AllAtt'
<1>0. AttemptsOK /\ FlowOK /\ FilesOK
  BY TypeParts
<1>1. ASSUME UNCHANGED <<smp, hd>>, UNCHANGED <<ui, handler>> PROVE AttemptsOK' /\ AllAtt'
  BY <1>0, <1>1, AttFrame DEF AttemptsOK, AllAtt
<1>2. ASSUME NEW a \in Attempts, HandlerStep(a) PROVE AttemptsOK' /\ AllAtt'
  <2>1. AttemptsOK' /\ Own(a) /\ AttInv(a)'
    BY <1>0, <1>2, HandlerMoves, HandlerAtt
  <2>2. UNCHANGED <<ui, handler>>
    BY <1>2, AttemptFrame DEF flowVars
  <2> QED
    BY <2>1, <2>2, OwnKeeps
<1>3. ASSUME NEW a \in Attempts, SmpStep(a) PROVE AttemptsOK' /\ AllAtt'
  <2>1. AttemptsOK' /\ Own(a) /\ AttInv(a)'
    BY <1>3, SmpAtt
  <2>2. UNCHANGED <<ui, handler>>
    BY <1>3, AttemptFrame DEF flowVars
  <2> QED
    BY <2>1, <2>2, OwnKeeps
<1>4. CASE Install
  <2>1. pc = "adapter" /\ UNCHANGED <<smp, hd, ui>>
    BY <1>4 DEF Install
  <2>2. ASSUME NEW a \in Attempts PROVE AttInv(a)'
    <3>1. hd[a].pc = "none" /\ AttemptOK(a)
      BY <2>1 DEF NotYet, AllAtt, AttInv
    <3>2. smp[a].st = "none" /\ ~hd[a].ans
      BY <3>1 DEF AttemptOK
    <3> QED
      BY <2>1, <3>1, <3>2 DEF AttInv, AttemptOK, WaybarOK, Unanswered
  <2> QED
    BY <1>0, <2>1, <2>2 DEF AttemptsOK, AllAtt
<1>5. CASE Walking
  <2>1. CASE ~Install
    <3>1. UNCHANGED handler
      BY <1>5, <2>1 DEF Walking, RegisterAgent, Serve, Rotate, DropOld, RotateFails, SameMinute,
                        Pick, DrainMailbox, OobAuto, OobYes, OobNo, flowVars
    <3> QED
      BY <1>1, <1>5, <3>1, WalkingFrame
  <2> QED
    BY <1>4, <2>1
<1>6. CASE UserStep
  <2>1. UNCHANGED <<smp, hd, handler>>
    BY <1>6, UserFrame DEF flowVars
  <2>2. ASSUME NEW a \in Attempts PROVE ui'[a] = ui[a] \/ ui[a] # "accept"
    BY <1>0, <1>6 DEF UserStep, Type, AppletShows, Click, FilesOK
  <2>3. ASSUME NEW a \in Attempts PROVE AttInv(a)'
    BY <2>1, <2>2, <2>3 DEF AllAtt, AttInv, AttemptOK, WaybarOK, Unanswered
  <2> QED
    BY <1>0, <2>1, <2>3 DEF AttemptsOK, AllAtt
<1>7. CASE UNCHANGED vars
  BY <1>1, <1>7 DEF vars, flowVars
<1> QED
  BY <1>2, <1>3, <1>5, <1>6, <1>7, NextParts, EndingAtt, TickAtt

-----------------------------------------------------------------------------
(* The files, the start, and the air.                                         *)

LEMMA RequestKept ==
    ASSUME TypeOK, RequestHasAHandler, AllAtt, [Next]_vars
    PROVE  request' # None => hd'[request'].pc \in {"poll", "clean"}
<1>0. AttemptsOK /\ FlowOK /\ FilesOK
  BY TypeParts
<1> DEFINE G == request' # None => hd'[request'].pc \in {"poll", "clean"}
<1>1. ASSUME UNCHANGED request, request # None => hd'[request].pc = hd[request].pc PROVE G
  BY <1>1 DEF RequestHasAHandler
<1>2. ASSUME NEW a \in Attempts, HandlerStep(a) PROVE G
  <2>0. hd[a] \in Handler /\ (request # None => request \in Attempts)
    BY <1>0 DEF AttemptsOK, FilesOK
  <2>1. Own(a)
    BY <1>0, <1>2, HandlerMoves
  <2>2. ASSUME hd[a].pc \notin {"poll", "clean"}, UNCHANGED request PROVE G
    <3>1. request # None => request # a
      BY <2>2 DEF RequestHasAHandler
    <3> QED
      BY <1>1, <2>0, <2>1, <2>2, <3>1 DEF Own
  <2>3. CASE Enter(a) \/ PrintCode(a) \/ TakeLine(a) \/ LinesTimeout(a) \/ WriteRequestFails(a)
             \/ Reply(a)
    BY <2>2, <2>3 DEF Enter, PrintCode, TakeLine, LinesTimeout, WriteRequestFails, Reply, ipcVars
  <2>4. CASE WriteRequest(a)
    <3>1. request' = a /\ hd'[a].pc = "poll"
      BY <1>0, <2>0, <2>4 DEF WriteRequest, SetH, AttemptsOK, Handler
    <3> QED
      BY <3>1
  <2>5. CASE FindDecision(a) \/ PollTimeout(a)
    <3>a. ASSUME NEW b \in BOOLEAN, hd' = [hd EXCEPT ![a] = [hd[a] EXCEPT !.pc = "clean", !.ans = b]]
          PROVE  hd'[a].pc = "clean"
      BY <1>0, <2>0, <3>a DEF AttemptsOK, Handler
    <3>b. ASSUME FindDecision(a) PROVE hd'[a].pc = "clean"
      <4>1. hd' = [hd EXCEPT ![a] = [hd[a] EXCEPT !.pc = "clean", !.ans = (response.decision = "accept")]]
        BY <3>b DEF FindDecision, SetH
      <4>2. (response.decision = "accept") \in BOOLEAN
        BY Zenon
      <4> QED
        BY <3>a, <4>1, <4>2
    <3>c. ASSUME PollTimeout(a) PROVE hd'[a].pc = "clean"
      BY <1>0, <2>0, <3>c DEF PollTimeout, SetH, AttemptsOK, Handler
    <3>d. UNCHANGED request
      BY <2>5 DEF FindDecision, PollTimeout, ipcVars
    <3>1. UNCHANGED request /\ hd'[a].pc = "clean"
      BY <2>5, <3>b, <3>c, <3>d
    <3>2. CASE request = a
      BY <3>1, <3>2
    <3>3. CASE request # a
      BY <1>1, <2>0, <2>1, <3>1, <3>3 DEF Own
    <3> QED
      BY <3>2, <3>3
  <2>6. CASE Clean(a)
    BY <2>6 DEF Clean
  <2> QED
    BY <1>2, <2>3, <2>4, <2>5, <2>6 DEF HandlerStep
<1>3. ASSUME NEW a \in Attempts, RequestConfirmation(a) \/ SmpTimesOut(a) \/ PhoneGivesUp(a)
      PROVE  G
  <2>1. UNCHANGED request
    BY <1>3 DEF RequestConfirmation, SmpTimesOut, PhoneGivesUp, ipcVars
  <2>2. CASE UNCHANGED hd
    BY <1>1, <2>1, <2>2
  <2>3. CASE RequestConfirmation(a)
    <3>1. hd[a].pc = "none"
      BY <2>3 DEF RequestConfirmation, AllAtt, AttInv, AttemptOK
    <3>2. \A b \in Attempts \ {a} : hd'[b] = hd[b]
      BY <1>0, <2>3 DEF RequestConfirmation, SetH, AttemptsOK
    <3>3. request # None => request # a /\ request \in Attempts
      BY <1>0, <3>1 DEF RequestHasAHandler, FilesOK
    <3> QED
      BY <1>1, <2>1, <3>2, <3>3
  <2> QED
    BY <1>3, <2>2, <2>3 DEF SmpTimesOut, PhoneGivesUp
<1>4. CASE UNCHANGED <<request, hd>>
  BY <1>1, <1>4
<1>5. CASE Tick
  <2>1. /\ UNCHANGED request
        /\ hd' = [a \in Attempts |-> [hd[a] EXCEPT !.left = Less(@)]]
    BY <1>5 DEF Tick, ipcVars
  <2>2. \A a \in Attempts : hd'[a].pc = hd[a].pc
    BY <1>0, <2>1 DEF AttemptsOK, Handler
  <2> QED
    BY <1>0, <1>1, <2>1, <2>2 DEF FilesOK
<1> QED
  BY <1>2, <1>3, <1>4, <1>5, NextParts, EndingFrame, WalkingFrame, UserFrame
     DEF SmpStep, ipcVars, vars

LEMMA ResponseKept ==
    ASSUME TypeOK, ResponseOK, [Next]_vars
    PROVE  ResponseOK'
<1>0. FilesOK
  BY TypeParts
<1>1. ASSUME response' \in {response, None}, UNCHANGED ui PROVE ResponseOK'
  BY <1>1 DEF ResponseOK
<1>2. ASSUME NEW a \in Attempts, HandlerStep(a) PROVE ResponseOK'
  <2>1. response' \in {response, None}
    BY <1>2 DEF HandlerStep, Enter, PrintCode, TakeLine, LinesTimeout, WriteRequest,
                WriteRequestFails, FindDecision, PollTimeout, Clean, Reply, ipcVars
  <2> QED
    BY <1>1, <1>2, <2>1, AttemptFrame
<1>3. ASSUME NEW a \in Attempts, SmpStep(a) PROVE ResponseOK'
  BY <1>1, <1>3 DEF SmpStep, RequestConfirmation, SmpTimesOut, PhoneGivesUp, ipcVars
<1>4. ASSUME NEW a \in Attempts, NEW d \in {"accept", "reject"}, Click(a, d) PROVE ResponseOK'
  BY <1>0, <1>4 DEF Click, FilesOK, ResponseOK
<1>5. ASSUME NEW a \in Attempts, AppletShows(a) PROVE ResponseOK'
  <2>1. /\ ui[a] = "hidden" /\ ui' = [ui EXCEPT ![a] = "shown"] /\ UNCHANGED response
    BY <1>5 DEF AppletShows, ipcVars
  <2>2. response # None => response.id # a /\ response.id \in Attempts
    BY <1>0, <2>1 DEF ResponseOK, FilesOK
  <2> QED
    BY <1>0, <2>1, <2>2 DEF ResponseOK, FilesOK
<1>6. ASSUME NEW l, Type(l) PROVE ResponseOK'
  BY <1>1, <1>6 DEF Type, ipcVars
<1> QED
  BY <1>1, <1>2, <1>3, <1>4, <1>5, <1>6, NextParts, EndingFrame, WalkingFrame
     DEF Tick, vars, UserStep, ipcVars

LEMMA NotYetKept ==
    ASSUME TypeOK, NotYet, [Next]_vars
    PROVE  NotYet'
<1>0. AttemptsOK /\ FlowOK
  BY TypeParts
<1>1. CASE pc' # "adapter"
  BY <1>1 DEF NotYet
<1>2. ASSUME pc = "adapter", UNCHANGED <<pc, agent, hd>> PROVE NotYet'
  BY <1>2 DEF NotYet
<1>3. CASE Ending
  BY <1>1, <1>3, EndingFrame
<1>4. CASE Walking
  BY <1>1, <1>4 DEF Walking, Install, RegisterAgent, Serve, Rotate, DropOld, RotateFails,
                    SameMinute, Pick, DrainMailbox, OobAuto, OobYes, OobNo, RotationDue, flowVars
<1>5. ASSUME NEW a \in Attempts, HandlerStep(a) \/ SmpStep(a) PROVE NotYet'
  <2>1. UNCHANGED <<pc, agent>>
    BY <1>5, AttemptFrame DEF flowVars
  <2>2. CASE pc = "adapter"
    <3>1. ~agent /\ hd[a].pc = "none"
      BY <2>2 DEF NotYet
    <3>2. ~HandlerStep(a)
      BY <3>1 DEF HandlerStep, Enter, PrintCode, TakeLine, LinesTimeout, WriteRequest,
                  WriteRequestFails, FindDecision, PollTimeout, Clean, Reply
    <3>3. UNCHANGED hd
      BY <1>5, <3>1, <3>2 DEF SmpStep, RequestConfirmation, SmpTimesOut, PhoneGivesUp
    <3> QED
      BY <1>2, <2>1, <2>2, <3>3
  <2> QED
    BY <1>1, <2>1, <2>2
<1>6. CASE Tick
  BY <1>1, <1>6 DEF Tick, Urgent, flowVars
<1>7. CASE UserStep
  BY <1>1, <1>2, <1>7, UserFrame DEF flowVars
<1>8. CASE UNCHANGED vars
  BY <1>1, <1>2, <1>8 DEF vars, flowVars
<1> QED
  BY <1>3, <1>4, <1>5, <1>6, <1>7, <1>8, NextParts

LEMMA AirKept ==
    ASSUME TypeOK, AirOK, [Next]_vars
    PROVE  AirOK'
<1>0. AirTypeOK /\ FlowOK
  BY TypeParts
<1>1. CASE pc' # "scan"
  BY <1>1 DEF AirOK
<1>2. ASSUME UNCHANGED <<pc, t, phase, adverts, rot, slot>> PROVE AirOK'
  BY <1>2 DEF AirOK, MinuteNow
<1>3. CASE Ending
  BY <1>1, <1>3, EndingFrame
<1>4. CASE Walking
  <2>1. CASE Install \/ RegisterAgent \/ Pick \/ DrainMailbox \/ OobAuto \/ OobYes \/ OobNo
    BY <1>1, <2>1 DEF Install, RegisterAgent, Pick, DrainMailbox, OobAuto, OobYes, OobNo
  <2>2. CASE Serve
    BY <2>2 DEF Serve, AirOK, MinuteNow
  <2>3. CASE Rotate
    BY <2>3 DEF Rotate, AirOK
  <2>4. CASE DropOld
    BY <2>4 DEF DropOld, AirOK, MinuteNow
  <2>5. CASE RotateFails
    BY <2>5 DEF RotateFails, RotationDue, AirOK, flowVars
  <2>6. CASE SameMinute
    BY <2>6 DEF SameMinute, RotationDue, AirOK, MinuteNow, flowVars
  <2> QED
    BY <1>4, <2>1, <2>2, <2>3, <2>4, <2>5, <2>6 DEF Walking
<1>5. CASE Tick
  <2>1. UNCHANGED <<pc, adverts, slot>>
    BY <1>5 DEF Tick, flowVars
  <2>2. pc = "scan" => rot' = "due" /\ rot # "swap"
    BY <1>5 DEF Tick, Urgent
  <2> QED
    BY <2>1, <2>2 DEF AirOK
<1>6. ASSUME NEW a \in Attempts, HandlerStep(a) \/ SmpStep(a) PROVE AirOK'
  BY <1>2, <1>6, AttemptFrame DEF flowVars, airVars
<1>7. CASE UserStep
  BY <1>2, <1>7, UserFrame DEF flowVars, airVars
<1>8. CASE UNCHANGED vars
  BY <1>2, <1>8 DEF vars, flowVars, airVars
<1> QED
  BY <1>3, <1>4, <1>5, <1>6, <1>7, <1>8, NextParts

-----------------------------------------------------------------------------
(* The theorems.                                                              *)

LEMMA InitIInv == Init => IInv
<1> SUFFICES ASSUME Init PROVE IInv
  OBVIOUS
<1>1. /\ pc = "adapter" /\ result = "none" /\ handler = None /\ agent = FALSE /\ mailbox = FALSE
      /\ t = 0 /\ adverts = {} /\ rot = "done" /\ slot = 0 /\ lines = <<>> /\ typed = 0
      /\ request = None /\ response = None /\ faults = 0
      /\ phase \in 0 .. Minute - 1 /\ opts \in [yes : BOOLEAN, waybar : BOOLEAN]
  BY DEF Init
<1>2. /\ smp = [a \in Attempts |-> [st |-> "none", left |-> 0]]
      /\ hd = [a \in Attempts |-> [pc |-> "none", left |-> 0, ans |-> FALSE, late |-> FALSE]]
      /\ ui = [a \in Attempts |-> "hidden"]
  BY DEF Init
<1>3. FlowOK
  BY <1>1 DEF FlowOK, PCs, Results
<1>4. AirTypeOK /\ faults \in 0 .. MaxFaults
  BY <1>1 DEF AirTypeOK
<1>5. AttemptsOK
  BY <1>2 DEF AttemptsOK, Smp, Handler, SmpStates, HandlerPCs
<1>6. TermOK
  <2>1. <<>> \in Seq({"y", "n"}) /\ 0 \in 0 .. MaxLines
    OBVIOUS
  <2> QED
    BY <1>1, <2>1 DEF TermOK
<1>7. FilesOK
  BY <1>1, <1>2 DEF FilesOK
<1>8. RequestHasAHandler
  BY <1>1, <1>3, <1>4, <1>5, <1>6, <1>7, TypeParts DEF RequestHasAHandler
<1>9. NotYet /\ ResponseOK /\ AirOK
  BY <1>1, <1>2 DEF NotYet, ResponseOK, AirOK
<1>10. \A a \in Attempts : AttemptOK(a)
  BY <1>2 DEF AttemptOK
<1>11. handler # "Waybar" \/ \A a \in Attempts : WaybarOK(a)
  BY <1>2 DEF WaybarOK, Unanswered
<1> QED
  BY <1>8, <1>9, <1>10, <1>11 DEF IInv

(* The inductive invariant.                                                   *)
THEOREM Inductive == Spec => []IInv
<1>1. IInv /\ [Next]_vars => IInv'
  <2> SUFFICES ASSUME IInv, [Next]_vars PROVE IInv'
    OBVIOUS
  <2>1. TypeOK /\ RequestHasAHandler /\ NotYet /\ ResponseOK /\ AirOK /\ AllAtt
    BY DEF IInv, RequestHasAHandler, AllAtt, AttInv
  <2>2. AttemptsOK' /\ AllAtt'
    BY <2>1, AttKept
  <2>3. TypeOK'
    <3>1. FlowOK' /\ AirTypeOK' /\ TermOK' /\ FilesOK' /\ faults' \in 0 .. MaxFaults
      BY <2>1, FlowKept, AirTypeKept, TermKept, FilesKept, FaultsKept
    <3> QED
      BY <2>2, <3>1 DEF TypeOK, FlowOK, AirTypeOK, AttemptsOK, TermOK, FilesOK, PCs
  <2>4. RequestHasAHandler'
    BY <2>1, <2>3, RequestKept DEF RequestHasAHandler
  <2>5. NotYet' /\ ResponseOK' /\ AirOK'
    BY <2>1, NotYetKept, ResponseKept, AirKept
  <2> QED
    BY <2>2, <2>4, <2>5 DEF IInv, AllAtt, AttInv
<1> QED
  BY <1>1, InitIInv, PTL DEF Spec

(* No request file without a handler that reads its answer.                   *)
THEOREM RequestsAreWatched == Spec => []RequestHasAHandler
<1>1. IInv => RequestHasAHandler
  BY DEF IInv
<1> QED
  BY <1>1, Inductive, PTL

(* A waybar attempt that need not wait is answered before BlueZ gives up, and *)
(* accepted only by a click on its own request.                               *)
THEOREM WaybarIsAnswered == Spec => []WaybarDecides
<1>1. IInv => WaybarDecides
  BY DEF IInv, WaybarDecides, WaybarOK
<1> QED
  BY <1>1, Inductive, PTL

(* The air is never empty while the window is open, and shows the current     *)
(* minute unless registering it failed in this tick.                          *)
THEOREM AdvertIsCurrent == Spec => []OnAirAndCurrent
<1>1. IInv => OnAirAndCurrent
  BY DEF IInv, AirOK, OnAirAndCurrent
<1> QED
  BY <1>1, Inductive, PTL
=============================================================================

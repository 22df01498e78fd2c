----------------------------- MODULE Discovery ------------------------------
(* The minute rotation of the advertised session UUIDs (ChallengeOrchestrator  *)
(* run, rotate_once, align_to_next_minute, minute_index).  The daemon computes *)
(* from the wall clock, once, how far the next minute boundary is, and from    *)
(* then on rotates every minute of the monotonic clock, each time to the       *)
(* minute the wall clock shows.  One loop serves the ticks and the reloads, so *)
(* a tick may find it busy and be served late; the interval keeps its schedule *)
(* (MissedTickBehavior::Burst).  The wall clock may be stepped and the machine *)
(* may sleep, when only the wall clock advances.  A UUID is abstracted to the  *)
(* minute it was derived from; a phone accepts its own minute and the one      *)
(* before.                                                                     *)
EXTENDS Integers

CONSTANTS
    SecondsPerMinute,   \* SECONDS_PER_MINUTE
    WallStart,          \* wall clock readings the daemon may start at
    WallSteps,          \* by how much the wall clock may jump, either way
    WallHorizon,        \* bound: wall clock readings
    MaxUpsets           \* bound: jumps and failed rotations

ASSUME DiscoveryAssumption ==
    /\ SecondsPerMinute \in Nat \ {0}
    /\ WallStart \subseteq Nat
    /\ WallSteps \subseteq Nat
    /\ WallHorizon \in Nat
    /\ MaxUpsets \in Nat

VARIABLES
    wall,       \* SystemTime::now, seconds
    untilTick,  \* monotonic seconds to the interval's next tick; overdue from 0 down
    phase,      \* where the loop is
    minute,     \* rotate_once's minute, read before it has the advertisement slot
    shown,      \* minute of the advertised UUIDs, or NoMinute
    calm,       \* history: monotonic seconds since the start or the last upset,
                \* up to one minute and one
    upsets      \* upsets so far

discoveryVars == <<wall, untilTick, phase, minute, shown, calm, upsets>>

(* start: the first rotation is still to come; publish: set_session_uuids      *)
(* waits for the slot; advertise: it waits for BlueZ.                          *)
Phases == {"start", "idle", "reload", "publish", "advertise"}

NoMinute == -2      \* in no phone's window, not even in minute 0

(* minute_index and align_to_next_minute.                                      *)
MinuteIndex(now) == now \div SecondsPerMinute
\* Variant: a whole minute from now.
AlignUnaligned(now) == SecondsPerMinute
AlignToNextMinute(now) == SecondsPerMinute - (now % SecondsPerMinute)

(* The constructor computes the start of the interval.                         *)
DiscoveryInit ==
    /\ wall \in WallStart
    /\ untilTick = AlignToNextMinute(wall)
    /\ phase = "start"
    /\ minute = 0
    /\ shown = NoMinute
    /\ calm = 0
    /\ upsets = 0

(* Time passes wherever the loop is.                                           *)
Second ==
    /\ wall < WallHorizon
    /\ wall' = wall + 1
    /\ untilTick' = untilTick - 1
    /\ calm' = IF calm > SecondsPerMinute THEN calm ELSE calm + 1
    /\ UNCHANGED <<phase, minute, shown, upsets>>

(* interval.tick comes before a reload that is also ready, however late it is, *)
(* and the next one is due a minute after this one was.                        *)
Tick ==
    /\ phase = "idle" /\ untilTick <= 0
    /\ phase' = "publish"
    /\ minute' = MinuteIndex(wall)
    /\ untilTick' = untilTick + SecondsPerMinute
    /\ UNCHANGED <<wall, shown, calm, upsets>>

(* run_reload: it waits for the peripheral's peers, which a challenge may hold *)
(* for seconds, or returns at once when bonds.toml does not load.              *)
ReloadStart ==
    /\ phase = "idle" /\ untilTick > 0
    /\ phase' = "reload"
    /\ UNCHANGED <<wall, untilTick, minute, shown, calm, upsets>>

ReloadSkipped ==
    /\ phase = "reload"
    /\ phase' = "idle"
    /\ UNCHANGED <<wall, untilTick, minute, shown, calm, upsets>>

(* rotate_once at the start of run and at the end of a reload.                 *)
RotateOnce ==
    /\ phase \in {"start", "reload"}
    /\ phase' = "publish"
    /\ minute' = MinuteIndex(wall)
    /\ UNCHANGED <<wall, untilTick, shown, calm, upsets>>

(* set_session_uuids takes the old advertisement down before it registers the  *)
(* new one.                                                                    *)
TakeDown ==
    /\ phase = "publish"
    /\ phase' = "advertise"
    /\ shown' = NoMinute
    /\ UNCHANGED <<wall, untilTick, minute, calm, upsets>>

Advertise ==
    /\ phase = "advertise"
    /\ phase' = "idle"
    /\ shown' = minute
    /\ UNCHANGED <<wall, untilTick, minute, calm, upsets>>

(* BlueZ fails: a warning, and nothing is advertised until the next rotation.  *)
AdvertiseFails ==
    /\ phase = "advertise"
    /\ upsets < MaxUpsets
    /\ phase' = "idle"
    /\ calm' = 0
    /\ upsets' = upsets + 1
    /\ UNCHANGED <<wall, untilTick, minute, shown>>

(* NTP or the operator steps the clock, or the machine wakes from sleep.       *)
WallJumps(d) ==
    /\ upsets < MaxUpsets
    /\ wall + d \in 0..WallHorizon
    /\ wall' = wall + d
    /\ calm' = 0
    /\ upsets' = upsets + 1
    /\ UNCHANGED <<untilTick, phase, minute, shown>>

DiscoveryNext ==
    \/ Second \/ Tick \/ ReloadStart \/ ReloadSkipped
    \/ RotateOnce \/ TakeDown \/ Advertise \/ AdvertiseFails
    \/ \E d \in WallSteps : WallJumps(d) \/ WallJumps(-d)

DiscoverySpec == DiscoveryInit /\ [][DiscoveryNext]_discoveryVars

-----------------------------------------------------------------------------
(* What slotUuidsFor of a phone whose clock agrees accepts.                    *)
PhoneWindow == LET m == wall \div SecondsPerMinute IN {m, m - 1}

(* How long ago the tick fell due that what is on the air is owed to; until a  *)
(* rotation has the slot, the old UUIDs stay on the air.                       *)
SinceTick == SecondsPerMinute - untilTick
Age == IF phase = "publish" THEN SinceTick + SecondsPerMinute ELSE SinceTick

(* A minute after the last upset the host is on the air with UUIDs the phone   *)
(* accepts, although the interval is never aligned again, if the tick is not   *)
(* late; only while BlueZ registers the new advertisement there is none.  And  *)
(* as long as nothing was ever upset, what is on the air is the current minute *)
(* until the tick falls due, and still accepted when a reload keeps the tick   *)
(* waiting for up to a whole minute.                                           *)
InPhoneWindow ==
    /\ calm > SecondsPerMinute /\ Age <= SecondsPerMinute =>
          phase = "advertise" \/ shown \in PhoneWindow
    /\ upsets = 0 /\ shown # NoMinute /\ Age < SecondsPerMinute =>
          shown = wall \div SecondsPerMinute
    /\ upsets = 0 /\ shown # NoMinute /\ Age < 2 * SecondsPerMinute =>
          shown \in PhoneWindow

-----------------------------------------------------------------------------
(* The inductive invariant.  If the last upset is longer ago than the tick     *)
(* what is on the air is owed to, both clocks have run together since and the  *)
(* minute was read in between; before the first upset every tick falls due at  *)
(* the full minute.                                                            *)
ReadSince(age, m) ==
    /\ SecondsPerMinute * m <= wall
    /\ wall - age < SecondsPerMinute * m + SecondsPerMinute

DiscoveryTypeOK ==
    /\ wall \in Nat
    /\ untilTick \in Int /\ untilTick <= SecondsPerMinute
    /\ phase \in Phases
    /\ minute \in Nat
    /\ shown \in Nat \cup {NoMinute}
    /\ calm \in 0..(SecondsPerMinute + 1)
    /\ upsets \in 0..MaxUpsets

Rotating == phase \in {"publish", "advertise"}

DiscoveryInv ==
    /\ DiscoveryTypeOK
    /\ calm > Age => phase = "advertise" \/ (shown # NoMinute /\ ReadSince(Age, shown))
    /\ Rotating /\ calm > SinceTick => ReadSince(SinceTick, minute)
    /\ upsets = 0 =>
          /\ \E k \in Nat : wall + untilTick = SecondsPerMinute * k
          /\ shown # NoMinute => /\ SecondsPerMinute * shown <= wall
                                /\ wall - Age <= SecondsPerMinute * shown
          /\ Rotating => /\ SecondsPerMinute * minute <= wall
                         /\ wall - SinceTick <= SecondsPerMinute * minute
=============================================================================

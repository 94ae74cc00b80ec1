--------------------------------- MODULE PiBay ---------------------------------
(***************************************************************************)
(* One bay on the Raspberry Pi: BayStateMachine of state_machine.py and    *)
(* the command handling of control_service.py.                             *)
(*                                                                         *)
(* Each handler runs under the bay's lock and is one action.  Only the     *)
(* timers are two steps: a threading.Timer that has fired waits for the    *)
(* lock like any other thread, and cancelling it no longer stops it.       *)
(*                                                                         *)
(* Around it is any world: commands in any order, however late; a sensor   *)
(* that sees vehicles come and go; recognition results whenever the        *)
(* executor is done; and a process that restarts with nothing remembered.  *)
(***************************************************************************)
EXTENDS Naturals

CONSTANTS Reservations,  \* named by create commands
          Plates         \* that may be bound, and recognised

NoRes == 0

ASSUME CommandsAreNumbered == Reservations \subseteq Nat \ {NoRes}

VARIABLES
  state,      \* _state
  cached,     \* _reservation
  bound,      \* its bound_plates
  graceOver,  \* now is past its expected_arrival_time + no_show_grace
  present,    \* _vehicle_present
  timer,      \* _timer: what the live timer is for
  waiting,    \* callbacks of fired timers that do not yet have the lock
  led,        \* last LED command sent since the process started
  reported    \* last state published since the process started

outputs == <<led, reported>>
holder  == <<cached, bound, graceOver>>
vars == <<state, holder, present, timer, waiting, outputs>>

-----------------------------------------------------------------------------
\* OFFLINE is declared too, but the state machine never enters it.
BayStates == {"available", "reserved", "occupied", "pending_check_in",
              "reserved_checked_in", "conflict"}

LedCommands == {"available", "reserved", "pending_check_in",
                "reserved_checked_in", "conflict_strong"}

Timers == {"no_show", "manual"}

\* No plate, or not enough confidence in it.
Unreadable == "unreadable"

LedOfState(s) == s   \* slip: the state's own name, which the node does not know

LedOf(s) ==
  CASE s = "occupied" -> "reserved_checked_in"
    [] s = "conflict" -> "conflict_strong"
    [] OTHER -> s

\* _transition: enter the state, command the LED, report to the backend.
Transition(s) == state' = s /\ led' = LedOf(s) /\ reported' = s

Stay == UNCHANGED <<state, outputs>>

ForgetHolder == cached' = NoRes /\ bound' = {} /\ graceOver' = FALSE

CancelTimer == timer' = "none"

StartTimerIfIdle(kind) == timer' = IF timer = "none" THEN kind ELSE timer   \* slip

StartTimer(kind) == timer' = kind

-----------------------------------------------------------------------------
Init ==
  /\ state = "available"
  /\ cached = NoRes /\ bound = {} /\ graceOver = FALSE
  /\ present = FALSE
  /\ timer = "none"
  /\ waiting = {}
  /\ led = "none"
  /\ reported = "none"

-----------------------------------------------------------------------------
(***************************************************************************)
(* on_sensor_update: only an edge of the sensor does anything.             *)
(***************************************************************************)
VehicleArrived ==
  /\ ~ present
  /\ present' = TRUE
  /\ CASE state = "reserved"  -> Transition("pending_check_in") /\ StartTimer("manual")
       [] state = "available" -> Transition("occupied") /\ UNCHANGED timer
       [] OTHER               -> Stay /\ UNCHANGED timer
  /\ UNCHANGED <<holder, waiting>>

\* After a conflict the reservation is kept for the backend to decide about.
VehicleLeft ==
  /\ present
  /\ present' = FALSE
  /\ CancelTimer
  /\ CASE state = "reserved_checked_in" -> Transition("available") /\ ForgetHolder
       [] state = "conflict"            -> Transition("available") /\ UNCHANGED holder
       [] state \in {"occupied", "pending_check_in"} ->
            IF cached # NoRes /\ ~ graceOver
              THEN Transition("reserved") /\ UNCHANGED holder
              ELSE Transition("available") /\ ForgetHolder
       [] OTHER -> Stay /\ UNCHANGED holder
  /\ UNCHANGED waiting

-----------------------------------------------------------------------------
LprResultStopsTimer(plate) ==   \* slip: the timer is cancelled before the checks
  /\ state = "pending_check_in"
  /\ cached # NoRes
  /\ CancelTimer
  /\ IF plate = Unreadable THEN Stay
       ELSE Transition(IF plate \in bound THEN "reserved_checked_in" ELSE "conflict")
  /\ UNCHANGED <<holder, present, waiting>>

\* on_lpr_result: the result of some image of the bay, of this visit or not.
LprResult(plate) ==
  /\ state = "pending_check_in"
  /\ cached # NoRes
  /\ IF plate = Unreadable
       THEN Stay /\ UNCHANGED timer
       ELSE /\ Transition(IF plate \in bound THEN "reserved_checked_in" ELSE "conflict")
            /\ CancelTimer
  /\ UNCHANGED <<holder, present, waiting>>

-----------------------------------------------------------------------------
(***************************************************************************)
(* _on_reservation_command.  create names a reservation; the others act on *)
(* whatever is cached, and a command that does not fit the state is        *)
(* ignored.                                                                *)
(***************************************************************************)
CreateCommand(r, plates, late) ==
  /\ state \in {"available", "reserved", "conflict"}
  /\ cached' = r /\ bound' = plates /\ graceOver' = late
  /\ IF state = "conflict"
       THEN Stay /\ UNCHANGED timer
       ELSE Transition("reserved") /\ StartTimer("no_show")
  /\ UNCHANGED <<present, waiting>>

CheckInCommand ==
  /\ state \in {"pending_check_in", "conflict"}
  /\ Transition("reserved_checked_in")
  /\ IF state = "conflict" THEN UNCHANGED timer ELSE CancelTimer
  /\ UNCHANGED <<holder, present, waiting>>

UpdatePlates(plates) ==
  /\ cached # NoRes
  /\ bound' = plates
  /\ UNCHANGED <<cached, graceOver, state, present, timer, waiting, outputs>>

CancelBlindly ==   \* slip: the sensor is not looked at
  /\ Transition("available")
  /\ ForgetHolder
  /\ CancelTimer
  /\ UNCHANGED <<present, waiting>>

\* on_reservation_cancelled: cancel, release and expire_check_in alike.
CancelCommand ==
  /\ Transition(IF present THEN "occupied" ELSE "available")
  /\ ForgetHolder
  /\ CancelTimer
  /\ UNCHANGED <<present, waiting>>

\* A resync request, the Pi's own on connecting included.
ReplayState ==
  /\ reported' = state
  /\ UNCHANGED <<state, holder, present, timer, waiting, led>>

-----------------------------------------------------------------------------
(***************************************************************************)
(* Timers.  The no-show timer runs until the grace of the reservation it   *)
(* was started for; a callback waits at most once (the bound of waiting).  *)
(***************************************************************************)
TimerFires(kind) ==
  /\ timer = kind
  /\ kind = "no_show" => graceOver
  /\ kind \notin waiting
  /\ timer' = "none"
  /\ waiting' = waiting \cup {kind}
  /\ UNCHANGED <<state, holder, present, outputs>>

ManualTimeoutDropsHolder ==   \* slip: cleaned up as after a no-show
  /\ "manual" \in waiting
  /\ waiting' = waiting \ {"manual"}
  /\ IF state = "pending_check_in"
       THEN Transition("conflict") /\ ForgetHolder
       ELSE Stay /\ UNCHANGED holder
  /\ UNCHANGED <<present, timer>>

ManualTimeout ==
  /\ "manual" \in waiting
  /\ waiting' = waiting \ {"manual"}
  /\ IF state = "pending_check_in" THEN Transition("conflict") ELSE Stay
  /\ UNCHANGED <<holder, present, timer>>

NoShowInTheDark ==   \* slip: the LED is not told
  /\ "no_show" \in waiting
  /\ waiting' = waiting \ {"no_show"}
  /\ IF state = "reserved" /\ ~ present
       THEN state' = "available" /\ reported' = "available" /\ ForgetHolder
       ELSE UNCHANGED <<state, reported, holder>>
  /\ UNCHANGED <<present, timer, led>>

NoShowCheck ==
  /\ "no_show" \in waiting
  /\ waiting' = waiting \ {"no_show"}
  /\ IF state = "reserved" /\ ~ present
       THEN Transition("available") /\ ForgetHolder
       ELSE Stay /\ UNCHANGED holder
  /\ UNCHANGED <<present, timer>>

GraceEnds ==
  /\ cached # NoRes
  /\ ~ graceOver
  /\ graceOver' = TRUE
  /\ UNCHANGED <<cached, bound, state, present, timer, waiting, outputs>>

\* The process starts again: nothing is stored, and the sensor's next report
\* is an edge if a vehicle is there.
Restart ==
  /\ state' = "available"
  /\ ForgetHolder
  /\ present' = FALSE
  /\ timer' = "none"
  /\ waiting' = {}
  /\ led' = "none"
  /\ reported' = "none"

-----------------------------------------------------------------------------
Command ==
  \/ \E r \in Reservations, plates \in SUBSET Plates, late \in BOOLEAN :
       CreateCommand(r, plates, late)
  \/ \E plates \in SUBSET Plates : UpdatePlates(plates)
  \/ CheckInCommand
  \/ CancelCommand
  \/ ReplayState

Sensor == VehicleArrived \/ VehicleLeft

Recognition == \E plate \in Plates \cup {Unreadable} : LprResult(plate)

Clock == GraceEnds \/ \E kind \in Timers : TimerFires(kind)

Next == Command \/ Sensor \/ Recognition \/ Clock \/ ManualTimeout \/ NoShowCheck \/ Restart

Spec == Init /\ [][Next]_vars

\* Time passes, timers fire, and a callback gets the lock at last.
Fairness ==
  /\ WF_vars(GraceEnds)
  /\ \A kind \in Timers : WF_vars(TimerFires(kind))
  /\ WF_vars(ManualTimeout)
  /\ WF_vars(NoShowCheck)

FairSpec == Spec /\ Fairness

-----------------------------------------------------------------------------
(***************************************************************************)
(* Properties                                                              *)
(***************************************************************************)

\* The fields of the state machine, and only LED strings the node parses.
TypeOK ==
  /\ state \in BayStates
  /\ cached \in Reservations \cup {NoRes}
  /\ bound \subseteq Plates
  /\ graceOver \in BOOLEAN
  /\ present \in BOOLEAN
  /\ timer \in Timers \cup {"none"}
  /\ waiting \subseteq Timers
  /\ led \in LedCommands \cup {"none"}
  /\ reported \in BayStates \cup {"none"}

\* No command, timeout or recognition, however late, makes the state machine
\* believe in a vehicle that is gone or deny one that is there: the state is an
\* empty one exactly as long as the sensor reports no vehicle.
StateTracksPresence == state \in {"available", "reserved"} <=> ~ present

\* Whoever the bay is kept for, awaited by, occupied by, or kept from, the Pi
\* still knows the reservation: every event it reports in these states names
\* one, and on_lpr_result always finds plates to compare with.
HolderIsCached ==
  state \in {"reserved", "pending_check_in", "reserved_checked_in", "conflict"}
    => cached # NoRes

\* A pending check-in always has its timeout ahead: a timer that runs, or a
\* callback that is about to run.
PendingIsTimed ==
  state = "pending_check_in" => timer = "manual" \/ "manual" \in waiting

\* What the driver sees and what the backend was told last agree with the
\* state, the two timeouts that do without _transition included.
OutputsAgree ==
  /\ led \in {"none", LedOf(state)}
  /\ reported \in {"none", state}

\* An unreadable plate and a holder who does nothing do not keep the bay
\* pending for ever.
PendingEnds == state = "pending_check_in" ~> state # "pending_check_in"

=============================================================================

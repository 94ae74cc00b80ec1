------------------------------ MODULE ParkReserve ------------------------------
(***************************************************************************)
(* Backend and Pi together, about one bay: the commands of Backend reach   *)
(* PiBay and the reports of PiBay reach Backend through the MQTT broker,   *)
(* each direction in the order of publication.                             *)
(*                                                                         *)
(* Both programs connect with a clean session, so that a broken connection *)
(* loses what is on its way to the one that lost it.  What that one        *)
(* publishes meanwhile waits in its own client.  Whoever connects again    *)
(* asks the Pi to report its state.  Nobody sends a command a second time. *)
(***************************************************************************)
EXTENDS Naturals, FiniteSets, Sequences

CONSTANTS
  Bay, Reservations, Cards, CardOf, OpeningBalance, Deposit, Penalty,
  HttpThreads,
  Vehicles,      \* that may come to the bay; a plate is the vehicle's
  VehicleOf,     \* the bound plate of each reservation's holder
  NoVehicle,
  MayFail,       \* the mishaps of this instance
  MaxInFlight    \* messages on their way in one direction

NoRes == 0

ASSUME ReservationsAreNumbered == Reservations \subseteq Nat \ {NoRes}
ASSUME VehiclesTyped ==
  /\ VehicleOf \in [Reservations -> Vehicles]
  /\ NoVehicle \notin Vehicles
  /\ "unreadable" \notin Vehicles   \* what the recognition returns for no plate
ASSUME RoomForReports == MaxInFlight \in Nat /\ MaxInFlight >= 2

VARIABLES
  status, arrival, windowOver, grace, mirror, pointer, conflict, ledger, balance,
  bayEvents, outbox,                                             \* of Backend
  state, cached, bound, graceOver, present, timer, waiting, led, reported, \* of PiBay
  vehicle,       \* what really stands in the bay
  down, up,      \* messages on their way to the Pi, and to the backend
  piLinked, backendLinked,   \* connected to the broker
  mishap,        \* history: what went wrong in transport, at most one thing
  unheard        \* history: each reservation's latest command, if the Pi ignored it

B == INSTANCE Backend WITH
       Bays <- {Bay}, BayOf <- [r \in Reservations |-> Bay], Redelivered <- {}
Pi == INSTANCE PiBay WITH Plates <- Vehicles

backendVars == <<status, arrival, windowOver, grace, mirror, pointer, conflict,
                 ledger, balance, bayEvents, outbox>>
piVars   == <<state, cached, bound, graceOver, present, timer, waiting, led, reported>>
linkVars == <<piLinked, backendLinked>>
vars == <<backendVars, piVars, vehicle, down, up, linkVars, mishap, unheard>>

-----------------------------------------------------------------------------
(***************************************************************************)
(* Faults of the world and races of the two programs.  A behaviour sees at *)
(* most one kind of them, remembered in mishap (a bound of the model).     *)
(*   commands lost    the Pi's connection broke                            *)
(*   reports lost     the backend's connection broke                       *)
(*   command resent   delivered at least once (QoS 1), here twice          *)
(*   stale picture    recognised after its vehicle had gone, or misread    *)
(*   node restarted   it claims an empty bay before it has looked          *)
(*   out of turn      a thread committed while another held its command    *)
(*   misdirected      a message acted on a reservation it does not name    *)
(*   report refused   a constraint aborted its transaction                 *)
(*   stale timeout    a no-show check dropped a later reservation          *)
(*   closed by hand   an admin closed a strong conflict not over yet       *)
(***************************************************************************)
Faults == {"commands lost", "reports lost", "command resent", "Pi restarted",
           "backend crashed", "stale picture", "node restarted"}
Races  == {"out of turn", "misdirected", "report refused", "stale timeout",
           "closed by hand"}

Fails(fault) == fault \in MayFail /\ mishap = "none" /\ mishap' = fault

Lets(race, happens) ==
  IF happens THEN race \in MayFail /\ mishap \in {"none", race} /\ mishap' = race
             ELSE UNCHANGED mishap

Resync  == [action |-> "resync", res |-> NoRes]
State(s) == [topic |-> "state", name |-> s]
Event(e) == [topic |-> "event", name |-> e, res |-> cached]

Goes(channel, messages) == Len(channel) + Len(messages) <= MaxInFlight

\* _publish_state and _publish_event: gone if the backend is not there to hear.
Reports(messages) ==
  /\ Goes(up, messages)
  /\ up' = IF backendLinked THEN up \o messages ELSE up

ReportsState == Reports(<<State(state')>>)
ReportsStateAnd(e) == Reports(<<State(state'), Event(e)>>)
ReportsNothing == UNCHANGED up

-----------------------------------------------------------------------------
Init ==
  /\ B!Init /\ Pi!Init
  /\ vehicle = NoVehicle
  /\ down = <<Resync>> /\ up = <<>>
  /\ piLinked = TRUE /\ backendLinked = TRUE
  /\ mishap = "none"
  /\ unheard = {}

-----------------------------------------------------------------------------
(***************************************************************************)
(* The bay.  The node tells the Pi what it sees within seconds; after a    *)
(* restart of the Pi its next heartbeat is news again.                     *)
(***************************************************************************)
PiOnly == UNCHANGED <<backendVars, down, linkVars, unheard>>

ArrivalWithoutEvent ==   \* slip: only the state is reported
  /\ Pi!VehicleArrived
  /\ IF state' # state THEN ReportsState ELSE ReportsNothing

ArrivalIsSensed ==
  /\ Pi!VehicleArrived
  /\ CASE state = "reserved"  -> ReportsStateAnd("pending_check_in")
       [] state = "available" -> ReportsState
       [] OTHER               -> ReportsNothing

VehicleComes(v) ==
  /\ vehicle = NoVehicle /\ ~ present
  /\ vehicle' = v
  /\ ArrivalIsSensed
  /\ PiOnly /\ UNCHANGED mishap

VehicleIsSensedAgain ==
  /\ vehicle # NoVehicle
  /\ ArrivalIsSensed
  /\ PiOnly /\ UNCHANGED <<vehicle, mishap>>

DepartureWhenOver ==   \* slip: only an empty bay is worth a report
  /\ Pi!VehicleLeft
  /\ IF state' = "available" THEN ReportsState ELSE ReportsNothing

DepartureIsSensed ==
  /\ Pi!VehicleLeft
  /\ IF state' # state THEN ReportsState ELSE ReportsNothing

VehicleGoes ==
  /\ vehicle # NoVehicle
  /\ vehicle' = NoVehicle
  /\ DepartureIsSensed \/ (~ present /\ UNCHANGED <<piVars, up>>)
  /\ PiOnly /\ UNCHANGED mishap

\* Its heartbeat reports the status it starts with, then what it sees.
NodeRestarts ==
  /\ vehicle # NoVehicle
  /\ Fails("node restarted")
  /\ DepartureIsSensed
  /\ PiOnly /\ UNCHANGED vehicle

\* _on_image_received: what the picture shows need not stand there any more by
\* the time the executor is done with it.
Recognition ==
  \E plate \in Vehicles \cup {Pi!Unreadable} :
    /\ Pi!LprResult(plate)
    /\ IF plate \in {vehicle, Pi!Unreadable} THEN UNCHANGED mishap ELSE Fails("stale picture")
    /\ CASE plate = Pi!Unreadable -> ReportsNothing
         [] plate \in bound       -> ReportsStateAnd("auto_check_in")
         [] OTHER                 -> ReportsStateAnd("conflict_strong")
    /\ PiOnly /\ UNCHANGED vehicle

\* A no-show check that had to wait may drop a reservation that is not its own.
PiTimeout ==
  /\ \/ Pi!ManualTimeout /\ UNCHANGED mishap
     \/ Pi!NoShowCheck /\ Lets("stale timeout", cached' # cached /\ ~ graceOver)
  /\ IF state' # state THEN ReportsState ELSE ReportsNothing
  /\ PiOnly /\ UNCHANGED vehicle

\* The Pi's graces are ten times the backend's and start with the same times.
PiClock ==
  /\ \/ Pi!GraceEnds /\ (B!Awaited(cached) => arrival[cached] = "overdue")
     \/ Pi!TimerFires("no_show")
     \/ Pi!TimerFires("manual") /\ \A r \in Reservations :
                                     status[r] = "pending_check_in" => grace[r] # "running"
  /\ PiOnly /\ UNCHANGED <<vehicle, up, mishap>>

-----------------------------------------------------------------------------
(***************************************************************************)
(* _on_cloud_message: the Pi takes the next message.                       *)
(***************************************************************************)
PiAccepts(m) ==
  CASE m.action = "resync" -> Pi!ReplayState /\ ReportsState
    [] m.action = "create"   ->
         /\ Pi!CreateCommand(m.res, {VehicleOf[m.res]}, arrival[m.res] = "overdue" /\ graceOver)
         /\ IF state = "conflict" THEN ReportsNothing ELSE ReportsState
    [] m.action = "check_in" ->
         /\ Pi!CheckInCommand
         /\ IF state = "conflict" THEN ReportsState ELSE ReportsStateAnd("check_in_confirmed")
    [] OTHER                 -> Pi!CancelCommand /\ ReportsState

PiIgnores(m) ==
  \/ m.action = "create" /\ state \notin {"available", "reserved", "conflict"}
  \/ m.action = "check_in" /\ state \notin {"pending_check_in", "conflict"}

PiTakes ==
  /\ piLinked /\ backendLinked /\ down # <<>>
  /\ LET m == Head(down) IN
       /\ \/ PiAccepts(m)
          \/ PiIgnores(m) /\ UNCHANGED <<piVars, up>>
       /\ Lets("misdirected", cached # NoRes /\ m.res \notin {NoRes, cached} /\ cached' # m.res)
       /\ unheard' = {c \in unheard : c.res # m.res} \cup (IF PiIgnores(m) THEN {m} ELSE {})
  /\ down' = Tail(down)
  /\ UNCHANGED <<backendVars, vehicle, linkVars>>

-----------------------------------------------------------------------------
(***************************************************************************)
(* The backend's steps.  Commands are published in the order in which the  *)
(* threads get to it, so two that are in hand at once may swap: out of     *)
(* turn.                                                                   *)
(***************************************************************************)
KeepsTurn == Lets("out of turn", outbox' # outbox /\ \E t \in B!Threads : ~ B!Idle(t))

BackendOnly == UNCHANGED <<piVars, vehicle, linkVars, unheard>>

Requested(t) ==
  \E r \in Reservations :
    B!Create(t, r, "late") \/ B!CancelNoFault(t, r) \/ B!Cancel(t, r) \/ B!CheckIn(t, r)

RequestOrSweep ==
  /\ \/ \E t \in HttpThreads : Requested(t)
     \/ \E r \in Reservations : B!Sweep(r)
  /\ KeepsTurn
  /\ BackendOnly
  /\ UNCHANGED <<down, up>>

CloseConflict ==
  /\ \E t \in HttpThreads : B!ResolveConflict(t, Bay)
  /\ Lets("closed by hand", conflict[Bay].kind = "strong")
  /\ BackendOnly
  /\ UNCHANGED <<down, up>>

Tick ==
  /\ \E r \in Reservations : B!ArrivalNears(r) \/ B!GraceExpires(r)
  /\ BackendOnly
  /\ UNCHANGED <<down, up, mishap>>

Publish ==
  /\ \E t \in B!Threads :
       /\ B!Publish(t)
       /\ Goes(down, <<outbox[t]>>)
       /\ down' = IF piLinked THEN Append(down, outbox[t]) ELSE down
  /\ BackendOnly
  /\ UNCHANGED <<up, mishap>>

HandleEvent(e) ==
  CASE e = "pending_check_in"   -> B!PendingCheckIn(Bay, B!Once, "running")
    [] e = "auto_check_in"      -> B!AutoCheckIn(Bay, B!Once)
    [] e = "check_in_confirmed" -> B!CheckInConfirmed(Bay, B!Once)
    [] e = "conflict_strong"    -> B!ConflictStrong(Bay, B!Once)

Handle(m) ==
  IF m.topic = "state" THEN B!ApplyState(Bay, m.name, B!Once) ELSE HandleEvent(m.name)

\* A constraint or a query that expects one row aborts the transaction: the
\* report is gone.
Refuses(m) ==
  \/ /\ m.topic = "state" /\ m.name # mirror[Bay]
     /\ IF B!StrongRestores(Bay, m.name)
          THEN LET r == conflict[Bay].res IN
               B!Awaited(r) /\ B!Missed(r) /\ windowOver[r]
          ELSE Cardinality(B!Completable(Bay, m.name)) > 1
  \/ m.name = "conflict_strong" /\ conflict[Bay] # B!NoConflict

\* The mirror shows it already, or no reservation is in a status to be moved.
Shrugs(m) ==
  \/ m.topic = "state" /\ m.name = mirror[Bay]
  \/ /\ m.name \in {"pending_check_in", "auto_check_in", "check_in_confirmed"}
     /\ m.topic = "event"
     /\ \A r \in B!OpenReservation(Bay) :
          status[r] \notin {"active", "pending_check_in"}
            \cup (IF m.name = "check_in_confirmed" THEN {"checked_in"} ELSE {})

\* The handler looks up the bay's latest reservation instead of the one named.
Misdirected(m) ==
  /\ m.topic = "event"
  /\ \/ \E r \in Reservations \ {m.res} : status'[r] # status[r]
     \/ conflict'[Bay].res \notin {conflict[Bay].res, NoRes, m.res}

BackendTakes ==
  /\ piLinked /\ backendLinked /\ up # <<>>
  /\ B!Idle("mqtt")
  /\ LET m == Head(up) IN
       \/ Handle(m) /\ ~ Misdirected(m) /\ KeepsTurn
       \/ Handle(m) /\ Misdirected(m) /\ Lets("misdirected", TRUE)
       \/ Shrugs(m) /\ UNCHANGED <<backendVars, mishap>>
       \/ Refuses(m) /\ UNCHANGED backendVars /\ Lets("report refused", TRUE)
  /\ up' = Tail(up)
  /\ BackendOnly
  /\ UNCHANGED down

-----------------------------------------------------------------------------
(***************************************************************************)
(* Transport.                                                              *)
(***************************************************************************)
PiLinkBreaks ==
  /\ Fails("commands lost")
  /\ piLinked' = FALSE
  /\ down' = <<>>
  /\ UNCHANGED <<backendVars, piVars, vehicle, up, backendLinked, unheard>>

\* paho sends again what it has no acknowledgement for.
CommandIsResent ==
  /\ piLinked /\ down # <<>>
  /\ Fails("command resent")
  /\ Goes(down, down)
  /\ down' = down \o down
  /\ UNCHANGED <<backendVars, piVars, vehicle, up, linkVars, unheard>>

PiRestarts ==
  /\ Fails("Pi restarted")
  /\ Pi!Restart
  /\ piLinked' = FALSE
  /\ down' = <<>>
  /\ up' \in {up, <<>>}
  /\ UNCHANGED <<backendVars, vehicle, backendLinked, unheard>>

PiConnectsSilently ==   \* slip: no resync request
  /\ ~ piLinked
  /\ piLinked' = TRUE
  /\ UNCHANGED <<backendVars, piVars, vehicle, down, up, backendLinked, mishap, unheard>>

PiConnects ==
  /\ ~ piLinked
  /\ piLinked' = TRUE
  /\ down' = <<Resync>>
  /\ UNCHANGED <<backendVars, piVars, vehicle, up, backendLinked, mishap, unheard>>

BackendLinkBreaks ==
  /\ Fails("reports lost")
  /\ backendLinked' = FALSE
  /\ up' = <<>>
  /\ UNCHANGED <<backendVars, piVars, vehicle, down, piLinked, unheard>>

BackendCrashes ==
  /\ Fails("backend crashed")
  /\ B!Crash
  /\ backendLinked' = FALSE
  /\ up' = <<>>
  /\ UNCHANGED <<piVars, vehicle, down, piLinked, unheard>>

BackendConnects ==
  /\ ~ backendLinked
  /\ Goes(down, <<Resync>>)
  /\ backendLinked' = TRUE
  /\ down' = Append(down, Resync)
  /\ UNCHANGED <<backendVars, piVars, vehicle, up, piLinked, mishap, unheard>>

-----------------------------------------------------------------------------
Next ==
  \/ \E v \in Vehicles : VehicleComes(v)
  \/ VehicleIsSensedAgain \/ VehicleGoes \/ NodeRestarts
  \/ Recognition \/ PiTimeout \/ PiClock \/ PiTakes
  \/ RequestOrSweep \/ CloseConflict \/ Tick \/ Publish \/ BackendTakes
  \/ PiLinkBreaks \/ CommandIsResent \/ PiRestarts \/ PiConnects
  \/ BackendLinkBreaks \/ BackendCrashes \/ BackendConnects

Spec == Init /\ [][Next]_vars

-----------------------------------------------------------------------------
(***************************************************************************)
(* Properties                                                              *)
(***************************************************************************)

\* Nothing is on its way and the Pi sees what stands in the bay.
Quiet ==
  /\ down = <<>> /\ up = <<>> /\ waiting = {}
  /\ piLinked /\ backendLinked
  /\ \A t \in B!Threads : B!Idle(t)
  /\ present <=> vehicle # NoVehicle

Heard(r) == \A c \in unheard : c.res # r

AllWell == mishap \in {"none", "command resent"}

\* Whatever was lost, delayed, resent or misdirected and whoever restarted, the
\* mirror and the Pi agree again as soon as every message has been taken.  Two
\* things keep them apart: a report that a constraint refused, and a command
\* for a reservation not over yet that the Pi ignored for its state.
MirrorAgrees ==
  Quiet /\ mishap # "report refused"
        /\ (\A r \in Reservations : status[r] \in B!LiveStatuses => Heard(r))
    => mirror[Bay] = state

\* As long as no mishap comes in between, whoever the backend awaits the Pi
\* awaits too, so that the right vehicle is let in and a wrong one is noticed,
\* however bookings, cancellations, sweeps and vehicles interleave.
HolderIsExpected ==
  Quiet /\ AllWell =>
    \A r \in Reservations : B!Awaited(r) /\ Heard(r) /\ arrival[r] # "overdue" =>
      cached = r /\ state \notin {"available", "occupied"}

\* And the Pi does not keep the bay for somebody whose reservation is over.
NoGhostHolder ==
  Quiet /\ AllWell /\ cached # NoRes => status[cached] \in B!LiveStatuses

\* No holder pays for a no-show whose own vehicle stands in the bay, seen by
\* the Pi and with every report of it taken.
ParkedHolderIsNoNoShow ==
  [][\A r \in Reservations :
       Quiet /\ AllWell /\ Heard(r) /\ cached = r /\ vehicle = VehicleOf[r] =>
         ledger'[r]["penalty:no_show"] = ledger[r]["penalty:no_show"]]_vars

-----------------------------------------------------------------------------
(***************************************************************************)
(* What the repository says of the program and the program does not do.    *)
(***************************************************************************)

\* doc/backend/pi-side-change-notes.md:329: after a weak conflict "the vehicle
\* eventually leaves; bay returns to `available`; reservation completes as
\* `COMPLETED`".  So no reservation is left in conflict once the bay is empty
\* and everybody knows.
WeakConflictCompletes ==
  Quiet /\ AllWell /\ vehicle = NoVehicle =>
    \A r \in Reservations : status[r] # "in_conflict"

=============================================================================

-------------------------------- MODULE Backend --------------------------------
(***************************************************************************)
(* The ParkReserve backend: the reservations, parking_bays, conflicts,     *)
(* payments, mock_cards and bay_events tables, the service handlers that   *)
(* write them, the 30 s sweeper, and the command each handler publishes to *)
(* the Pi after its commit.                                                *)
(*                                                                         *)
(* Every handler is one transaction and one action.  The commit and the    *)
(* publication that follows it are two steps: a thread that has committed  *)
(* holds its command in outbox until Publish hands it to the broker, and a *)
(* crash in between loses it.                                              *)
(*                                                                         *)
(* The environment is any Pi: an MQTT message of the schema in any state,  *)
(* in any order, and, for the messages of Redelivered, any number of times.*)
(***************************************************************************)
EXTENDS Payments, Integers, FiniteSets

CONSTANTS
  Bays,
  Reservations,   \* rows that may ever be booked, numbered in booking order
  BayOf,          \* the bay each of them is booked on
  Cards,
  CardOf,         \* the card each of them is paid with
  OpeningBalance, \* of every card
  HttpThreads,    \* request workers; one MQTT and one scheduler thread exist
  Redelivered     \* messages <<bay, topic, name>> that may come more than once

NoRes == 0

ASSUME ReservationsAreNumbered == Reservations \subseteq Nat \ {NoRes}
ASSUME PlacesTyped == BayOf \in [Reservations -> Bays]
ASSUME CardsTyped  == CardOf \in [Reservations -> Cards] /\ OpeningBalance \in Nat
ASSUME ThreadsDiffer == "mqtt" \notin HttpThreads /\ "sweeper" \notin HttpThreads

VARIABLES
  status,      \* reservations.status, "none" before the row exists
  arrival,     \* where now stands against expected_arrival_time
  windowOver,  \* now is more than an hour after booked_at
  grace,       \* where now stands against check_in_grace_expires_at
  mirror,      \* parking_bays.state
  pointer,     \* parking_bays.current_reservation_id
  conflict,    \* the unresolved conflicts row of the bay
  ledger,      \* payments
  balance,     \* mock_cards.balance_cents
  bayEvents,   \* the source_event_ids recorded in bay_events
  outbox       \* per thread, the command committed but not yet published

reservationVars == <<status, arrival, windowOver, grace>>
bayVars         == <<mirror, pointer>>
moneyVars       == <<ledger, balance>>
vars == <<reservationVars, bayVars, conflict, moneyVars, bayEvents, outbox>>

-----------------------------------------------------------------------------
OpenStatuses     == {"active", "pending_check_in", "checked_in"}
LiveStatuses     == OpenStatuses \cup {"in_conflict"}
TerminalStatuses == {"cancelled", "cancelled_late", "completed", "expired_no_show"}
Statuses         == {"none"} \cup LiveStatuses \cup TerminalStatuses

\* early: at least the late-cancel cutoff away; late: inside the cutoff;
\* due: past the arrival time but inside the grace; overdue: past the grace.
Arrivals == {"early", "late", "due", "overdue"}
Graces   == {"none", "running", "expired"}

BayStates == {"available", "reserved", "occupied", "pending_check_in",
              "reserved_checked_in", "conflict", "offline"}
HolderOwnedBayStates == {"reserved", "pending_check_in", "reserved_checked_in"}

Conflicts  == [kind : {"none", "strong", "weak"}, res : Reservations \cup {NoRes}]
NoConflict == [kind |-> "none", res |-> NoRes]

Threads   == HttpThreads \cup {"mqtt", "sweeper"}
Actions   == {"create", "cancel", "check_in", "release", "expire_check_in"}
Commands  == [action : Actions, res : Reservations]
NoCommand == [action |-> "none", res |-> NoRes]

\* A message that may be redelivered is its own source_event_id, the sweeper's
\* uuid5 is the pair it is made of, and Once stands for the id of any message
\* that is delivered a single time and so is never looked up again.
SweepIds == Reservations \X {"no_show", "conflict_weak"}
AllIds   == Redelivered \cup SweepIds
Once     == <<"once">>

-----------------------------------------------------------------------------
OnBay(b) == {r \in Reservations : BayOf[r] = b}

\* reservations_one_open_per_bay: r may enter an open status.
IndexAdmits(r) ==
  \A s \in OnBay(BayOf[r]) \ {r} : status[s] \notin OpenStatuses

\* event_dispatcher._open_reservation: the latest booked live one, if any.
OpenReservation(b) ==
  {r \in OnBay(b) : /\ status[r] \in LiveStatuses
                    /\ \A s \in OnBay(b) : status[s] \in LiveStatuses => s <= r}

OpenConflictOf(r, kind) == conflict[BayOf[r]] = [kind |-> kind, res |-> r]

Idle(t)              == outbox[t] = NoCommand
Sends(t, action, r)  == outbox' = [outbox EXCEPT ![t] = [action |-> action, res |-> r]]

\* event_service.record and already_processed.
Record(id) == bayEvents' = bayEvents \cup ({id} \cap AllIds)
IsReplay(id) == id \in bayEvents

\* Writes r's payments and moves on its card what the new rows return.
PaysTakingTwice(r, l) ==   \* slip: the card is debited again
  /\ ledger' = [ledger EXCEPT ![r] = l]
  /\ balance' = [balance EXCEPT ![CardOf[r]] =
                   @ - (Returned(l) - Returned(ledger[r]))]

Pays(r, l) ==
  /\ ledger' = [ledger EXCEPT ![r] = l]
  /\ balance' = [balance EXCEPT ![CardOf[r]] =
                   @ + (Returned(l) - Returned(ledger[r]))]

ClearPointerOfBay(r) == pointer' = [pointer EXCEPT ![BayOf[r]] = NoRes]   \* slip

ClearPointer(r) ==
  pointer' = [pointer EXCEPT ![BayOf[r]] = IF @ = r THEN NoRes ELSE @]

\* Hand the bay back if its mirror is in one of the given states.
FreeBay(b, held) ==
  mirror' = [mirror EXCEPT ![b] = IF @ \in held THEN "available" ELSE @]

-----------------------------------------------------------------------------
Init ==
  /\ status = [r \in Reservations |-> "none"]
  /\ arrival = [r \in Reservations |-> "early"]
  /\ windowOver = [r \in Reservations |-> FALSE]
  /\ grace = [r \in Reservations |-> "none"]
  /\ mirror = [b \in Bays |-> "offline"]
  /\ pointer = [b \in Bays |-> NoRes]
  /\ conflict = [b \in Bays |-> NoConflict]
  /\ ledger = [r \in Reservations |-> NoRows]
  /\ balance = [c \in Cards |-> OpeningBalance]
  /\ bayEvents = {}
  /\ outbox = [t \in Threads |-> NoCommand]

-----------------------------------------------------------------------------
(***************************************************************************)
(* reservation_service.py: the REST handlers, run by an HTTP thread.       *)
(* A rejected request changes nothing and is not a step.                   *)
(***************************************************************************)
Create(t, r, a) ==
  LET b == BayOf[r] IN
  /\ Idle(t)
  /\ status[r] = "none"
  /\ \A s \in OnBay(b) : s < r => status[s] # "none"
  /\ mirror[b] \notin {"offline", "occupied", "conflict"}
  /\ balance[CardOf[r]] >= Deposit
  /\ IndexAdmits(r)
  /\ status' = [status EXCEPT ![r] = "active"]
  /\ arrival' = [arrival EXCEPT ![r] = a]
  /\ ledger' = [ledger EXCEPT ![r] = Preauthorize(@)]
  /\ balance' = [balance EXCEPT ![CardOf[r]] = @ - Deposit]
  /\ pointer' = [pointer EXCEPT ![b] = r]
  /\ mirror' = [mirror EXCEPT ![b] = "reserved"]
  /\ Sends(t, "create", r)
  /\ UNCHANGED <<windowOver, grace, conflict, bayEvents>>

CancellableLive(r) == status[r] \in LiveStatuses   \* slip: in_conflict too
Cancellable(r)     == status[r] \in {"active", "pending_check_in"}

\* The victim branch: full refund, and the bay stays as the Pi reported it.
CancelNoFault(t, r) ==
  /\ Idle(t)
  /\ Cancellable(r)
  /\ OpenConflictOf(r, "strong")
  /\ conflict' = [conflict EXCEPT ![BayOf[r]] = NoConflict]
  /\ status' = [status EXCEPT ![r] = "cancelled"]
  /\ ClearPointer(r)
  /\ Pays(r, PayBack(ledger[r], "refund"))
  /\ Sends(t, "release", r)
  /\ UNCHANGED <<arrival, windowOver, grace, mirror, bayEvents>>

Cancel(t, r) ==
  LET isLate == arrival[r] # "early" IN
  /\ Idle(t)
  /\ Cancellable(r)
  /\ ~ OpenConflictOf(r, "strong")
  /\ status' = [status EXCEPT ![r] = IF isLate THEN "cancelled_late" ELSE "cancelled"]
  /\ ClearPointer(r)
  /\ FreeBay(BayOf[r], {"reserved", "pending_check_in"})
  /\ Pays(r, IF isLate THEN SettleBreach(ledger[r], "penalty:late_cancel")
                       ELSE PayBack(ledger[r], "release:clean_cancel"))
  /\ Sends(t, "cancel", r)
  /\ UNCHANGED <<arrival, windowOver, grace, conflict, bayEvents>>

MayCheckInByConflict(r) ==   \* slip: the open weak conflict is enough
  status[r] = "pending_check_in" \/ OpenConflictOf(r, "weak")

MayCheckIn(r) ==
  \/ status[r] = "pending_check_in"
  \/ status[r] = "in_conflict" /\ OpenConflictOf(r, "weak")

\* A check-in out of a weak conflict resolves it, and may run into the index.
CheckIn(t, r) ==
  LET b == BayOf[r] IN
  /\ Idle(t)
  /\ MayCheckIn(r)
  /\ IndexAdmits(r)
  /\ conflict' = [conflict EXCEPT ![b] =
                    IF status[r] = "in_conflict" THEN NoConflict ELSE @]
  /\ status' = [status EXCEPT ![r] = "checked_in"]
  /\ mirror' = [mirror EXCEPT ![b] = "reserved_checked_in"]
  /\ Sends(t, "check_in", r)
  /\ UNCHANGED <<arrival, windowOver, grace, pointer, moneyVars, bayEvents>>

AdminTerminate(t, r) ==
  LET b == BayOf[r]
      owned == HolderOwnedBayStates
                 \cup (IF OpenConflictOf(r, "weak") THEN {"conflict"} ELSE {})
  IN
  /\ Idle(t)
  /\ status[r] \in LiveStatuses
  /\ conflict' = [conflict EXCEPT ![b] = IF @.res = r THEN NoConflict ELSE @]
  /\ status' = [status EXCEPT ![r] = "cancelled"]
  /\ ClearPointer(r)
  /\ FreeBay(b, owned)
  /\ Pays(r, PayBack(ledger[r], "refund"))
  /\ Sends(t, "release", r)
  /\ UNCHANGED <<arrival, windowOver, grace, bayEvents>>

\* admin_terminate of a reservation that is over, but whose conflict is open.
AdminCleansUpConflict(t, r) ==
  /\ Idle(t)
  /\ status[r] \in TerminalStatuses
  /\ conflict[BayOf[r]].res = r
  /\ conflict' = [conflict EXCEPT ![BayOf[r]] = NoConflict]
  /\ UNCHANGED <<reservationVars, bayVars, moneyVars, bayEvents, outbox>>

\* POST /conflicts/<id>/resolve closes the row and touches nothing else.
ResolveConflict(t, b) ==
  /\ Idle(t)
  /\ conflict[b] # NoConflict
  /\ conflict' = [conflict EXCEPT ![b] = NoConflict]
  /\ UNCHANGED <<reservationVars, bayVars, moneyVars, bayEvents, outbox>>

-----------------------------------------------------------------------------
(***************************************************************************)
(* bay_service.apply_state: the Pi reports state s.  A report of the       *)
(* state the mirror already shows, and a replayed one, change nothing.     *)
(* Otherwise the mirror follows and the first of restore, rollback and     *)
(* completion that applies decides what it means for the reservation.      *)
(***************************************************************************)
ReportsChange(b, s, id) == Idle("mqtt") /\ s # mirror[b] /\ ~ IsReplay(id)

\* The wrong vehicle of a strong conflict left an unfinished reservation.
StrongRestores(b, s) ==
  /\ mirror[b] = "conflict"
  /\ s \in {"available", "reserved", "reserved_checked_in"}
  /\ conflict[b].kind = "strong"
  /\ conflict[b].res # NoRes
  /\ status[conflict[b].res] \in OpenStatuses

\* Postponing a missed arrival to now violates the CHECK constraint
\* reservations_booking_window once booked_at is over an hour ago, and then
\* the whole transaction fails.
Missed(r) == arrival[r] \in {"due", "overdue"}

RestoreAfterStrongConflict(b, s, id) ==
  LET r == conflict[b].res IN
  /\ ReportsChange(b, s, id)
  /\ StrongRestores(b, s)
  /\ conflict' = [conflict EXCEPT ![b] = NoConflict]
  /\ \/ /\ status[r] \in {"active", "pending_check_in"}
        /\ Missed(r) => ~ windowOver[r]
        /\ status' = [status EXCEPT ![r] = "active"]
        /\ grace' = [grace EXCEPT ![r] = IF status[r] = "active" THEN @ ELSE "none"]
        /\ arrival' = [arrival EXCEPT ![r] = IF Missed(r) THEN "due" ELSE @]
        /\ mirror' = [mirror EXCEPT ![b] = "reserved"]
        /\ Sends("mqtt", "create", r)
     \/ /\ status[r] = "checked_in"
        /\ mirror' = [mirror EXCEPT ![b] = "reserved_checked_in"]
        /\ Sends("mqtt", "check_in", r)
        /\ UNCHANGED <<status, grace, arrival>>
  /\ Record(id)
  /\ UNCHANGED <<windowOver, pointer, moneyVars>>

PendingRollsBack(b, s, r) ==
  /\ mirror[b] = "pending_check_in"
  /\ s = "reserved"
  /\ r \in OnBay(b)
  /\ status[r] = "pending_check_in"

RollbackPendingCheckIn(b, s, r, id) ==
  /\ ReportsChange(b, s, id)
  /\ PendingRollsBack(b, s, r)
  /\ status' = [status EXCEPT ![r] = "active"]
  /\ grace' = [grace EXCEPT ![r] = "none"]
  /\ mirror' = [mirror EXCEPT ![b] = s]
  /\ Record(id)
  /\ Sends("mqtt", "create", r)
  /\ UNCHANGED <<arrival, windowOver, pointer, conflict, moneyVars>>

\* The rows the completion query selects; two of them make scalar_one_or_none
\* raise, and the report is lost.
Completable(b, s) ==
  {r \in OnBay(b) :
     /\ s = "available"
     /\ mirror[b] \in {"reserved_checked_in", "pending_check_in", "conflict"}
     /\ status[r] \in {"checked_in", "pending_check_in", "in_conflict"}}

CompleteReservation(b, s, r, id) ==
  /\ ReportsChange(b, s, id)
  /\ ~ StrongRestores(b, s)
  /\ Completable(b, s) = {r}
  /\ status' = [status EXCEPT ![r] = "completed"]
  /\ ClearPointer(r)
  /\ mirror' = [mirror EXCEPT ![b] = s]
  /\ Pays(r, PayBack(ledger[r], "release:completed"))
  /\ Record(id)
  /\ Sends("mqtt", "release", r)
  /\ UNCHANGED <<arrival, windowOver, grace, conflict>>

MirrorOnly(b, s, id) ==
  /\ ReportsChange(b, s, id)
  /\ ~ StrongRestores(b, s)
  /\ \A r \in Reservations : ~ PendingRollsBack(b, s, r)
  /\ Completable(b, s) = {}
  /\ mirror' = [mirror EXCEPT ![b] = s]
  /\ Record(id)
  /\ UNCHANGED <<reservationVars, pointer, conflict, moneyVars, outbox>>

ApplyState(b, s, id) ==
  \/ RestoreAfterStrongConflict(b, s, id)
  \/ \E r \in Reservations : RollbackPendingCheckIn(b, s, r, id)
  \/ \E r \in Reservations : CompleteReservation(b, s, r, id)
  \/ MirrorOnly(b, s, id)

-----------------------------------------------------------------------------
(***************************************************************************)
(* event_dispatcher.py: events of the Pi.  They name a reservation, but    *)
(* every handler takes the bay's latest live one instead.                  *)
(***************************************************************************)
SensorOnline(b, id) ==
  /\ Idle("mqtt")
  /\ FreeBay(b, {"offline"})
  /\ Record(id)
  /\ UNCHANGED <<reservationVars, pointer, conflict, moneyVars, outbox>>

SensorOffline(b, id) ==
  /\ Idle("mqtt")
  /\ mirror' = [mirror EXCEPT ![b] = "offline"]
  /\ Record(id)
  /\ UNCHANGED <<reservationVars, pointer, conflict, moneyVars, outbox>>

\* The grace runs from the Pi's timestamp: a late message finds it over.
PendingCheckIn(b, id, g) ==
  /\ Idle("mqtt")
  /\ ~ IsReplay(id)
  /\ \E r \in OpenReservation(b) :
       /\ status[r] \in {"active", "pending_check_in"}
       /\ status' = [status EXCEPT ![r] = "pending_check_in"]
       /\ grace' = [grace EXCEPT ![r] = g]
  /\ mirror' = [mirror EXCEPT ![b] = "pending_check_in"]
  /\ Record(id)
  /\ UNCHANGED <<arrival, windowOver, pointer, conflict, moneyVars, outbox>>

AutoCheckIn(b, id) ==
  /\ Idle("mqtt")
  /\ ~ IsReplay(id)
  /\ \E r \in OpenReservation(b) :
       /\ status[r] \in {"active", "pending_check_in"}
       /\ status' = [status EXCEPT ![r] = "checked_in"]
  /\ mirror' = [mirror EXCEPT ![b] = "reserved_checked_in"]
  /\ Record(id)
  /\ UNCHANGED <<arrival, windowOver, grace, pointer, conflict, moneyVars, outbox>>

\* The one reservation handler that never asks whether the id is a replay.
CheckInConfirmed(b, id) ==
  /\ Idle("mqtt")
  /\ \E r \in OpenReservation(b) :
       \/ status[r] = "checked_in" /\ UNCHANGED <<status, mirror>>
       \/ /\ status[r] \in {"active", "pending_check_in"}
          /\ status' = [status EXCEPT ![r] = "checked_in"]
          /\ mirror' = [mirror EXCEPT ![b] = "reserved_checked_in"]
  /\ Record(id)
  /\ UNCHANGED <<arrival, windowOver, grace, pointer, conflict, moneyVars, outbox>>

\* conflicts_one_open_per_bay refuses a second open row: the event is lost.
ConflictStrong(b, id) ==
  LET open == OpenReservation(b) IN
  /\ Idle("mqtt")
  /\ ~ IsReplay(id)
  /\ conflict[b] = NoConflict
  /\ \E res \in IF open = {} THEN {NoRes} ELSE open :
       conflict' = [conflict EXCEPT ![b] = [kind |-> "strong", res |-> res]]
  /\ status' = [r \in Reservations |->
                  IF r \in open /\ status[r] = "pending_check_in"
                    THEN "active" ELSE status[r]]
  /\ grace' = [r \in Reservations |->
                 IF r \in open /\ status[r] = "pending_check_in"
                   THEN "none" ELSE grace[r]]
  /\ mirror' = [mirror EXCEPT ![b] = "conflict"]
  /\ Record(id)
  /\ UNCHANGED <<arrival, windowOver, pointer, moneyVars, outbox>>

-----------------------------------------------------------------------------
(***************************************************************************)
(* reconcile_reservations.run_once: the sweeper synthesises a no_show for  *)
(* an overdue reservation whose bay is not in conflict, a conflict_weak    *)
(* for a pending one past its grace, and dispatches each by bay.           *)
(***************************************************************************)
SweptInConflict(r) ==   \* slip: the bay's state is not looked at
  status[r] = "active" /\ arrival[r] = "overdue"

SweptForNoShow(r) ==
  /\ status[r] = "active"
  /\ arrival[r] = "overdue"
  /\ mirror[BayOf[r]] # "conflict"

NoShowUnannounced(b, r) ==   \* slip: nothing is published
  /\ r \in OpenReservation(b)
  /\ status[r] \in {"active", "pending_check_in"}
  /\ status' = [status EXCEPT ![r] = "expired_no_show"]
  /\ ClearPointer(r)
  /\ FreeBay(b, {"reserved", "pending_check_in"})
  /\ Pays(r, SettleBreach(ledger[r], "penalty:no_show"))
  /\ UNCHANGED <<arrival, windowOver, grace, conflict, outbox>>

NoShow(b, r) ==
  /\ r \in OpenReservation(b)
  /\ status[r] \in {"active", "pending_check_in"}
  /\ status' = [status EXCEPT ![r] = "expired_no_show"]
  /\ ClearPointer(r)
  /\ FreeBay(b, {"reserved", "pending_check_in"})
  /\ Pays(r, SettleBreach(ledger[r], "penalty:no_show"))
  /\ Sends("sweeper", "release", r)
  /\ UNCHANGED <<arrival, windowOver, grace, conflict>>

SweepNoShowMarkedFirst(r) ==   \* slip: recorded before the bay is looked at
  /\ Idle("sweeper")
  /\ SweptInConflict(r)
  /\ ~ IsReplay(<<r, "no_show">>)
  /\ IF mirror[BayOf[r]] = "conflict"
       THEN UNCHANGED <<reservationVars, bayVars, conflict, moneyVars, outbox>>
       ELSE \E q \in Reservations : NoShow(BayOf[r], q)
  /\ Record(<<r, "no_show">>)

SweepNoShow(r) ==
  /\ Idle("sweeper")
  /\ SweptForNoShow(r)
  /\ ~ IsReplay(<<r, "no_show">>)
  /\ \E q \in Reservations : NoShow(BayOf[r], q)
  /\ Record(<<r, "no_show">>)

\* The swept reservation is pending, hence the bay's latest live one, so the
\* handler's branch for a reservation in another status cannot be reached.
ConflictWeak(b, r) ==
  /\ r \in OpenReservation(b)
  /\ conflict[b] = NoConflict
  /\ conflict' = [conflict EXCEPT ![b] = [kind |-> "weak", res |-> r]]
  /\ status[r] \in {"active", "pending_check_in"}
  /\ status' = [status EXCEPT ![r] = "in_conflict"]
  /\ Pays(r, SettleBreach(ledger[r], "penalty:weak_conflict"))
  /\ mirror' = [mirror EXCEPT ![b] = "conflict"]
  /\ Sends("sweeper", "expire_check_in", r)
  /\ UNCHANGED <<arrival, windowOver, grace, pointer>>

SweepConflictWeak(r) ==
  LET b == BayOf[r] IN
  /\ Idle("sweeper")
  /\ status[r] = "pending_check_in"
  /\ grace[r] = "expired"
  /\ ~ IsReplay(<<r, "conflict_weak">>)
  /\ \E q \in Reservations : ConflictWeak(b, q)
  /\ Record(<<r, "conflict_weak">>)

-----------------------------------------------------------------------------
\* mqtt_publisher: the thread hands its command over after the commit.
Publish(t) ==
  /\ ~ Idle(t)
  /\ outbox' = [outbox EXCEPT ![t] = NoCommand]
  /\ UNCHANGED <<reservationVars, bayVars, conflict, moneyVars, bayEvents>>

\* The process dies: what was committed stays, what was to be published is lost.
Crash ==
  /\ \E t \in Threads : ~ Idle(t)
  /\ outbox' = [t \in Threads |-> NoCommand]
  /\ UNCHANGED <<reservationVars, bayVars, conflict, moneyVars, bayEvents>>

-----------------------------------------------------------------------------
(***************************************************************************)
(* Time, as far as a comparison in the code can tell.  Only a reservation  *)
(* still awaited has its times looked at.                                  *)
(***************************************************************************)
Awaited(r) == status[r] \in {"active", "pending_check_in"}

Later(a) == CASE a = "early" -> "late"
              [] a = "late"  -> "due"
              [] OTHER       -> "overdue"

ArrivalNears(r) ==
  /\ Awaited(r)
  /\ arrival[r] # "overdue"
  /\ arrival' = [arrival EXCEPT ![r] = Later(@)]
  /\ UNCHANGED <<status, windowOver, grace, bayVars, conflict, moneyVars, bayEvents, outbox>>

\* The arrival is at most an hour after booked_at, so it has passed by then.
WindowEnds(r) ==
  /\ Awaited(r)
  /\ Missed(r)
  /\ ~ windowOver[r]
  /\ windowOver' = [windowOver EXCEPT ![r] = TRUE]
  /\ UNCHANGED <<status, arrival, grace, bayVars, conflict, moneyVars, bayEvents, outbox>>

GraceExpires(r) ==
  /\ status[r] = "pending_check_in"
  /\ grace[r] = "running"
  /\ grace' = [grace EXCEPT ![r] = "expired"]
  /\ UNCHANGED <<status, arrival, windowOver, bayVars, conflict, moneyVars, bayEvents, outbox>>

-----------------------------------------------------------------------------
MessageIds(b, topic, name) ==
  {Once} \cup {id \in Redelivered : id = <<b, topic, name>>}

Request(t) ==
  \/ \E r \in Reservations :
       \/ \E a \in {"early", "late"} : Create(t, r, a)
       \/ CancelNoFault(t, r)
       \/ Cancel(t, r)
       \/ CheckIn(t, r)
       \/ AdminTerminate(t, r)
       \/ AdminCleansUpConflict(t, r)
  \/ \E b \in Bays : ResolveConflict(t, b)

StateMessage(b) ==
  \E s \in BayStates : \E id \in MessageIds(b, "state", s) : ApplyState(b, s, id)

EventMessage(b) ==
  \/ \E id \in MessageIds(b, "event", "sensor_online") : SensorOnline(b, id)
  \/ \E id \in MessageIds(b, "event", "sensor_offline") : SensorOffline(b, id)
  \/ \E id \in MessageIds(b, "event", "pending_check_in") :
       \E g \in {"running", "expired"} : PendingCheckIn(b, id, g)
  \/ \E id \in MessageIds(b, "event", "auto_check_in") : AutoCheckIn(b, id)
  \/ \E id \in MessageIds(b, "event", "check_in_confirmed") : CheckInConfirmed(b, id)
  \/ \E id \in MessageIds(b, "event", "conflict_strong") : ConflictStrong(b, id)

Sweep(r) == SweepNoShow(r) \/ SweepConflictWeak(r)

Tick(r) == ArrivalNears(r) \/ WindowEnds(r) \/ GraceExpires(r)

Next ==
  \/ \E t \in HttpThreads : Request(t)
  \/ \E b \in Bays : StateMessage(b) \/ EventMessage(b)
  \/ \E r \in Reservations : Sweep(r) \/ Tick(r)
  \/ \E t \in Threads : Publish(t)
  \/ Crash

Spec == Init /\ [][Next]_vars

\* The scheduler keeps running its job and a thread gets to its publication.
Fairness ==
  /\ \A r \in Reservations : WF_vars(SweepNoShow(r)) /\ WF_vars(SweepConflictWeak(r))
  /\ \A t \in Threads : WF_vars(Publish(t))

FairSpec == Spec /\ Fairness

-----------------------------------------------------------------------------
(***************************************************************************)
(* Properties                                                              *)
(***************************************************************************)

\* The tables hold values of their columns' types.
TypeOK ==
  /\ status \in [Reservations -> Statuses]
  /\ arrival \in [Reservations -> Arrivals]
  /\ windowOver \in [Reservations -> BOOLEAN]
  /\ grace \in [Reservations -> Graces]
  /\ mirror \in [Bays -> BayStates]
  /\ pointer \in [Bays -> Reservations \cup {NoRes}]
  /\ conflict \in [Bays -> Conflicts]
  /\ ledger \in [Reservations -> Ledgers]
  /\ balance \in [Cards -> Nat]
  /\ bayEvents \subseteq AllIds
  /\ outbox \in [Threads -> Commands \cup {NoCommand}]

\* The payments of a reservation agree with its status whatever sequence of
\* requests, Pi messages and sweeps led there: nothing is spent while the
\* holder is awaited, all of the deposit is accounted for once the
\* reservation is over or in weak conflict, and a checked-in one is in either
\* case (a late check-in after a weak conflict has been settled before).
DepositFollowsStatus ==
  \A r \in Reservations :
    LET l == ledger[r] IN
    /\ l["pre_auth"] = IF status[r] = "none" THEN 0 ELSE Deposit
    /\ status[r] = "none" \/ Awaited(r) => Spent(l) = 0
    /\ status[r] = "checked_in" => Spent(l) \in {0, Deposit}
    /\ status[r] \in TerminalStatuses \cup {"in_conflict"} => Spent(l) = Deposit

\* A reservation pays at most one penalty, the agreed one, and it is the
\* penalty of the breach its status records.
OnePenaltyPerBreach ==
  \A r \in Reservations :
    LET l == ledger[r]
        agreed == Lesser(Penalty, Deposit)
        weak == l["penalty:weak_conflict"] IN
    /\ l["penalty:late_cancel"] = IF status[r] = "cancelled_late" THEN agreed ELSE 0
    /\ l["penalty:no_show"] = IF status[r] = "expired_no_show" THEN agreed ELSE 0
    /\ weak \in {0, agreed}
    /\ status[r] = "in_conflict" => weak = agreed
    /\ weak # 0 => status[r] \in {"in_conflict", "checked_in", "completed", "cancelled"}

\* current_reservation_id never names a finished reservation, and as long as
\* a holder is awaited the bay names exactly that holder, so that a second
\* booking can neither be made nor displace it.
PointerNamesHolder ==
  /\ \A b \in Bays : pointer[b] # NoRes =>
       pointer[b] \in OnBay(b) /\ status[pointer[b]] \in LiveStatuses
  /\ \A r \in Reservations : Awaited(r) => pointer[BayOf[r]] = r

\* A reservation that is over stays as it ended, whatever arrives late.
TerminalIsFinal ==
  [][\A r \in Reservations :
       status[r] \in TerminalStatuses => status'[r] = status[r]]_vars

\* The Pi is told of every end of a reservation: the transaction that finishes
\* it leaves a cancel or release of that very reservation to be published.
EndIsAnnounced ==
  [][\A r \in Reservations :
       status[r] \in LiveStatuses /\ status'[r] \in TerminalStatuses =>
         \E t \in Threads : /\ outbox[t] = NoCommand
                            /\ outbox'[t].action \in {"cancel", "release"}
                            /\ outbox'[t].res = r]_vars

\* While the bay shows the strong conflict that keeps a holder out, no cancel,
\* sweep or late message costs this holder a penalty.
VictimKeepsDeposit ==
  [][\A r \in Reservations :
       OpenConflictOf(r, "strong") /\ mirror[BayOf[r]] = "conflict" =>
         Captured(ledger'[r]) = Captured(ledger[r])]_vars

\* The deposits behave as Deposit.tla promises: a held one is untouched, and
\* the transaction that ends the holding pays everything out at once.
Phase(l) == CASE l = NoRows -> "none"
              [] l = Preauthorize(NoRows) -> "held"
              [] OTHER -> "settled"

D == INSTANCE Deposit WITH
       Bookings <- Reservations,
       phase <- [r \in Reservations |-> Phase(ledger[r])],
       captured <- [r \in Reservations |-> Captured(ledger[r])]

ImplementsDeposit == D!Spec

\* The sweep finds an overdue reservation again on every run, and each time its
\* event has the same id.  As long as the reservation is awaited that id is not
\* recorded: the sweep can still end it, whatever interrupted the earlier runs,
\* and whichever reservation of the bay the dispatched event was applied to.
SweepIsNoReplay ==
  \A r \in Reservations : Awaited(r) =>
    <<r, "no_show">> \notin bayEvents /\ <<r, "conflict_weak">> \notin bayEvents

-----------------------------------------------------------------------------
(***************************************************************************)
(* What the repository says of the program and the program does not do.    *)
(***************************************************************************)

\* reconcile_reservations.py:10: "PENDING_CHECK_IN past check-in grace ->
\* synthesise `conflict_weak`"; so, a strong conflict apart, a pending
\* reservation whose grace is over does not stay pending.
PendingIsSwept ==
  \A r \in Reservations :
    status[r] = "pending_check_in" /\ grace[r] = "expired" ~>
      \/ status[r] # "pending_check_in" \/ grace[r] # "expired"
      \/ conflict[BayOf[r]].kind = "strong"

\* database-design.md:642: on the report that the bay emptied while a strong
\* conflict was open, "the reservation is resumed".  So such a report of an
\* open reservation is never left without effect.
EmptyBayResumesVictim ==
  \A b \in Bays :
    StrongRestores(b, "available") /\ Idle("mqtt") => ENABLED ApplyState(b, "available", Once)

=============================================================================

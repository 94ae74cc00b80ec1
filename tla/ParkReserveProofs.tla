--------------------------- MODULE ParkReserveProofs ---------------------------
(***************************************************************************)
(* What ParkReserve.tla keeps for any reservations, cards, vehicles and    *)
(* request threads, any room on the links and any set of mishaps.          *)
(***************************************************************************)
EXTENDS ParkReserve, TLAPS

Live(r)  == status[r] \in B!LiveStatuses
Open(r)  == status[r] \in B!OpenStatuses
Stops(c) == c.action \in {"cancel", "release", "expire_check_in"}

Events  == {"pending_check_in", "auto_check_in", "check_in_confirmed", "conflict_strong"}
Reported == [topic : {"state"}, name : Pi!BayStates]
              \cup [topic : {"event"}, name : Events, res : Reservations \cup {NoRes}]

Typed ==
  /\ status \in [Reservations -> B!Statuses]
  /\ arrival \in [Reservations -> B!Arrivals]
  /\ mirror \in [{Bay} -> B!BayStates]
  /\ conflict \in [{Bay} -> B!Conflicts]
  /\ outbox \in [B!Threads -> B!Commands \cup {B!NoCommand}]
  /\ state \in Pi!BayStates
  /\ cached \in Reservations \cup {NoRes}
  /\ bound \subseteq Vehicles
  /\ down \in Seq(B!Commands \cup {Resync})
  /\ up \in Seq(Reported)
  /\ unheard \subseteq B!Commands

-----------------------------------------------------------------------------
(***************************************************************************)
(* What a step of the backend does to the reservations and to the commands *)
(* in hand: it announces a change of one reservation, or moves on one that *)
(* is awaited and says nothing.                                            *)
(***************************************************************************)
Becomes(r, s) == status' = [status EXCEPT ![r] = s]

Books(c) ==
  /\ c.action = "create"
  /\ status[c.res] = "none" /\ Becomes(c.res, "active")
  /\ \A r \in Reservations : ~ Open(r) /\ (r < c.res => status[r] # "none")
Renews(c) ==
  /\ c.action = "create"
  /\ B!Awaited(c.res) /\ Becomes(c.res, "active")
Ends(c) ==
  /\ Stops(c)
  /\ Live(c.res)
  /\ \E s \in B!TerminalStatuses \cup {"in_conflict"} : Becomes(c.res, s)
ChecksIn(c) ==
  /\ c.action = "check_in"
  /\ status[c.res] # "active" /\ Live(c.res) /\ Becomes(c.res, "checked_in")
  /\ status[c.res] = "in_conflict" => \A r \in Reservations : ~ Open(r)

Announces(c) ==
  /\ \E t \in B!Threads : B!Idle(t) /\ outbox' = [outbox EXCEPT ![t] = c]
  /\ Books(c) \/ Renews(c) \/ Ends(c) \/ ChecksIn(c)

MovesOn ==
  /\ outbox' = outbox
  /\ \/ status' = status
     \/ \E r \in Reservations, s \in {"active", "pending_check_in", "checked_in"} :
          B!Awaited(r) /\ Becomes(r, s)

TablesTyped ==
  /\ mirror' \in [{Bay} -> B!BayStates]
  /\ conflict' \in [{Bay} -> B!Conflicts]
  /\ arrival' \in [Reservations -> B!Arrivals]

\* Of its own accord the backend books, ends a reservation that is awaited, or
\* checks one in that is not.
Volunteers(c) ==
  /\ Announces(c) /\ ~ Renews(c)
  /\ Books(c) => mirror[Bay] # "conflict"
  /\ Ends(c) => B!Awaited(c.res)
  /\ ChecksIn(c) => status[c.res] # "checked_in"

LEMMA RequestMoves ==
  ASSUME Typed, NEW t \in HttpThreads, Requested(t)
  PROVE  /\ TablesTyped
         /\ \E c \in B!Commands : Volunteers(c)
  <1> USE DEF Typed, TablesTyped, Announces, Becomes
  <1>0. t \in B!Threads
    BY DEF B!Threads
  <1> USE <1>0 DEF B!Sends, B!Awaited, Live, B!BayStates, B!Conflicts, B!NoConflict
  <1>1. ASSUME NEW r \in Reservations, B!Create(t, r, "late")
        PROVE  /\ TablesTyped
               /\ Announces([action |-> "create", res |-> r])
               /\ ~ Renews([action |-> "create", res |-> r])
               /\ mirror[Bay] # "conflict"
    BY <1>1 DEF B!Create, Books, Renews, B!IndexAdmits, B!OnBay, Open, B!Arrivals, B!OpenStatuses
  <1>2. ASSUME NEW r \in Reservations, B!CancelNoFault(t, r)
        PROVE  /\ TablesTyped /\ B!Awaited(r)
               /\ Announces([action |-> "release", res |-> r])
    BY <1>2 DEF B!CancelNoFault, B!Cancellable, Ends, Stops, B!TerminalStatuses,
                B!LiveStatuses, B!OpenStatuses
  <1>3. ASSUME NEW r \in Reservations, B!Cancel(t, r)
        PROVE  /\ TablesTyped /\ B!Awaited(r)
               /\ Announces([action |-> "cancel", res |-> r])
    BY <1>3 DEF B!Cancel, B!Cancellable, B!FreeBay, Ends, Stops, B!TerminalStatuses,
                B!LiveStatuses, B!OpenStatuses
  <1>4. ASSUME NEW r \in Reservations, B!CheckIn(t, r)
        PROVE  /\ TablesTyped /\ status[r] # "checked_in"
               /\ Announces([action |-> "check_in", res |-> r])
    BY <1>4 DEF B!CheckIn, B!MayCheckIn, B!IndexAdmits, B!OnBay, ChecksIn, Open,
                B!LiveStatuses, B!OpenStatuses
  <1>5. \A r \in Reservations, a \in B!Actions : [action |-> a, res |-> r] \in B!Commands
    BY DEF B!Commands
  <1> HIDE DEF TablesTyped, Announces, B!Awaited
  <1> QED
    BY <1>1, <1>2, <1>3, <1>4, <1>5
    DEF Requested, Volunteers, Books, Renews, Ends, ChecksIn, Stops, B!Actions

LEMMA SweepMoves ==
  ASSUME Typed, NEW r \in Reservations, B!Sweep(r)
  PROVE  /\ TablesTyped
         /\ \E c \in B!Commands : Volunteers(c)
  <1> USE DEF Typed, TablesTyped, Announces, Becomes, B!Sends, B!Awaited, Live, B!BayStates,
      B!Conflicts
  <1>0. "sweeper" \in B!Threads
    BY DEF B!Threads
  <1>1. ASSUME NEW q \in Reservations, B!Idle("sweeper"), B!NoShow(Bay, q)
        PROVE  /\ TablesTyped /\ B!Awaited(q)
               /\ Announces([action |-> "release", res |-> q])
    BY <1>0, <1>1 DEF B!NoShow, B!FreeBay, Ends, Stops, B!TerminalStatuses,
                B!LiveStatuses, B!OpenStatuses
  <1>2. ASSUME NEW q \in Reservations, B!Idle("sweeper"), B!ConflictWeak(Bay, q)
        PROVE  /\ TablesTyped /\ B!Awaited(q)
               /\ Announces([action |-> "expire_check_in", res |-> q])
    BY <1>0, <1>2 DEF B!ConflictWeak, Ends, Stops, B!LiveStatuses, B!OpenStatuses
  <1>3. \A q \in Reservations, a \in B!Actions : [action |-> a, res |-> q] \in B!Commands
    BY DEF B!Commands
  <1> HIDE DEF TablesTyped, Announces, B!Awaited
  <1> QED
    BY <1>1, <1>2, <1>3
    DEF B!Sweep, B!SweepNoShow, B!SweepConflictWeak, Volunteers, Books, Renews, Ends, ChecksIn,
        Stops, B!Actions

\* A report of a state moves the mirror to that state, or announces a change.
LEMMA StateReportMoves ==
  ASSUME Typed, NEW s \in Pi!BayStates, B!ApplyState(Bay, s, B!Once)
  PROVE  /\ TablesTyped
         /\ \/ MovesOn /\ mirror' = [mirror EXCEPT ![Bay] = s]
            \/ \E c \in B!Commands : Announces(c) /\ ~ Books(c) /\ s # "conflict"
  <1> USE DEF Typed, TablesTyped, Announces, Becomes, B!Sends, B!Awaited, Live, B!BayStates,
      B!Conflicts, B!NoConflict, B!ReportsChange
  <1>0. "mqtt" \in B!Threads
    BY DEF B!Threads
  <1>1. \A q \in Reservations, a \in B!Actions : [action |-> a, res |-> q] \in B!Commands
    BY DEF B!Commands
  <1>2. CASE B!RestoreAfterStrongConflict(Bay, s, B!Once)
    <2> DEFINE r == conflict[Bay].res
    <2>1. r \in Reservations /\ s # "conflict" /\ status[r] \in B!OpenStatuses
      BY <1>2 DEF B!RestoreAfterStrongConflict, B!StrongRestores
    <2> HIDE DEF r
    <2>2. TablesTyped
      BY <1>2, <2>1 DEF B!RestoreAfterStrongConflict, B!Arrivals, r
    <2>3. \/ /\ Announces([action |-> "create", res |-> r])
             /\ status[r] \in {"active", "pending_check_in"}
          \/ Announces([action |-> "check_in", res |-> r])
      BY <1>0, <1>2, <2>1 DEF B!RestoreAfterStrongConflict, r, Renews, ChecksIn,
            B!LiveStatuses, B!OpenStatuses
    <2> QED
      BY <1>1, <2>1, <2>2, <2>3 DEF Books, B!Actions
  <1>3. ASSUME NEW r \in Reservations, B!RollbackPendingCheckIn(Bay, s, r, B!Once)
        PROVE  /\ TablesTyped /\ s # "conflict"
               /\ Announces([action |-> "create", res |-> r])
               /\ status[r] = "pending_check_in"
    BY <1>0, <1>3 DEF B!RollbackPendingCheckIn, B!PendingRollsBack, Renews
  <1>4. ASSUME NEW r \in Reservations, B!CompleteReservation(Bay, s, r, B!Once)
        PROVE  /\ TablesTyped /\ s # "conflict"
               /\ Announces([action |-> "release", res |-> r])
    BY <1>0, <1>4 DEF B!CompleteReservation, B!Completable, Ends, Stops, B!TerminalStatuses,
                      B!LiveStatuses, B!OpenStatuses
  <1>5. CASE B!MirrorOnly(Bay, s, B!Once)
    BY <1>5 DEF B!MirrorOnly, MovesOn, B!reservationVars, Pi!BayStates
  <1> HIDE DEF TablesTyped, Announces
  <1> QED
    BY <1>1, <1>2, <1>3, <1>4, <1>5 DEF B!ApplyState, Books, B!Actions

\* The state an event of the Pi goes with.
Implied(m) ==
  IF m.topic = "state" THEN m.name
  ELSE IF m.name = "pending_check_in" THEN "pending_check_in"
  ELSE IF m.name = "conflict_strong" THEN "conflict"
  ELSE "reserved_checked_in"

LEMMA EventReportMoves ==
  ASSUME Typed, NEW m \in Reported, m.topic = "event", HandleEvent(m.name)
  PROVE  /\ TablesTyped /\ MovesOn
         /\ mirror'[Bay] = Implied(m) \/ UNCHANGED <<status, mirror>>
  <1> USE DEF Typed, TablesTyped, MovesOn, Becomes, B!Awaited, B!BayStates, B!Conflicts, Implied
  <1>1. m.name \in Events
    BY DEF Reported
  <1>2. B!OpenReservation(Bay) \subseteq Reservations
    BY DEF B!OpenReservation, B!OnBay
  <1>3. CASE m.name = "pending_check_in"
    BY <1>2, <1>3 DEF HandleEvent, B!PendingCheckIn
  <1>4. CASE m.name = "auto_check_in"
    BY <1>2, <1>4 DEF HandleEvent, B!AutoCheckIn
  <1>5. CASE m.name = "check_in_confirmed"
    BY <1>2, <1>5 DEF HandleEvent, B!CheckInConfirmed
  <1>6. CASE m.name = "conflict_strong"
    <2> USE <1>6 DEF HandleEvent, B!ConflictStrong
    <2>1. \A r, s \in B!OpenReservation(Bay) : r = s
      BY <1>2, ReservationsAreNumbered DEF B!OpenReservation, B!OnBay
    <2>2. \/ status' = status
          \/ \E r \in Reservations : B!Awaited(r) /\ status' = [status EXCEPT ![r] = "active"]
      <3>1. CASE \A r \in B!OpenReservation(Bay) : status[r] # "pending_check_in"
        BY <1>2, <3>1
      <3>2. ASSUME NEW r \in B!OpenReservation(Bay), status[r] = "pending_check_in"
            PROVE  status' = [status EXCEPT ![r] = "active"]
        BY <1>2, <2>1, <3>2
      <3> QED BY <1>2, <3>1, <3>2
    <2>3. TablesTyped /\ mirror'[Bay] = "conflict" /\ outbox' = outbox
      BY <1>2
    <2> QED BY <2>2, <2>3
  <1> QED BY <1>1, <1>3, <1>4, <1>5, <1>6 DEF Events

-----------------------------------------------------------------------------
(***************************************************************************)
(* What a step of the Pi reports: nothing as long as its state is the same,*)
(* otherwise its new state, and the event that goes with it, if any.       *)
(***************************************************************************)
Tells(messages) == up' = IF backendLinked THEN up \o messages ELSE up

TellsState ==
  \/ Tells(<<State(state')>>)
  \/ \E e \in Events : Implied(Event(e)) = state' /\ Tells(<<State(state'), Event(e)>>)

PiSpeaks ==
  /\ state' \in Pi!BayStates /\ cached' \in Reservations \cup {NoRes} /\ bound' \subseteq Vehicles
  /\ UNCHANGED <<state, up>> \/ TellsState

LEMMA PiStepSpeaks ==
  ASSUME Typed,
         \/ \E v \in Vehicles : VehicleComes(v)
         \/ VehicleIsSensedAgain \/ VehicleGoes \/ NodeRestarts
         \/ Recognition \/ PiTimeout \/ PiClock
  PROVE  /\ PiSpeaks /\ UNCHANGED <<backendVars, down, linkVars, unheard>>
         /\ cached' \in {cached, NoRes}
  <1> USE DEF Typed, PiSpeaks, TellsState, Tells, Reports, ReportsState, ReportsStateAnd,
              ReportsNothing, PiOnly, Pi!Transition, Pi!Stay, Pi!ForgetHolder, Pi!outputs,
              Pi!holder, Pi!NoRes, NoRes
  <1>1. ArrivalIsSensed => PiSpeaks /\ cached' \in {cached, NoRes}
    BY DEF ArrivalIsSensed, Pi!VehicleArrived, Pi!BayStates, Implied, Event, Events
  <1>2. DepartureIsSensed => PiSpeaks /\ cached' \in {cached, NoRes}
    BY DEF DepartureIsSensed, Pi!VehicleLeft, Pi!BayStates
  <1>3. Recognition => PiSpeaks /\ cached' \in {cached, NoRes}
    BY VehiclesTyped DEF Recognition, Pi!LprResult, Pi!BayStates, Implied, Event, Events,
       Pi!Unreadable
  <1>4. PiTimeout => PiSpeaks /\ cached' \in {cached, NoRes}
    BY DEF PiTimeout, Pi!ManualTimeout, Pi!NoShowCheck, Pi!BayStates
  <1>5. PiClock => PiSpeaks /\ cached' \in {cached, NoRes}
    BY DEF PiClock, Pi!GraceEnds, Pi!TimerFires, Pi!BayStates
  <1> QED
    BY <1>1, <1>2, <1>3, <1>4, <1>5 DEF VehicleComes, VehicleIsSensedAgain, VehicleGoes,
       NodeRestarts, Recognition, PiTimeout, PiClock, piVars

Accepted(m) ==
  \/ m = Resync /\ UNCHANGED <<state, cached>> /\ TellsState
  \/ /\ m.action = "create" /\ cached' = m.res
     /\ IF state = "conflict" THEN UNCHANGED <<state, up>> ELSE state' = "reserved" /\ TellsState
  \/ m.action = "check_in" /\ state' = "reserved_checked_in" /\ cached' = cached /\ TellsState
  \/ Stops(m) /\ state' \in {"available", "occupied"} /\ cached' = NoRes /\ TellsState

LEMMA PiTakesCommand ==
  ASSUME Typed, PiTakes, NEW m, m = Head(down)
  PROVE  /\ PiSpeaks /\ m \in B!Commands \cup {Resync}
         /\ \/ Accepted(m) /\ unheard' = {c \in unheard : c.res # m.res}
            \/ /\ PiIgnores(m) /\ m \in B!Commands
               /\ UNCHANGED <<piVars, up>>
               /\ unheard' = {c \in unheard : c.res # m.res} \cup {m}
  <1> USE DEF Typed
  <1>1. m \in B!Commands \cup {Resync}
    BY DEF PiTakes
  <1>2. CASE PiIgnores(m) /\ UNCHANGED <<piVars, up>>
    BY <1>1, <1>2 DEF PiTakes, PiIgnores, PiSpeaks, piVars, Resync
  <1>3. ASSUME PiAccepts(m) PROVE PiSpeaks /\ Accepted(m) /\ ~ PiIgnores(m)
    <2> USE DEF PiAccepts, PiSpeaks, Accepted, PiIgnores, TellsState, Tells, Reports, ReportsState,
            ReportsStateAnd, ReportsNothing, Pi!Transition, Pi!Stay, Pi!ForgetHolder, Pi!outputs,
            Pi!holder, Pi!NoRes, NoRes, Resync, Stops, Pi!BayStates
    <2>1. CASE m = Resync
      BY <1>3, <2>1 DEF Pi!ReplayState
    <2>2. CASE m \in B!Commands /\ m.action = "create"
      <3>1. Pi!CreateCommand(m.res, {VehicleOf[m.res]}, arrival[m.res] = "overdue" /\ graceOver)
        BY <1>3, <2>2
      <3>2. m.res \in Reservations /\ {VehicleOf[m.res]} \subseteq Vehicles
        BY <2>2, VehiclesTyped DEF B!Commands
      <3> QED
        BY <1>3, <2>2, <3>1, <3>2 DEF Pi!CreateCommand
    <2>3. CASE m \in B!Commands /\ m.action = "check_in"
      BY <1>3, <2>3 DEF Pi!CheckInCommand, Implied, Event, Events
    <2>4. CASE m \in B!Commands /\ m.action \notin {"create", "check_in"}
      BY <1>3, <2>4 DEF Pi!CancelCommand, B!Commands, B!Actions
    <2> QED BY <1>1, <2>1, <2>2, <2>3, <2>4
  <1>4. CASE PiAccepts(m)
    BY <1>1, <1>3, <1>4 DEF PiTakes
  <1> QED
    BY <1>1, <1>2, <1>4 DEF PiTakes

-----------------------------------------------------------------------------
\* No message on its way to the backend reports a state.
NoStateOnItsWay == \A i \in DOMAIN up : up[i].topic # "state"

\* The last reported state, and every event after it, go with the Pi's state.
LastReportIsTrue ==
  \A i \in DOMAIN up :
    (\A j \in DOMAIN up : j > i => up[j].topic # "state") => Implied(up[i]) = state

LEMMA StateIsTold ==
  ASSUME Typed, state' \in Pi!BayStates, TellsState
  PROVE  /\ up' \in Seq(Reported)
         /\ backendLinked => LastReportIsTrue' /\ ~ NoStateOnItsWay'
  <1> DEFINE n == Len(up)
  <1>0. /\ up \in Seq(Reported) /\ n \in Nat
        /\ State(state') \in Reported /\ State(state').topic = "state"
        /\ Implied(State(state')) = state'
        /\ \A e \in Events : Event(e) \in Reported /\ Event(e).topic = "event"
    BY DEF Typed, State, Event, Reported, Implied
  <1>1. ASSUME Tells(<<State(state')>>)
        PROVE  /\ up' \in Seq(Reported)
               /\ backendLinked => LastReportIsTrue' /\ ~ NoStateOnItsWay'
    <2>1. up' \in Seq(Reported)
      BY <1>0, <1>1 DEF Tells
    <2>2. ASSUME backendLinked PROVE LastReportIsTrue' /\ ~ NoStateOnItsWay'
      <3>1. DOMAIN up' = 1..(n + 1) /\ up'[n + 1] = State(state')
        BY <1>0, <1>1, <2>2 DEF Tells
      <3>2. \A i \in DOMAIN up' : i # n + 1 => n + 1 > i
        BY <1>0, <3>1
      <3>3. n + 1 \in DOMAIN up'
        BY <1>0, <3>1
      <3> QED BY <1>0, <3>1, <3>2, <3>3 DEF LastReportIsTrue, NoStateOnItsWay, Implied
    <2> QED BY <2>1, <2>2
  <1>2. ASSUME NEW e \in Events, Implied(Event(e)) = state', Tells(<<State(state'), Event(e)>>)
        PROVE  /\ up' \in Seq(Reported)
               /\ backendLinked => LastReportIsTrue' /\ ~ NoStateOnItsWay'
    <2>1. up' \in Seq(Reported)
      BY <1>0, <1>2 DEF Tells
    <2>2. ASSUME backendLinked PROVE LastReportIsTrue' /\ ~ NoStateOnItsWay'
      <3>1. /\ DOMAIN up' = 1..(n + 2)
            /\ up'[n + 1] = State(state') /\ up'[n + 2] = Event(e)
        BY <1>0, <1>2, <2>2 DEF Tells
      <3>2. \A i \in DOMAIN up' : i = n + 1 \/ i = n + 2 \/ n + 1 > i
        BY <1>0, <3>1
      <3>3. n + 1 \in DOMAIN up'
        BY <1>0, <3>1
      <3> QED BY <1>0, <1>2, <3>1, <3>2, <3>3 DEF LastReportIsTrue, NoStateOnItsWay, Implied
    <2> QED BY <2>1, <2>2
  <1> QED BY <1>1, <1>2 DEF TellsState

-----------------------------------------------------------------------------
\* The steps of the backend that a request, a sweep or a report causes.
BackendMoves == MovesOn \/ \E c \in B!Commands : Announces(c)

LEMMA MovesTyped ==
  ASSUME Typed, BackendMoves
  PROVE  /\ status' \in [Reservations -> B!Statuses]
         /\ outbox' \in [B!Threads -> B!Commands \cup {B!NoCommand}]
  BY DEF Typed, BackendMoves, MovesOn, Announces, Books, Renews, Ends, ChecksIn, Becomes,
         B!Statuses, B!LiveStatuses, B!OpenStatuses, B!TerminalStatuses

\* What a taken report does to the tables.
LEMMA ReportMoves ==
  ASSUME Typed, BackendTakes, NEW m, m = Head(up)
  PROVE  /\ m \in Reported
         /\ TablesTyped /\ BackendMoves
         /\ \/ MovesOn /\ mirror'[Bay] = Implied(m)
            \/ UNCHANGED <<status, outbox, mirror>>
                 /\ (m.topic = "state" /\ mishap' # "report refused" => m.name = mirror[Bay])
            \/ \E c \in B!Commands : Announces(c) /\ ~ Books(c) /\ m.name # "conflict"
                                       /\ m.topic = "state"
  <1>1. m \in Reported
    <2>1. up # <<>>
      BY DEF BackendTakes
    <2> QED BY <2>1 DEF Typed
  <1>2. CASE m.topic = "state" /\ Handle(m)
    <2>1. m.name \in Pi!BayStates /\ B!ApplyState(Bay, m.name, B!Once)
      BY <1>1, <1>2 DEF Handle, Reported
    <2>2. mirror' = [mirror EXCEPT ![Bay] = m.name] => mirror'[Bay] = Implied(m)
      BY <1>2 DEF Typed, Implied
    <2> QED BY <1>1, <1>2, <2>1, <2>2, StateReportMoves DEF BackendMoves
  <1>3. CASE m.topic = "event" /\ Handle(m)
    <2>1. HandleEvent(m.name)
      BY <1>3 DEF Handle
    <2> QED BY <1>1, <1>3, <2>1, EventReportMoves DEF BackendMoves, MovesOn
  <1>4. CASE (Shrugs(m) \/ (Refuses(m) /\ mishap' = "report refused")) /\ UNCHANGED backendVars
    BY <1>1, <1>4 DEF backendVars, Shrugs, TablesTyped, BackendMoves, MovesOn, Typed
  <1>5. m.topic \in {"state", "event"}
    BY <1>1 DEF Reported
  <1> QED BY <1>2, <1>3, <1>4, <1>5 DEF BackendTakes, Lets

LEMMA RequestOrSweepMoves ==
  ASSUME Typed, RequestOrSweep
  PROVE  /\ TablesTyped
         /\ \E c \in B!Commands : Volunteers(c)
  BY RequestMoves, SweepMoves DEF RequestOrSweep

\* The steps that leave reservations and reports alone.
Unmoved == UNCHANGED <<status, mirror, up, state>>

LEMMA OtherSteps ==
  ASSUME Typed
  PROVE  /\ CloseConflict => /\ UNCHANGED <<outbox, down, linkVars, unheard, cached, bound>>
                             /\ Unmoved /\ TablesTyped
         /\ Tick => /\ UNCHANGED <<outbox, down, linkVars, unheard, cached, bound, mishap>>
                    /\ Unmoved /\ TablesTyped
         /\ Publish => UNCHANGED <<linkVars, unheard, cached, bound, mishap>>
                         /\ Unmoved /\ TablesTyped
  <1> USE DEF Typed, Unmoved, TablesTyped, BackendOnly, piVars, B!Conflicts, B!NoConflict,
              B!reservationVars, B!bayVars, B!moneyVars
  <1>1. CloseConflict => /\ UNCHANGED <<outbox, down, linkVars, unheard, cached, bound>>
                         /\ Unmoved /\ TablesTyped
    <2>1. ASSUME CloseConflict
          PROVE  /\ conflict' \in [{Bay} -> B!Conflicts]
                 /\ UNCHANGED <<status, arrival, mirror, outbox, up, down>>
      <3>1. PICK t \in HttpThreads : B!ResolveConflict(t, Bay)
        BY <2>1 DEF CloseConflict
      <3>2. UNCHANGED <<down, up>>
        BY <2>1 DEF CloseConflict
      <3> QED BY <3>1, <3>2 DEF B!ResolveConflict
    <2> QED BY <2>1 DEF CloseConflict
  <1>2. Tick => /\ UNCHANGED <<outbox, down, linkVars, unheard, cached, bound, mishap>>
                /\ Unmoved /\ TablesTyped
    BY DEF Tick, B!ArrivalNears, B!GraceExpires, B!Later, B!Arrivals
  <1>3. Publish => UNCHANGED <<linkVars, unheard, cached, bound, mishap>> /\ Unmoved /\ TablesTyped
    BY DEF Publish, B!Publish
  <1> QED BY <1>1, <1>2, <1>3

LEMMA TypedInitially == Init => Typed
  BY DEF Init, Typed, B!Init, Pi!Init, B!Statuses, B!Arrivals, B!BayStates, B!Conflicts,
         B!NoConflict, Pi!BayStates, Pi!NoRes, NoRes

LEMMA LinkContents ==
  /\ <<>> \in Seq(Reported) /\ <<>> \in Seq(B!Commands \cup {Resync})
  /\ <<Resync>> \in Seq(B!Commands \cup {Resync})
  /\ \A s \in Seq(B!Commands \cup {Resync}) :
       /\ Append(s, Resync) \in Seq(B!Commands \cup {Resync})
       /\ s \o s \in Seq(B!Commands \cup {Resync})
  OBVIOUS

LEMMA TypedStep ==
  ASSUME Typed, [Next]_vars
  PROVE  Typed'
  <1>1. CASE \/ \E v \in Vehicles : VehicleComes(v)
             \/ VehicleIsSensedAgain \/ VehicleGoes \/ NodeRestarts
             \/ Recognition \/ PiTimeout \/ PiClock
    <2>1. PiSpeaks /\ UNCHANGED <<backendVars, down, linkVars, unheard>>
      BY <1>1, PiStepSpeaks
    <2>2. up' \in Seq(Reported)
      BY <2>1, StateIsTold DEF PiSpeaks, Typed
    <2> QED BY <2>1, <2>2 DEF Typed, PiSpeaks, backendVars
  <1>2. CASE PiTakes
    <2>1. PiSpeaks /\ unheard' \subseteq B!Commands
      BY <1>2, PiTakesCommand DEF Typed
    <2>2. up' \in Seq(Reported)
      BY <2>1, StateIsTold DEF PiSpeaks, Typed
    <2>3. down' \in Seq(B!Commands \cup {Resync}) /\ UNCHANGED backendVars
      <3>1. down # <<>> /\ down' = Tail(down) /\ UNCHANGED backendVars
        BY <1>2 DEF PiTakes
      <3> QED BY <3>1 DEF Typed
    <2> QED BY <2>1, <2>2, <2>3 DEF Typed, PiSpeaks, backendVars
  <1>3. CASE RequestOrSweep
    <2>1. TablesTyped /\ BackendMoves
      BY <1>3, RequestOrSweepMoves DEF BackendMoves, Volunteers
    <2>2. UNCHANGED <<piVars, down, up, unheard>>
      BY <1>3 DEF RequestOrSweep, BackendOnly
    <2> QED BY <2>1, <2>2, MovesTyped DEF Typed, TablesTyped, piVars
  <1>4. CASE CloseConflict \/ Tick
    BY <1>4, OtherSteps DEF Typed, Unmoved, TablesTyped
  <1>5. CASE Publish
    <2>1. PICK t \in B!Threads : /\ outbox[t] # B!NoCommand
                                 /\ outbox' = [outbox EXCEPT ![t] = B!NoCommand]
                                 /\ down' = IF piLinked THEN Append(down, outbox[t]) ELSE down
      BY <1>5 DEF Publish, B!Publish, B!Idle
    <2>2. /\ down' \in Seq(B!Commands \cup {Resync})
          /\ outbox' \in [B!Threads -> B!Commands \cup {B!NoCommand}]
      BY <2>1 DEF Typed
    <2> QED BY <1>5, <2>2, OtherSteps DEF Typed, Unmoved, TablesTyped
  <1>6. CASE BackendTakes
    <2>1. up # <<>> /\ up' = Tail(up) /\ UNCHANGED <<piVars, down, unheard>>
      BY <1>6 DEF BackendTakes, BackendOnly
    <2>2. TablesTyped /\ BackendMoves
      BY <1>6, ReportMoves
    <2>3. up' \in Seq(Reported)
      BY <2>1 DEF Typed
    <2> QED BY <2>1, <2>2, <2>3, MovesTyped DEF Typed, TablesTyped, piVars
  <1>7. CASE PiLinkBreaks \/ PiConnects \/ BackendLinkBreaks \/ BackendConnects \/ CommandIsResent
    <2>1. UNCHANGED <<backendVars, piVars, unheard>>
      BY <1>7 DEF PiLinkBreaks, PiConnects, BackendLinkBreaks, BackendConnects, CommandIsResent
    <2>2. up' \in Seq(Reported)
      <3>1. up' = up \/ up' = <<>>
        BY <1>7 DEF PiLinkBreaks, PiConnects, BackendLinkBreaks, BackendConnects, CommandIsResent
      <3>2. up \in Seq(Reported)
        BY DEF Typed
      <3> QED BY <3>1, <3>2, LinkContents
    <2>3. \/ down' = down \/ down' = <<>> \/ down' = <<Resync>> \/ down' = Append(down, Resync)
          \/ down' = down \o down
      BY <1>7 DEF PiLinkBreaks, PiConnects, BackendLinkBreaks, BackendConnects, CommandIsResent
    <2>4. down' \in Seq(B!Commands \cup {Resync})
      <3>1. down \in Seq(B!Commands \cup {Resync})
        BY DEF Typed
      <3> QED BY <2>3, <3>1, LinkContents
    <2> QED BY <2>1, <2>2, <2>4 DEF Typed, backendVars, piVars
  <1>8. CASE PiRestarts
    <2>1. /\ UNCHANGED <<backendVars, unheard>> /\ down' = <<>> /\ up' \in {up, <<>>}
          /\ state' = "available" /\ cached' = NoRes /\ bound' = {}
      BY <1>8 DEF PiRestarts, Pi!Restart, Pi!ForgetHolder, Pi!NoRes, NoRes
    <2>2. up' \in Seq(Reported) /\ down' \in Seq(B!Commands \cup {Resync})
      <3>1. up \in Seq(Reported)
        BY DEF Typed
      <3> QED BY <2>1, <3>1, LinkContents
    <2> QED BY <2>1, <2>2 DEF Typed, backendVars, Pi!BayStates
  <1>9. CASE BackendCrashes
    <2>1. /\ UNCHANGED <<status, arrival, mirror, conflict, piVars, down, unheard>>
          /\ up' = <<>> /\ outbox' = [t \in B!Threads |-> B!NoCommand]
      BY <1>9 DEF BackendCrashes, B!Crash, B!reservationVars, B!bayVars
    <2>2. up' \in Seq(Reported)
      BY <2>1
    <2> QED BY <2>1, <2>2 DEF Typed, piVars
  <1>10. CASE UNCHANGED vars
    BY <1>10 DEF vars, backendVars, piVars, Typed
  <1> QED
    BY <1>1, <1>2, <1>3, <1>4, <1>5, <1>6, <1>7, <1>8, <1>9, <1>10 DEF Next

\* A refused report is not forgotten: nothing else goes wrong after it.
LEMMA RefusalStays ==
  ASSUME Next, mishap = "report refused"
  PROVE  mishap' = "report refused"
  <1> USE DEF Lets, Fails
  <1>1. CASE \/ \E v \in Vehicles : VehicleComes(v)
             \/ VehicleIsSensedAgain \/ VehicleGoes \/ NodeRestarts
             \/ Recognition \/ PiTimeout \/ PiClock
    BY <1>1 DEF VehicleComes, VehicleIsSensedAgain, VehicleGoes, NodeRestarts, Recognition,
                PiTimeout, PiClock
  <1>2. CASE PiTakes
    BY <1>2 DEF PiTakes
  <1>3. CASE RequestOrSweep \/ CloseConflict \/ Tick \/ Publish
    BY <1>3 DEF RequestOrSweep, KeepsTurn, CloseConflict, Tick, Publish
  <1>4. CASE BackendTakes
    BY <1>4 DEF BackendTakes, KeepsTurn
  <1>5. CASE \/ PiLinkBreaks \/ CommandIsResent \/ PiRestarts \/ PiConnects
             \/ BackendLinkBreaks \/ BackendCrashes \/ BackendConnects
    BY <1>5 DEF PiLinkBreaks, CommandIsResent, PiRestarts, PiConnects,
                BackendLinkBreaks, BackendCrashes, BackendConnects
  <1> QED BY <1>1, <1>2, <1>3, <1>4, <1>5 DEF Next

-----------------------------------------------------------------------------
(***************************************************************************)
(* The mirror and the Pi.  Unless a resync will follow, the last report on *)
(* its way is the truth; with none on its way the mirror shows the truth,  *)
(* or a command is pending that will make the Pi report, or the Pi ignored *)
(* one for a reservation not over yet.  A create command alone does not    *)
(* make a Pi in conflict report: such a Pi needs another one.              *)
(***************************************************************************)
ResyncDue ==
  ~ piLinked \/ ~ backendLinked \/ \E i \in DOMAIN down : down[i] = Resync

Pending(c) ==
  (\E i \in DOMAIN down : down[i] = c) \/ \E t \in B!Threads : outbox[t] = c

MayDiffer ==
  \/ \E c \in B!Commands : Pending(c) /\ (Stops(c) \/ Live(c.res))
  \/ \E c \in unheard : Live(c.res)

ConflictEnds ==
  \E c \in B!Commands : Pending(c) /\ (Stops(c) \/ (c.action = "check_in" /\ Live(c.res)))

AllTold == ~ ResyncDue /\ mishap # "report refused" /\ NoStateOnItsWay

MirrorInv ==
  /\ ~ ResyncDue => LastReportIsTrue
  /\ AllTold => mirror[Bay] = state \/ MayDiffer
  /\ AllTold /\ state = "conflict" => mirror[Bay] = "conflict" \/ ConflictEnds

LEMMA NoCommandIsNone == \A c \in B!Commands : c # B!NoCommand
  BY DEF B!Commands, B!Actions, B!NoCommand

LEMMA CommandsStay ==
  ASSUME Typed, BackendMoves, UNCHANGED <<down, unheard>>
  PROVE  /\ MayDiffer => MayDiffer'
         /\ ConflictEnds => ConflictEnds'
         /\ \A c \in B!Commands :
              Announces(c) => /\ MayDiffer'
                              /\ c.action # "create" => ConflictEnds'
  <1>1. ASSUME NEW c \in B!Commands, Pending(c)
        PROVE  Pending(c)'
    <2>1. ASSUME NEW t \in B!Threads, outbox[t] = c
          PROVE  outbox'[t] = c
      BY <2>1, NoCommandIsNone DEF BackendMoves, MovesOn, Announces, B!Idle, Typed
    <2> QED BY <1>1, <2>1 DEF Pending
  <1>2. ASSUME NEW c \in B!Commands, Announces(c)
        PROVE  Pending(c)'
    BY <1>2 DEF Announces, Pending, Typed
  <1>3. ASSUME NEW c \in B!Commands, Announces(c)
        PROVE  Stops(c) \/ (Live(c.res)' /\ c.action \in {"create", "check_in"})
    BY <1>3 DEF Announces, Books, Renews, Ends, ChecksIn, Becomes, Live, Typed, B!Commands,
                B!LiveStatuses, B!OpenStatuses
  <1>4. ASSUME NEW r \in Reservations, Live(r), ~ Live(r)'
        PROVE  \E c \in B!Commands : Announces(c) /\ Stops(c)
    <2> USE DEF Live, Typed, Becomes, B!LiveStatuses, B!OpenStatuses
    <2>1. CASE MovesOn
      BY <1>4, <2>1 DEF MovesOn
    <2>2. ASSUME NEW c \in B!Commands, Announces(c)
          PROVE  Stops(c)
      BY <1>4, <2>2 DEF Announces, Books, Renews, Ends, ChecksIn, B!Commands
    <2> QED BY <2>1, <2>2 DEF BackendMoves
  <1>5. \A c \in B!Commands : c.res \in Reservations
    BY DEF B!Commands
  <1>6. \A c \in unheard : c \in B!Commands
    BY DEF Typed
  <1> QED
    BY <1>1, <1>2, <1>3, <1>4, <1>5, <1>6 DEF MayDiffer, ConflictEnds, Stops

\* Only what it holds matters to the mirror, not how a step came about.
LEMMA MirrorUntouched ==
  ASSUME MirrorInv, UNCHANGED <<status, mirror, state, up, linkVars, unheard>>,
         mishap = "report refused" => mishap' = "report refused",
         ResyncDue => ResyncDue',
         \A c \in B!Commands : Pending(c) => Pending(c)'
  PROVE  MirrorInv'
  <1>1. (LastReportIsTrue <=> LastReportIsTrue') /\ (NoStateOnItsWay <=> NoStateOnItsWay')
    BY DEF LastReportIsTrue, NoStateOnItsWay
  <1>2. (MayDiffer => MayDiffer') /\ (ConflictEnds => ConflictEnds')
    BY DEF MayDiffer, ConflictEnds, Live
  <1> QED BY <1>1, <1>2 DEF MirrorInv, AllTold

LEMMA MirrorPiStep ==
  ASSUME Typed, MirrorInv, PiSpeaks, UNCHANGED <<backendVars, down, linkVars, unheard>>,
         mishap = "report refused" => mishap' = "report refused"
  PROVE  MirrorInv'
  <1>1. (ResyncDue <=> ResyncDue') /\ \A c : Pending(c) <=> Pending(c)'
    BY DEF ResyncDue, Pending, linkVars, backendVars
  <1>2. CASE UNCHANGED <<state, up>>
    BY <1>1, <1>2, MirrorUntouched DEF backendVars
  <1>3. CASE TellsState
    BY <1>1, <1>3, StateIsTold DEF PiSpeaks, MirrorInv, AllTold, ResyncDue
  <1> QED BY <1>2, <1>3 DEF PiSpeaks

LEMMA TailKeepsRest ==
  ASSUME NEW S, NEW s \in Seq(S), s # <<>>
  PROVE  /\ Head(s) = s[1] /\ 1 \in DOMAIN s
         /\ \A i \in DOMAIN s : i # 1 => i - 1 \in DOMAIN Tail(s) /\ Tail(s)[i - 1] = s[i]
         /\ \A i \in DOMAIN Tail(s) : i + 1 \in DOMAIN s /\ Tail(s)[i] = s[i + 1]
         /\ DOMAIN s \subseteq Nat \ {0} /\ DOMAIN Tail(s) \subseteq Nat \ {0}
  OBVIOUS

LEMMA LaterPlaces ==
  /\ \A i, j \in Nat \ {0} : j > i + 1 => j # 1 /\ j - 1 > i
  /\ ~ (1 > 1)
  OBVIOUS

LEMMA ResyncIsNoCommand == Resync \notin B!Commands
  BY DEF Resync, B!Commands, B!Actions

\* Whatever the Pi does with a command that it does not answer.
LEMMA UnansweredCommand ==
  ASSUME Typed, NEW m \in B!Commands, UNCHANGED <<status, state, mirror>>,
         \A c : Pending(c) /\ c # m => Pending(c)',
         \/ Accepted(m) /\ ~ TellsState /\ unheard' = {c \in unheard : c.res # m.res}
         \/ PiIgnores(m) /\ unheard' = {c \in unheard : c.res # m.res} \cup {m}
  PROVE  IF state = "conflict" THEN ConflictEnds => ConflictEnds' /\ MayDiffer'
                               ELSE MayDiffer => MayDiffer'
  <1>1. \A r : Live(r)' <=> Live(r)
    BY DEF Live
  <1>2. m.action \in {"create", "check_in"} /\ (m.action = "check_in" => state # "conflict")
    BY ResyncIsNoCommand DEF Accepted, PiIgnores
  <1>3. ASSUME state = "conflict", ConflictEnds PROVE ConflictEnds' /\ MayDiffer'
    <2>1. PICK c \in B!Commands : Pending(c) /\ (Stops(c) \/ (c.action = "check_in" /\ Live(c.res)))
      BY <1>3 DEF ConflictEnds
    <2>2. c # m
      BY <1>2, <1>3, <2>1 DEF Stops
    <2> QED BY <1>1, <2>1, <2>2 DEF ConflictEnds, MayDiffer, Stops
  <1>4. ASSUME state # "conflict", MayDiffer PROVE MayDiffer'
    <2>1. unheard' = {c \in unheard : c.res # m.res} \cup {m}
      BY <1>2, <1>4, ResyncIsNoCommand DEF Accepted, Stops
    <2>2. ASSUME NEW c \in B!Commands, Pending(c), Stops(c) \/ Live(c.res) PROVE MayDiffer'
      <3>1. CASE c = m
        BY <1>1, <1>2, <2>1, <2>2, <3>1 DEF MayDiffer, Stops
      <3>2. CASE c # m
        BY <1>1, <2>2, <3>2 DEF MayDiffer, Stops
      <3> QED BY <3>1, <3>2
    <2>3. ASSUME NEW c \in unheard, Live(c.res) PROVE MayDiffer'
      BY <1>1, <2>1, <2>3 DEF MayDiffer
    <2> QED BY <1>4, <2>2, <2>3 DEF MayDiffer
  <1> QED BY <1>3, <1>4

LEMMA MirrorPiTakes ==
  ASSUME Typed, MirrorInv, PiTakes,
         mishap = "report refused" => mishap' = "report refused"
  PROVE  MirrorInv'
  <1>1. PICK m : m = Head(down)
    OBVIOUS
  <1>2. /\ PiSpeaks /\ m \in B!Commands \cup {Resync}
        /\ \/ Accepted(m) /\ unheard' = {c \in unheard : c.res # m.res}
           \/ /\ PiIgnores(m) /\ m \in B!Commands
              /\ UNCHANGED <<piVars, up>>
              /\ unheard' = {c \in unheard : c.res # m.res} \cup {m}
    BY <1>1, PiTakesCommand
  <1>3. /\ piLinked /\ backendLinked /\ down # <<>> /\ down' = Tail(down)
        /\ UNCHANGED <<backendVars, linkVars>>
    BY DEF PiTakes
  <1>4. \A i \in DOMAIN down : down[i] # m => i - 1 \in DOMAIN down' /\ down'[i - 1] = down[i]
    <2>1. down \in Seq(B!Commands \cup {Resync})
      BY DEF Typed
    <2> QED BY <1>1, <1>3, <2>1, TailKeepsRest
  <1>5. \A c : Pending(c) /\ c # m => Pending(c)'
    BY <1>3, <1>4 DEF Pending, backendVars
  <1>6. CASE TellsState
    BY <1>2, <1>3, <1>6, StateIsTold DEF PiSpeaks, MirrorInv, AllTold, linkVars
  <1>7. CASE ~ TellsState
    <2>1. m \in B!Commands /\ UNCHANGED <<state, up, status, mirror>>
      <3>1. m # Resync
        <4>1. Accepted(Resync) => TellsState
          BY DEF Accepted, Stops, Resync
        <4> QED BY <1>2, <1>7, <4>1, ResyncIsNoCommand
      <3>2. UNCHANGED <<state, up>>
        BY <1>2, <1>7 DEF PiSpeaks
      <3> QED BY <1>2, <1>3, <3>1, <3>2 DEF backendVars
    <2>2. ResyncDue => ResyncDue'
      BY <1>3, <1>4, <2>1, ResyncIsNoCommand DEF ResyncDue, linkVars
    <2>3. (LastReportIsTrue <=> LastReportIsTrue') /\ (NoStateOnItsWay <=> NoStateOnItsWay')
      BY <2>1 DEF LastReportIsTrue, NoStateOnItsWay
    <2>4. IF state = "conflict" THEN ConflictEnds => ConflictEnds' /\ MayDiffer'
                                ELSE MayDiffer => MayDiffer'
      BY <1>2, <1>5, <1>7, <2>1, UnansweredCommand
    <2> QED BY <2>1, <2>2, <2>3, <2>4 DEF MirrorInv, AllTold
  <1> QED BY <1>6, <1>7

\* What the backend says of its own accord: it announces every change.
LEMMA MirrorRequest ==
  ASSUME Typed, MirrorInv, RequestOrSweep,
         mishap = "report refused" => mishap' = "report refused"
  PROVE  MirrorInv'
  <1>1. PICK c \in B!Commands : Volunteers(c)
    BY RequestOrSweepMoves
  <1>2. UNCHANGED <<state, up, down, piLinked, backendLinked, unheard>>
    BY DEF RequestOrSweep, BackendOnly, piVars, linkVars
  <1>3. MayDiffer' /\ (ConflictEnds => ConflictEnds') /\ (c.action # "create" => ConflictEnds')
    BY <1>1, <1>2, CommandsStay DEF BackendMoves, Volunteers
  <1>4. (LastReportIsTrue <=> LastReportIsTrue') /\ (AllTold' => AllTold)
        /\ (ResyncDue <=> ResyncDue')
    BY <1>2 DEF LastReportIsTrue, AllTold, ResyncDue, NoStateOnItsWay
  <1>5. c.action = "create" => mirror[Bay] # "conflict"
    BY <1>1 DEF Volunteers, Announces, Ends, ChecksIn, Stops
  <1> QED BY <1>2, <1>3, <1>4, <1>5 DEF MirrorInv

\* A taken report makes the mirror follow, or announces a change.
LEMMA MirrorReport ==
  ASSUME Typed, MirrorInv, BackendTakes,
         mishap = "report refused" => mishap' = "report refused"
  PROVE  MirrorInv'
  <1>1. PICK m : m = Head(up)
    OBVIOUS
  <1>2. /\ up # <<>> /\ up' = Tail(up)
        /\ UNCHANGED <<state, down, piLinked, backendLinked, unheard>>
    BY DEF BackendTakes, BackendOnly, piVars, linkVars
  <1>3. /\ m = up[1] /\ 1 \in DOMAIN up
        /\ \A i \in DOMAIN up : i # 1 => i - 1 \in DOMAIN up' /\ up'[i - 1] = up[i]
        /\ \A i \in DOMAIN up' : i + 1 \in DOMAIN up /\ up'[i] = up[i + 1]
        /\ DOMAIN up \subseteq Nat \ {0} /\ DOMAIN up' \subseteq Nat \ {0}
    <2>1. up \in Seq(Reported)
      BY DEF Typed
    <2> QED BY <1>1, <1>2, <2>1, TailKeepsRest
  <1>4. ASSUME LastReportIsTrue PROVE LastReportIsTrue'
    <2> SUFFICES ASSUME NEW i \in DOMAIN up',
                        \A j \in DOMAIN up' : j > i => up'[j].topic # "state"
                 PROVE  Implied(up'[i]) = state'
      BY DEF LastReportIsTrue, Implied
    <2>1. ASSUME NEW j \in DOMAIN up, j > i + 1
          PROVE  up[j].topic # "state"
      <3>1. i \in Nat \ {0} /\ j \in Nat \ {0}
        BY <1>3
      <3>2. j # 1 /\ j - 1 > i
        BY <2>1, <3>1, LaterPlaces, Zenon
      <3> QED BY <1>3, <3>2
    <2> QED BY <1>2, <1>3, <1>4, <2>1 DEF LastReportIsTrue
  <1>5. ASSUME NoStateOnItsWay', LastReportIsTrue PROVE Implied(m) = state
    <2>1. ASSUME NEW j \in DOMAIN up, j > 1
          PROVE  up[j].topic # "state"
      <3>1. j # 1
        BY <2>1, LaterPlaces, Zenon
      <3> QED BY <1>3, <1>5, <3>1 DEF NoStateOnItsWay
    <2> QED BY <1>3, <1>5, <2>1 DEF LastReportIsTrue
  <1>6. NoStateOnItsWay' => NoStateOnItsWay \/ m.topic = "state"
    BY <1>3 DEF NoStateOnItsWay
  <1>7. (ResyncDue <=> ResyncDue') /\ (~ ResyncDue' => LastReportIsTrue /\ LastReportIsTrue')
    BY <1>2, <1>4 DEF ResyncDue, MirrorInv
  <1>8. ASSUME AllTold'
        PROVE  /\ mirror'[Bay] = state' \/ MayDiffer'
               /\ state' = "conflict" => mirror'[Bay] = "conflict" \/ ConflictEnds'
    <2>1. LastReportIsTrue /\ Implied(m) = state /\ mishap' # "report refused"
      BY <1>5, <1>7, <1>8 DEF AllTold
    <2>2. AllTold \/ m.topic = "state"
      BY <1>6, <1>7, <1>8 DEF AllTold
    <2>3. /\ m \in Reported /\ BackendMoves
          /\ \/ MovesOn /\ mirror'[Bay] = Implied(m)
             \/ UNCHANGED <<status, outbox, mirror>>
                  /\ (m.topic = "state" /\ mishap' # "report refused" => m.name = mirror[Bay])
             \/ \E c \in B!Commands : Announces(c) /\ ~ Books(c) /\ m.name # "conflict"
                                        /\ m.topic = "state"
      BY <1>1, ReportMoves
    <2>4. /\ MayDiffer => MayDiffer'
          /\ ConflictEnds => ConflictEnds'
          /\ \A c \in B!Commands : Announces(c) => MayDiffer'
      BY <1>2, <2>3, CommandsStay
    <2>5. m.topic = "state" => Implied(m) = m.name
      BY DEF Implied
    <2> QED BY <1>2, <2>1, <2>2, <2>3, <2>4, <2>5 DEF MirrorInv
  <1> QED BY <1>7, <1>8 DEF MirrorInv

LEMMA EmptyAndSingle ==
  /\ DOMAIN <<>> = {}
  /\ 1 \in DOMAIN <<Resync>> /\ <<Resync>>[1] = Resync
  OBVIOUS

LEMMA LastPlaces ==
  ASSUME NEW s \in Seq(B!Commands \cup {Resync}), NEW m \in B!Commands \cup {Resync}
  PROVE  /\ \A i \in DOMAIN s : i \in DOMAIN Append(s, m) /\ Append(s, m)[i] = s[i]
         /\ Len(s) + 1 \in DOMAIN Append(s, m) /\ Append(s, m)[Len(s) + 1] = m
         /\ \A i \in DOMAIN s : i \in DOMAIN (s \o s) /\ (s \o s)[i] = s[i]
  OBVIOUS

LEMMA MirrorPublish ==
  ASSUME Typed, MirrorInv, Publish
  PROVE  MirrorInv'
  <1>1. PICK t \in B!Threads : /\ outbox[t] # B!NoCommand
                               /\ outbox' = [outbox EXCEPT ![t] = B!NoCommand]
                               /\ down' = IF piLinked THEN Append(down, outbox[t]) ELSE down
    BY DEF Publish, B!Publish, B!Idle
  <1>2. UNCHANGED <<status, mirror, state, up, linkVars, unheard, mishap>>
    BY OtherSteps DEF Unmoved
  <1>3. down \in Seq(B!Commands \cup {Resync}) /\ outbox[t] \in B!Commands
    BY <1>1 DEF Typed
  <1>4. CASE piLinked
    <2>0. /\ \A i \in DOMAIN down : i \in DOMAIN down' /\ down'[i] = down[i]
          /\ \E i \in DOMAIN down' : down'[i] = outbox[t]
          /\ \A u \in B!Threads : u # t => outbox'[u] = outbox[u]
      <3>1. down' = Append(down, outbox[t])
        BY <1>1, <1>4
      <3>2. \A u \in B!Threads : u # t => outbox'[u] = outbox[u]
        BY <1>1 DEF Typed
      <3> QED BY <1>3, <3>1, <3>2, LastPlaces
    <2>1. (ResyncDue => ResyncDue') /\ \A c \in B!Commands : Pending(c) => Pending(c)'
      BY <1>2, <2>0 DEF ResyncDue, Pending, linkVars
    <2> QED BY <1>2, <2>1, MirrorUntouched
  <1>5. CASE ~ piLinked
    BY <1>2, <1>5 DEF MirrorInv, AllTold, ResyncDue, linkVars
  <1> QED BY <1>4, <1>5

\* Every loss is followed by a resync.
LEMMA MirrorTransport ==
  ASSUME Typed, MirrorInv,
         \/ PiLinkBreaks \/ CommandIsResent \/ PiRestarts \/ PiConnects
         \/ BackendLinkBreaks \/ BackendCrashes \/ BackendConnects,
         mishap = "report refused" => mishap' = "report refused"
  PROVE  MirrorInv'
  <1>1. down \in Seq(B!Commands \cup {Resync})
    BY DEF Typed
  <1>2. CASE CommandIsResent
    <2>1. /\ down' = down \o down
          /\ UNCHANGED <<backendVars, piVars, up, linkVars, unheard>>
      BY <1>2 DEF CommandIsResent
    <2>2. (ResyncDue => ResyncDue') /\ \A c \in B!Commands : Pending(c) => Pending(c)'
      BY <1>1, <2>1, LastPlaces DEF ResyncDue, Pending, linkVars, backendVars
    <2> QED BY <2>1, <2>2, MirrorUntouched DEF backendVars, piVars
  <1>3. CASE PiLinkBreaks \/ PiRestarts \/ BackendLinkBreaks \/ BackendCrashes
    BY <1>3 DEF PiLinkBreaks, PiRestarts, BackendLinkBreaks, BackendCrashes, MirrorInv, AllTold,
                ResyncDue
  <1>4. CASE PiConnects
    <2>0. down' = <<Resync>>
      BY <1>4 DEF PiConnects
    <2>1. 1 \in DOMAIN down' /\ down'[1] = Resync
      BY <2>0, EmptyAndSingle, Zenon
    <2> QED BY <2>1 DEF MirrorInv, AllTold, ResyncDue
  <1>5. CASE BackendConnects
    <2>1. down' = Append(down, Resync)
      BY <1>5 DEF BackendConnects
    <2>2. ResyncDue'
      BY <1>1, <2>1, LastPlaces DEF ResyncDue
    <2> QED BY <2>2 DEF MirrorInv, AllTold
  <1> QED BY <1>2, <1>3, <1>4, <1>5

LEMMA MirrorStep ==
  ASSUME Typed, MirrorInv, [Next]_vars
  PROVE  MirrorInv'
  <1>1. CASE Next
    <2>1. mishap = "report refused" => mishap' = "report refused"
      BY <1>1, RefusalStays
    <2>2. CASE \/ \E v \in Vehicles : VehicleComes(v)
               \/ VehicleIsSensedAgain \/ VehicleGoes \/ NodeRestarts
               \/ Recognition \/ PiTimeout \/ PiClock
      BY <2>1, <2>2, PiStepSpeaks, MirrorPiStep
    <2>3. CASE PiTakes
      BY <2>1, <2>3, MirrorPiTakes
    <2>4. CASE RequestOrSweep
      BY <2>1, <2>4, MirrorRequest
    <2>5. CASE CloseConflict \/ Tick
      <3>1. UNCHANGED <<status, mirror, state, up, linkVars, unheard, down, outbox>>
        BY <2>5, OtherSteps DEF Unmoved
      <3>2. (ResyncDue => ResyncDue') /\ \A c \in B!Commands : Pending(c) => Pending(c)'
        BY <3>1 DEF ResyncDue, Pending, linkVars
      <3> QED BY <2>1, <3>1, <3>2, MirrorUntouched
    <2>6. CASE Publish
      BY <2>6, MirrorPublish
    <2>7. CASE BackendTakes
      BY <2>1, <2>7, MirrorReport
    <2>8. CASE \/ PiLinkBreaks \/ CommandIsResent \/ PiRestarts \/ PiConnects
               \/ BackendLinkBreaks \/ BackendCrashes \/ BackendConnects
      BY <2>1, <2>8, MirrorTransport
    <2> QED BY <1>1, <2>2, <2>3, <2>4, <2>5, <2>6, <2>7, <2>8 DEF Next
  <1>2. CASE UNCHANGED vars
    <2>1. UNCHANGED <<status, mirror, state, up, linkVars, unheard, down, outbox, mishap>>
      BY <1>2 DEF vars, backendVars, piVars
    <2>2. (ResyncDue => ResyncDue') /\ \A c \in B!Commands : Pending(c) => Pending(c)'
      BY <2>1 DEF ResyncDue, Pending, linkVars
    <2> QED BY <2>1, <2>2, MirrorUntouched
  <1> QED BY <1>1, <1>2

LEMMA MirrorInitially == Init => MirrorInv
  BY DEF Init, MirrorInv, AllTold, ResyncDue

LEMMA MirrorInvSuffices ==
  ASSUME Typed, MirrorInv
  PROVE  MirrorAgrees
  <1> SUFFICES ASSUME Quiet, mishap # "report refused", mirror[Bay] # state,
                      \A r \in Reservations : Live(r) => Heard(r)
               PROVE  FALSE
    BY DEF MirrorAgrees, Live
  <1>0. /\ DOMAIN down = {} /\ DOMAIN up = {} /\ piLinked /\ backendLinked
        /\ \A t \in B!Threads : outbox[t] = B!NoCommand
    <2>1. down = <<>> /\ up = <<>> /\ piLinked /\ backendLinked
      BY DEF Quiet
    <2>2. \A t \in B!Threads : outbox[t] = B!NoCommand
      BY DEF Quiet, B!Idle
    <2> QED BY <2>1, <2>2, EmptyAndSingle, Zenon
  <1>1. \A c \in B!Commands : ~ Pending(c)
    BY <1>0, NoCommandIsNone DEF Pending
  <1>2. ~ ResyncDue /\ NoStateOnItsWay
    BY <1>0 DEF ResyncDue, NoStateOnItsWay
  <1>3. ~ MayDiffer
    <2>1. \A c \in unheard : c.res \in Reservations
      BY DEF Typed, B!Commands
    <2> QED BY <1>1, <2>1 DEF MayDiffer, Heard
  <1> QED BY <1>2, <1>3 DEF MirrorInv, AllTold

\* The tables, the messages on their way and what is remembered have their types.
THEOREM ParkReserveTyped == Spec => []Typed
  BY TypedInitially, TypedStep, PTL DEF Spec

\* Whatever was lost, delayed, resent or misdirected and whoever restarted, the
\* mirror and the Pi agree again once every message has been taken, unless a
\* constraint refused a report or the Pi ignored a command for a reservation
\* not over yet.
THEOREM MirrorIsTold == Spec => []MirrorAgrees
  <1>1. Init => Typed /\ MirrorInv
    BY TypedInitially, MirrorInitially
  <1>2. Typed /\ MirrorInv /\ [Next]_vars => (Typed /\ MirrorInv)'
    BY TypedStep, MirrorStep
  <1>3. Typed /\ MirrorInv => MirrorAgrees
    BY MirrorInvSuffices
  <1> QED BY <1>1, <1>2, <1>3, PTL DEF Spec

-----------------------------------------------------------------------------
(***************************************************************************)
(* The holder the Pi keeps the bay for.  As long as nothing went wrong, a  *)
(* command that stops the holder follows whatever names a reservation that *)
(* is over: behind it on the link, or still in the hand of a thread.       *)
(***************************************************************************)
Cleared(i) ==
  (\E j \in DOMAIN down : j > i /\ Stops(down[j])) \/ \E t \in B!Threads : Stops(outbox[t])

OneHolds == \A t, u \in B!Threads : t # u => B!Idle(t) \/ B!Idle(u)

HolderGoes == cached # NoRes /\ ~ Open(cached) => Cleared(0)
CreatedGoes ==
  \A i \in DOMAIN down : down[i].action = "create" /\ ~ Open(down[i].res) => Cleared(i)
InHandIsOpen == \A t \in B!Threads : outbox[t].action = "create" => Open(outbox[t].res)

GhostInv ==
  AllWell => /\ piLinked /\ backendLinked
             /\ OneHolds
             /\ HolderGoes /\ CreatedGoes /\ InHandIsOpen

\* A behaviour in which all is well has been so from the start.
LEMMA WellBefore ==
  ASSUME Next, AllWell'
  PROVE  AllWell
  <1> USE DEF AllWell, Lets, Fails
  <1>1. CASE \/ \E v \in Vehicles : VehicleComes(v)
             \/ VehicleIsSensedAgain \/ VehicleGoes \/ NodeRestarts
             \/ Recognition \/ PiTimeout \/ PiClock
    BY <1>1 DEF VehicleComes, VehicleIsSensedAgain, VehicleGoes, NodeRestarts, Recognition,
                PiTimeout, PiClock
  <1>2. CASE PiTakes
    BY <1>2 DEF PiTakes
  <1>3. CASE RequestOrSweep \/ CloseConflict \/ Tick \/ Publish
    BY <1>3 DEF RequestOrSweep, KeepsTurn, CloseConflict, Tick, Publish
  <1>4. CASE BackendTakes
    BY <1>4 DEF BackendTakes, KeepsTurn
  <1>5. CASE \/ PiLinkBreaks \/ CommandIsResent \/ PiRestarts \/ PiConnects
             \/ BackendLinkBreaks \/ BackendCrashes \/ BackendConnects
    BY <1>5 DEF PiLinkBreaks, CommandIsResent, PiRestarts, PiConnects,
                BackendLinkBreaks, BackendCrashes, BackendConnects
  <1> QED BY <1>1, <1>2, <1>3, <1>4, <1>5 DEF Next

\* In it a thread publishes before another one commits, and no link breaks.
LEMMA TurnsAreKept ==
  ASSUME AllWell', RequestOrSweep \/ BackendTakes
  PROVE  outbox' = outbox \/ \A t \in B!Threads : B!Idle(t)
  BY DEF RequestOrSweep, BackendTakes, KeepsTurn, Lets, AllWell, backendVars

LEMMA NothingBreaks ==
  ASSUME AllWell'
  PROVE  ~ (PiLinkBreaks \/ PiRestarts \/ BackendLinkBreaks \/ BackendCrashes)
  BY DEF PiLinkBreaks, PiRestarts, BackendLinkBreaks, BackendCrashes, Fails, AllWell

LEMMA NoCommandSaysNothing == ~ Stops(B!NoCommand) /\ B!NoCommand.action # "create"
  BY DEF Stops, B!NoCommand

\* The backend's step keeps every stop in hand, and a reservation that ceases
\* to be open is announced.
LEMMA StopsStay ==
  ASSUME Typed, BackendMoves, outbox' = outbox \/ \A t \in B!Threads : B!Idle(t),
         OneHolds, InHandIsOpen
  PROVE  /\ OneHolds' /\ InHandIsOpen'
         /\ (\E t \in B!Threads : Stops(outbox[t])) => \E t \in B!Threads : Stops(outbox'[t])
         /\ \A r \in Reservations :
              Open(r) => Open(r)' \/ \E t \in B!Threads : Stops(outbox'[t])
  <1>1. CASE MovesOn
    <2>1. \A r \in Reservations : Open(r) => Open(r)'
      BY <1>1 DEF MovesOn, Becomes, Open, Typed, B!OpenStatuses
    <2>2. \A t \in B!Threads : outbox[t].action = "create" => outbox[t].res \in Reservations
      BY NoCommandSaysNothing DEF Typed, B!Commands
    <2> QED BY <1>1, <2>1, <2>2 DEF MovesOn, OneHolds, InHandIsOpen, B!Idle
  <1>2. ASSUME NEW c \in B!Commands, Announces(c)
        PROVE  /\ OneHolds' /\ InHandIsOpen'
               /\ (\E t \in B!Threads : Stops(outbox[t])) => \E t \in B!Threads : Stops(outbox'[t])
               /\ \A r \in Reservations :
                    Open(r) => Open(r)' \/ \E t \in B!Threads : Stops(outbox'[t])
    <2>1. PICK t \in B!Threads : outbox' = [outbox EXCEPT ![t] = c]
      BY <1>2 DEF Announces
    <2>2. outbox'[t] = c /\ \A u \in B!Threads : u # t => outbox'[u] = outbox[u]
      BY <2>1 DEF Typed
    <2>3. outbox' # outbox
      BY <1>2, <2>2, NoCommandIsNone DEF Announces, B!Idle, Typed
    <2>3a. \A u \in B!Threads : outbox[u] = B!NoCommand
      BY <1>2, <2>3 DEF B!Idle
    <2>4. OneHolds' /\ ~ \E u \in B!Threads : Stops(outbox[u])
      BY <2>2, <2>3a, NoCommandSaysNothing DEF OneHolds, B!Idle
    <2>5. c.action = "create" => Open(c.res)'
      BY <1>2 DEF Announces, Books, Renews, Ends, ChecksIn, Stops, Becomes, Open, Typed,
                  B!Commands, B!OpenStatuses
    <2>6. \A r \in Reservations : Open(r) => Open(r)' \/ Stops(c)
      BY <1>2 DEF Announces, Books, Renews, ChecksIn, Ends, Becomes, Open, Typed,
                  B!Commands, B!OpenStatuses
    <2>7. InHandIsOpen'
      BY <2>2, <2>3a, <2>5, NoCommandSaysNothing DEF InHandIsOpen
    <2> QED BY <2>1, <2>2, <2>4, <2>6, <2>7
  <1> QED BY <1>1, <1>2 DEF BackendMoves

LEMMA GhostBackend ==
  ASSUME Typed, GhostInv, AllWell, AllWell', RequestOrSweep \/ BackendTakes
  PROVE  GhostInv'
  <1>1. BackendMoves /\ (outbox' = outbox \/ \A t \in B!Threads : B!Idle(t))
    BY TurnsAreKept, RequestOrSweepMoves, ReportMoves DEF BackendMoves, Volunteers
  <1>2. UNCHANGED <<cached, down, piLinked, backendLinked>>
    BY DEF RequestOrSweep, BackendTakes, BackendOnly, piVars, linkVars
  <1>3. /\ OneHolds' /\ InHandIsOpen'
        /\ (\E t \in B!Threads : Stops(outbox[t])) => \E t \in B!Threads : Stops(outbox'[t])
        /\ \A r \in Reservations :
             Open(r) => Open(r)' \/ \E t \in B!Threads : Stops(outbox'[t])
    BY <1>1, StopsStay DEF GhostInv
  <1>4. ASSUME NEW i, NEW r \in Reservations, ~ Open(r) => Cleared(i)
        PROVE  ~ Open(r)' => Cleared(i)'
    BY <1>2, <1>3, <1>4 DEF Cleared
  <1>5. HolderGoes'
    BY <1>2, <1>4 DEF HolderGoes, GhostInv, Typed
  <1>6. \A i \in DOMAIN down : down[i].action = "create" => down[i].res \in Reservations
    BY DEF Typed, Resync, B!Commands
  <1>7. CreatedGoes'
    BY <1>2, <1>4, <1>6 DEF CreatedGoes, GhostInv
  <1> QED BY <1>2, <1>3, <1>5, <1>7 DEF GhostInv

\* What a step keeps that moves no reservation and no command.
LEMMA GhostUntouched ==
  ASSUME GhostInv, AllWell, UNCHANGED <<status, outbox, down, linkVars>>,
         cached' \in {cached, NoRes}
  PROVE  GhostInv'
  <1>1. (\A i : Cleared(i) <=> Cleared(i)') /\ (\A r : Open(r) <=> Open(r)')
    BY DEF Cleared, Open
  <1>2. /\ (OneHolds <=> OneHolds') /\ (InHandIsOpen <=> InHandIsOpen')
        /\ (CreatedGoes <=> CreatedGoes')
    BY <1>1 DEF OneHolds, InHandIsOpen, CreatedGoes, B!Idle, Open
  <1>3. HolderGoes => HolderGoes'
    BY <1>1 DEF HolderGoes, NoRes
  <1> QED BY <1>2, <1>3 DEF GhostInv, linkVars

LEMMA NewPlace ==
  ASSUME NEW s \in Seq(B!Commands \cup {Resync}), NEW m \in B!Commands \cup {Resync}
  PROVE  /\ \A i \in DOMAIN Append(s, m) : i \in DOMAIN s \/ i = Len(s) + 1
         /\ \A i \in DOMAIN s \cup {0} : Len(s) + 1 > i
  OBVIOUS

LEMMA GhostPublish ==
  ASSUME Typed, GhostInv, AllWell, Publish
  PROVE  GhostInv'
  <1>1. PICK t \in B!Threads : /\ outbox[t] # B!NoCommand
                               /\ outbox' = [outbox EXCEPT ![t] = B!NoCommand]
                               /\ down' = IF piLinked THEN Append(down, outbox[t]) ELSE down
    BY DEF Publish, B!Publish, B!Idle
  <1>2. UNCHANGED <<status, linkVars, cached>>
    BY OtherSteps DEF Unmoved
  <1>3. down \in Seq(B!Commands \cup {Resync}) /\ outbox[t] \in B!Commands
    BY <1>1 DEF Typed
  <1>4. /\ outbox'[t] = B!NoCommand
        /\ \A u \in B!Threads : u # t => outbox[u] = B!NoCommand /\ outbox'[u] = B!NoCommand
    BY <1>1 DEF Typed, GhostInv, OneHolds, B!Idle
  <1>5. down' = Append(down, outbox[t])
    BY <1>1 DEF GhostInv
  <1> DEFINE n == Len(down) + 1
  <1>6. /\ \A i \in DOMAIN down : i \in DOMAIN down' /\ down'[i] = down[i]
        /\ n \in DOMAIN down' /\ down'[n] = outbox[t]
        /\ \A i \in DOMAIN down' : i \in DOMAIN down \/ i = n
        /\ \A i \in DOMAIN down \cup {0} : n > i
    BY <1>3, <1>5, LastPlaces, NewPlace
  <1> HIDE DEF n
  <1>7. \A i \in DOMAIN down \cup {0} : Cleared(i) => Cleared(i)'
    BY <1>4, <1>6 DEF Cleared
  <1>8. \A r : Open(r) <=> Open(r)'
    BY <1>2 DEF Open
  <1>9. HolderGoes'
    BY <1>2, <1>7, <1>8 DEF HolderGoes, GhostInv
  <1>10. CreatedGoes'
    <2>1. outbox[t].action = "create" => Open(outbox[t].res)
      BY DEF GhostInv, InHandIsOpen
    <2> QED BY <1>6, <1>7, <1>8, <2>1 DEF CreatedGoes, GhostInv
  <1>11. OneHolds' /\ InHandIsOpen'
    BY <1>4, NoCommandSaysNothing DEF OneHolds, InHandIsOpen, B!Idle
  <1> QED BY <1>2, <1>9, <1>10, <1>11 DEF GhostInv, linkVars

LEMMA GhostPiTakes ==
  ASSUME Typed, GhostInv, AllWell, PiTakes
  PROVE  GhostInv'
  <1>1. PICK m : m = Head(down)
    OBVIOUS
  <1>2. /\ m \in B!Commands \cup {Resync}
        /\ Accepted(m) \/ (PiIgnores(m) /\ m \in B!Commands /\ UNCHANGED piVars)
    BY <1>1, PiTakesCommand
  <1>3. /\ down # <<>> /\ down' = Tail(down)
        /\ UNCHANGED <<status, outbox, piLinked, backendLinked>>
    BY DEF PiTakes, backendVars, linkVars
  <1>4. /\ m = down[1] /\ 1 \in DOMAIN down
        /\ \A i \in DOMAIN down : i # 1 => i - 1 \in DOMAIN down' /\ down'[i - 1] = down[i]
        /\ \A i \in DOMAIN down' : i + 1 \in DOMAIN down /\ down'[i] = down[i + 1]
        /\ DOMAIN down \subseteq Nat \ {0} /\ DOMAIN down' \subseteq Nat \ {0}
    <2>1. down \in Seq(B!Commands \cup {Resync})
      BY DEF Typed
    <2> QED BY <1>1, <1>3, <2>1, TailKeepsRest
  <1>5. /\ Cleared(1) => Cleared(0)'
        /\ Cleared(0) /\ ~ Stops(m) => Cleared(0)'
        /\ \A i \in DOMAIN down' : Cleared(i + 1) => Cleared(i)'
    <2>1. ASSUME NEW t \in B!Threads, Stops(outbox[t]) PROVE \A i : Cleared(i)'
      BY <1>3, <2>1 DEF Cleared
    <2>2. ASSUME NEW j \in DOMAIN down, Stops(down[j]), j > 1 \/ ~ Stops(m)
          PROVE  Cleared(0)'
      <3>1. j # 1 /\ j \in Nat \ {0}
        BY <1>4, <2>2, LaterPlaces, Zenon
      <3>2. j - 1 > 0
        BY <3>1
      <3> QED BY <1>4, <2>2, <3>1, <3>2 DEF Cleared
    <2>3. ASSUME NEW i \in DOMAIN down', NEW j \in DOMAIN down, Stops(down[j]), j > i + 1
          PROVE  Cleared(i)'
      <3>1. i \in Nat \ {0} /\ j \in Nat \ {0}
        BY <1>4
      <3>2. j # 1 /\ j - 1 > i
        BY <2>3, <3>1, LaterPlaces, Zenon
      <3> QED BY <1>4, <2>3, <3>2 DEF Cleared
    <2> QED BY <2>1, <2>2, <2>3 DEF Cleared
  <1>6. \A r : Open(r) <=> Open(r)'
    BY <1>3 DEF Open
  <1>7. HolderGoes'
    <2>1. CASE Stops(m) /\ cached' = NoRes
      BY <2>1 DEF HolderGoes, NoRes
    <2>2. CASE m.action = "create" /\ cached' = m.res
      BY <1>4, <1>5, <1>6, <2>2 DEF HolderGoes, CreatedGoes, GhostInv
    <2>3. CASE ~ Stops(m) /\ cached' = cached
      BY <1>5, <1>6, <2>3 DEF HolderGoes, GhostInv
    <2>4. \/ Stops(m) /\ cached' = NoRes
          \/ m.action = "create" /\ cached' = m.res
          \/ ~ Stops(m) /\ cached' = cached
      BY <1>2 DEF Accepted, PiIgnores, Stops, Resync, piVars
    <2> QED BY <2>1, <2>2, <2>3, <2>4
  <1>8. CreatedGoes'
    BY <1>4, <1>5, <1>6 DEF CreatedGoes, GhostInv
  <1>9. OneHolds' /\ InHandIsOpen'
    BY <1>3, <1>6 DEF OneHolds, InHandIsOpen, GhostInv, B!Idle
  <1> QED BY <1>3, <1>7, <1>8, <1>9 DEF GhostInv

\* A copy of each command comes after everything that was on its way.
LEMMA Copies ==
  ASSUME NEW s \in Seq(B!Commands \cup {Resync}), NEW i \in DOMAIN (s \o s)
  PROVE  \E k \in DOMAIN s :
           /\ (s \o s)[i] = s[k]
           /\ \A j \in DOMAIN s : j > k =>
                \E l \in DOMAIN (s \o s) : l > i /\ (s \o s)[l] = s[j]
  <1> DEFINE n == Len(s)
  <1>1. /\ n \in Nat /\ DOMAIN s = 1..n /\ DOMAIN (s \o s) = 1..(n + n)
        /\ \A k \in 1..n : (s \o s)[k] = s[k] /\ (s \o s)[k + n] = s[k]
    OBVIOUS
  <1>2. i \in 1..(n + n)
    BY <1>1
  <1> HIDE DEF n
  <1>3. CASE i \in 1..n
    <2>1. \A j \in 1..n : j > i => j \in 1..(n + n)
      BY <1>1, <1>3
    <2> QED BY <1>1, <1>3, <2>1
  <1>4. CASE i \notin 1..n
    <2>1. i - n \in 1..n /\ i = (i - n) + n
      BY <1>1, <1>2, <1>4
    <2>2. \A j \in 1..n : j > i - n => j + n \in 1..(n + n) /\ j + n > i
      BY <1>1, <1>2, <1>4
    <2>3. \A j \in 1..n : j > i - n =>
            \E l \in DOMAIN (s \o s) : l > i /\ (s \o s)[l] = s[j]
      BY <1>1, <2>2
    <2>4. i - n \in DOMAIN s /\ (s \o s)[i] = s[i - n]
      BY <1>1, <2>1
    <2> QED BY <1>1, <2>3, <2>4
  <1> QED BY <1>3, <1>4

LEMMA GhostResent ==
  ASSUME Typed, GhostInv, AllWell, CommandIsResent
  PROVE  GhostInv'
  <1>1. /\ down' = down \o down
        /\ UNCHANGED <<status, outbox, cached, piLinked, backendLinked>>
    BY DEF CommandIsResent, backendVars, piVars, linkVars
  <1>2. down \in Seq(B!Commands \cup {Resync})
    BY DEF Typed
  <1>3. \A i \in DOMAIN down : i \in DOMAIN down' /\ down'[i] = down[i]
    BY <1>1, <1>2, LastPlaces
  <1>4. Cleared(0) => Cleared(0)'
    BY <1>1, <1>3 DEF Cleared
  <1>5. \A i \in DOMAIN down' : \E k \in DOMAIN down :
          down'[i] = down[k] /\ (Cleared(k) => Cleared(i)')
    <2>1. ASSUME NEW i \in DOMAIN down'
          PROVE  \E k \in DOMAIN down : down'[i] = down[k] /\ (Cleared(k) => Cleared(i)')
      <3>1. PICK k \in DOMAIN down :
              /\ down'[i] = down[k]
              /\ \A j \in DOMAIN down : j > k => \E l \in DOMAIN down' : l > i /\ down'[l] = down[j]
        BY <1>1, <1>2, Copies
      <3>2. Cleared(k) => Cleared(i)'
        BY <1>1, <3>1 DEF Cleared
      <3> QED BY <3>1, <3>2
    <2> QED BY <2>1
  <1>6. HolderGoes'
    BY <1>1, <1>4 DEF HolderGoes, GhostInv, Open
  <1>7. CreatedGoes'
    BY <1>1, <1>5 DEF CreatedGoes, GhostInv, Open
  <1>8. OneHolds' /\ InHandIsOpen'
    BY <1>1 DEF OneHolds, InHandIsOpen, GhostInv, B!Idle, Open
  <1> QED BY <1>1, <1>6, <1>7, <1>8 DEF GhostInv

LEMMA GhostStep ==
  ASSUME Typed, GhostInv, [Next]_vars
  PROVE  GhostInv'
  <1> SUFFICES ASSUME AllWell' PROVE GhostInv'
    BY DEF GhostInv
  <1>1. CASE UNCHANGED vars
    <2>1. AllWell
      BY <1>1 DEF vars, AllWell
    <2>2. UNCHANGED <<status, outbox, down, linkVars, cached>>
      BY <1>1 DEF vars, backendVars, piVars
    <2> QED BY <2>1, <2>2, GhostUntouched
  <1>2. CASE Next
    <2>1. AllWell
      BY <1>2, WellBefore
    <2>2. CASE \/ \E v \in Vehicles : VehicleComes(v)
               \/ VehicleIsSensedAgain \/ VehicleGoes \/ NodeRestarts
               \/ Recognition \/ PiTimeout \/ PiClock
      BY <2>1, <2>2, PiStepSpeaks, GhostUntouched DEF backendVars
    <2>3. CASE PiTakes
      BY <2>1, <2>3, GhostPiTakes
    <2>4. CASE RequestOrSweep \/ BackendTakes
      BY <2>1, <2>4, GhostBackend
    <2>5. CASE CloseConflict \/ Tick
      BY <2>1, <2>5, OtherSteps, GhostUntouched DEF Unmoved
    <2>6. CASE Publish
      BY <2>1, <2>6, GhostPublish
    <2>7. CASE CommandIsResent
      BY <2>1, <2>7, GhostResent
    <2>8. CASE PiLinkBreaks \/ PiRestarts \/ BackendLinkBreaks \/ BackendCrashes
      BY <2>8, NothingBreaks
    <2>9. CASE PiConnects \/ BackendConnects
      BY <2>1, <2>9 DEF GhostInv, PiConnects, BackendConnects
    <2> QED BY <1>2, <2>2, <2>3, <2>4, <2>5, <2>6, <2>7, <2>8, <2>9 DEF Next
  <1> QED BY <1>1, <1>2

LEMMA GhostInitially == Init => GhostInv
  <1> SUFFICES ASSUME Init PROVE GhostInv
    OBVIOUS
  <1>1. /\ piLinked /\ backendLinked /\ cached = NoRes /\ down = <<Resync>>
        /\ \A t \in B!Threads : outbox[t] = B!NoCommand
    BY DEF Init, B!Init, Pi!Init, Pi!NoRes, NoRes
  <1>2. \A i \in DOMAIN down : down[i] = Resync
    BY <1>1
  <1> QED BY <1>1, <1>2, NoCommandSaysNothing
          DEF GhostInv, OneHolds, HolderGoes, CreatedGoes, InHandIsOpen, B!Idle, Resync

LEMMA GhostInvSuffices ==
  ASSUME Typed, GhostInv
  PROVE  NoGhostHolder
  <1> SUFFICES ASSUME Quiet, AllWell, cached # NoRes PROVE Open(cached)
    BY DEF NoGhostHolder, Open, B!LiveStatuses
  <1>1. DOMAIN down = {}
    <2>1. down = <<>>
      BY DEF Quiet
    <2> QED BY <2>1, EmptyAndSingle, Zenon
  <1>2. \A t \in B!Threads : ~ Stops(outbox[t])
    BY NoCommandSaysNothing DEF Quiet, B!Idle
  <1> QED BY <1>1, <1>2 DEF GhostInv, HolderGoes, Cleared

\* With everything told and nothing gone wrong, the Pi keeps the bay for nobody
\* whose reservation is over: no order of requests, sweeps, reports and
\* publications lets a create command outlive the stop that follows it.
THEOREM HolderIsNoGhost == Spec => []NoGhostHolder
  <1>1. Init => Typed /\ GhostInv
    BY TypedInitially, GhostInitially
  <1>2. Typed /\ GhostInv /\ [Next]_vars => (Typed /\ GhostInv)'
    BY TypedStep, GhostStep
  <1>3. Typed /\ GhostInv => NoGhostHolder
    BY GhostInvSuffices
  <1> QED BY <1>1, <1>2, <1>3, PTL DEF Spec

-----------------------------------------------------------------------------
(***************************************************************************)
(* Backend.tla is checked against any Pi and PiBay.tla against any         *)
(* backend.  Each is what the other one meets here: a step of the composed *)
(* system is a step of each, or leaves it alone.                           *)
(***************************************************************************)
LEMMA BackendStep ==
  ASSUME Typed, [Next]_vars
  PROVE  [B!Next]_(B!vars)
  <1>0. UNCHANGED backendVars => UNCHANGED B!vars
    BY DEF backendVars, B!vars, B!reservationVars, B!bayVars, B!moneyVars
  <1>1. CASE \/ \E v \in Vehicles : VehicleComes(v)
             \/ VehicleIsSensedAgain \/ VehicleGoes \/ NodeRestarts
             \/ Recognition \/ PiTimeout \/ PiClock
    BY <1>0, <1>1, PiStepSpeaks
  <1>2. CASE RequestOrSweep
    <2>1. ASSUME NEW t \in HttpThreads, Requested(t)
          PROVE  B!Request(t)
      BY <2>1 DEF Requested, B!Request
    <2> QED BY <1>2, <2>1 DEF RequestOrSweep, B!Next
  <1>3. CASE CloseConflict
    <2>1. ASSUME NEW t \in HttpThreads, B!ResolveConflict(t, Bay)
          PROVE  B!Request(t)
      BY <2>1 DEF B!Request
    <2> QED BY <1>3, <2>1 DEF CloseConflict, B!Next
  <1>4. CASE Tick
    BY <1>4 DEF Tick, B!Tick, B!Next
  <1>5. CASE Publish
    BY <1>5 DEF Publish, B!Next
  <1>6. CASE BackendTakes
    <2>1. PICK m : m = Head(up)
      OBVIOUS
    <2>2. m \in Reported
      BY <1>6, <2>1, ReportMoves
    <2>3. Handle(m) \/ UNCHANGED backendVars
      BY <1>6, <2>1 DEF BackendTakes
    <2>4. ASSUME m.topic = "state", Handle(m)
          PROVE  B!StateMessage(Bay)
      <3>1. m.name \in B!BayStates /\ B!ApplyState(Bay, m.name, B!Once)
        BY <2>2, <2>4 DEF Handle, Reported, Pi!BayStates, B!BayStates
      <3> QED BY <3>1 DEF B!StateMessage, B!MessageIds
    <2>5. ASSUME m.topic = "event", Handle(m)
          PROVE  B!EventMessage(Bay)
      <3>1. m.name \in Events /\ HandleEvent(m.name)
        BY <2>2, <2>5 DEF Handle, Reported
      <3> QED BY <3>1 DEF HandleEvent, Events, B!EventMessage, B!MessageIds
    <2> QED BY <1>0, <2>2, <2>3, <2>4, <2>5 DEF B!Next, Reported
  <1>7. CASE BackendCrashes
    BY <1>7 DEF BackendCrashes, B!Next
  <1>8. CASE \/ PiTakes \/ PiLinkBreaks \/ CommandIsResent \/ PiRestarts \/ PiConnects
             \/ BackendLinkBreaks \/ BackendConnects
    BY <1>0, <1>8 DEF PiTakes, PiLinkBreaks, CommandIsResent, PiRestarts, PiConnects,
                      BackendLinkBreaks, BackendConnects
  <1>9. CASE UNCHANGED vars
    BY <1>0, <1>9 DEF vars
  <1> QED BY <1>1, <1>2, <1>3, <1>4, <1>5, <1>6, <1>7, <1>8, <1>9 DEF Next

LEMMA PiStep ==
  ASSUME Typed, [Next]_vars
  PROVE  [Pi!Next]_(Pi!vars)
  <1>0. UNCHANGED piVars => UNCHANGED Pi!vars
    BY DEF piVars, Pi!vars, Pi!holder, Pi!outputs
  <1>1. CASE (\E v \in Vehicles : VehicleComes(v)) \/ VehicleIsSensedAgain
    BY <1>1 DEF VehicleComes, VehicleIsSensedAgain, ArrivalIsSensed, Pi!Next, Pi!Sensor
  <1>2. CASE VehicleGoes \/ NodeRestarts
    BY <1>0, <1>2 DEF VehicleGoes, NodeRestarts, DepartureIsSensed, Pi!Next, Pi!Sensor
  <1>3. CASE Recognition
    BY <1>3 DEF Recognition, Pi!Recognition, Pi!Next
  <1>4. CASE PiTimeout
    BY <1>4 DEF PiTimeout, Pi!Next
  <1>5. CASE PiClock
    BY <1>5 DEF PiClock, Pi!Clock, Pi!Timers, Pi!Next
  <1>6. CASE PiTakes
    <2>1. PICK m : m = Head(down)
      OBVIOUS
    <2>2. m \in B!Commands \cup {Resync}
      BY <1>6, <2>1, PiTakesCommand
    <2>3. PiAccepts(m) \/ UNCHANGED piVars
      BY <1>6, <2>1 DEF PiTakes
    <2>4. ASSUME PiAccepts(m) PROVE Pi!Command
      <3>1. CASE m.action = "create"
        <4>1. m.res \in Reservations /\ {VehicleOf[m.res]} \in SUBSET Vehicles
          BY <2>2, <3>1, VehiclesTyped DEF Resync, B!Commands
        <4>2. (arrival[m.res] = "overdue" /\ graceOver) \in BOOLEAN
          OBVIOUS
        <4>3. Pi!CreateCommand(m.res, {VehicleOf[m.res]}, arrival[m.res] = "overdue" /\ graceOver)
          BY <2>4, <3>1 DEF PiAccepts
        <4> QED BY <4>1, <4>2, <4>3 DEF Pi!Command
      <3>2. CASE m.action # "create"
        BY <2>4, <3>2 DEF PiAccepts, Pi!Command
      <3> QED BY <3>1, <3>2
    <2> QED BY <1>0, <2>3, <2>4 DEF Pi!Next
  <1>7. CASE PiRestarts
    BY <1>7 DEF PiRestarts, Pi!Next
  <1>8. CASE \/ RequestOrSweep \/ CloseConflict \/ Tick \/ Publish \/ BackendTakes
             \/ PiLinkBreaks \/ CommandIsResent \/ PiConnects
             \/ BackendLinkBreaks \/ BackendCrashes \/ BackendConnects
    BY <1>0, <1>8 DEF RequestOrSweep, CloseConflict, Tick, Publish, BackendTakes, BackendOnly,
         PiLinkBreaks, CommandIsResent, PiConnects, BackendLinkBreaks, BackendCrashes,
         BackendConnects
  <1>9. CASE UNCHANGED vars
    BY <1>0, <1>9 DEF vars
  <1> QED BY <1>1, <1>2, <1>3, <1>4, <1>5, <1>6, <1>7, <1>8, <1>9 DEF Next

\* The backend that hears the real Pi does what Backend.tla allows with any Pi:
\* what is proved of Backend.tla for every sequence of messages holds here.
THEOREM BackendMeetsAnyPi == Spec => B!Spec
  <1>1. Init => B!Init
    BY DEF Init
  <1> QED BY <1>1, ParkReserveTyped, BackendStep, PTL DEF Spec, B!Spec

\* The Pi that is commanded by the real backend does what PiBay.tla allows with
\* any backend.
THEOREM PiMeetsAnyBackend == Spec => Pi!Spec
  <1>1. Init => Pi!Init
    BY DEF Init
  <1> QED BY <1>1, ParkReserveTyped, PiStep, PTL DEF Spec, Pi!Spec

=============================================================================

------------------------------ MODULE PiBayProofs ------------------------------
(***************************************************************************)
(* Safety of one bay on the Pi, for any reservations and plates: nothing   *)
(* is assumed of the order, the number or the timing of commands, sensor   *)
(* edges, recognition results, fired timers and restarts.                  *)
(***************************************************************************)
EXTENDS PiBay, TLAPS

LEMMA LedOfTyped ==
  ASSUME NEW s \in BayStates
  PROVE  LedOf(s) \in LedCommands
  BY DEF BayStates, LedOf, LedCommands

\* Every field keeps its type, whatever interrupts whom.
THEOREM TypeCorrect == Spec => []TypeOK
  <1>1. Init => TypeOK
    BY DEF Init, TypeOK, BayStates, LedCommands
  <1>2. TypeOK /\ [Next]_vars => TypeOK'
    <2> SUFFICES ASSUME TypeOK, [Next]_vars PROVE TypeOK'
      OBVIOUS
    <2> USE LedOfTyped DEF TypeOK, Transition, Stay, ForgetHolder, CancelTimer, StartTimer,
                           holder, outputs
    <2>1. CASE Command
      <3>1. ASSUME NEW r \in Reservations, NEW plates \in SUBSET Plates, NEW late \in BOOLEAN,
                   CreateCommand(r, plates, late)
            PROVE  TypeOK'
        BY <3>1 DEF CreateCommand, BayStates, Timers
      <3>2. ASSUME NEW plates \in SUBSET Plates, UpdatePlates(plates)
            PROVE  TypeOK'
        BY <3>2 DEF UpdatePlates
      <3>3. CASE CheckInCommand
        BY <3>3 DEF CheckInCommand, BayStates
      <3>4. CASE CancelCommand
        BY <3>4 DEF CancelCommand, BayStates
      <3>5. CASE ReplayState
        BY <3>5 DEF ReplayState
      <3> QED BY <2>1, <3>1, <3>2, <3>3, <3>4, <3>5 DEF Command
    <2>2. CASE VehicleArrived
      BY <2>2 DEF VehicleArrived, BayStates, Timers
    <2>3. CASE VehicleLeft
      BY <2>3 DEF VehicleLeft, BayStates
    <2>4. CASE Recognition
      BY <2>4 DEF Recognition, LprResult, BayStates
    <2>5. CASE Clock
      BY <2>5 DEF Clock, GraceEnds, TimerFires
    <2>6. CASE ManualTimeout
      BY <2>6 DEF ManualTimeout, BayStates
    <2>7. CASE NoShowCheck
      BY <2>7 DEF NoShowCheck, BayStates
    <2>8. CASE Restart
      BY <2>8 DEF Restart, BayStates
    <2>9. CASE UNCHANGED vars
      BY <2>9 DEF vars
    <2> QED BY <2>1, <2>2, <2>3, <2>4, <2>5, <2>6, <2>7, <2>8, <2>9 DEF Next, Sensor
  <1> QED BY <1>1, <1>2, PTL DEF Spec

\* The state never disagrees with the sensor: the invariant is inductive with
\* the types, since a handler that leaves an empty state does so on an arrival
\* and one that enters it either saw the vehicle leave or looked at the sensor.
THEOREM PresenceIsTracked == Spec => []StateTracksPresence
  <1>1. Init => StateTracksPresence
    BY DEF Init, StateTracksPresence
  <1>2. TypeOK /\ StateTracksPresence /\ [Next]_vars => StateTracksPresence'
    <2> SUFFICES ASSUME TypeOK, StateTracksPresence, [Next]_vars PROVE StateTracksPresence'
      OBVIOUS
    <2> USE DEF StateTracksPresence, Transition, Stay
    <2>1. CASE Command
      BY <2>1 DEF Command, CreateCommand, UpdatePlates, CheckInCommand, CancelCommand, ReplayState
    <2>2. CASE VehicleArrived
      BY <2>2 DEF VehicleArrived
    <2>3. CASE VehicleLeft
      BY <2>3 DEF VehicleLeft, TypeOK, BayStates
    <2>4. CASE Recognition
      BY <2>4 DEF Recognition, LprResult
    <2>5. CASE Clock
      BY <2>5 DEF Clock, GraceEnds, TimerFires
    <2>6. CASE ManualTimeout
      BY <2>6 DEF ManualTimeout
    <2>7. CASE NoShowCheck
      BY <2>7 DEF NoShowCheck
    <2>8. CASE Restart
      BY <2>8 DEF Restart
    <2>9. CASE UNCHANGED vars
      BY <2>9 DEF vars
    <2> QED BY <2>1, <2>2, <2>3, <2>4, <2>5, <2>6, <2>7, <2>8, <2>9 DEF Next, Sensor
  <1> QED BY <1>1, <1>2, TypeCorrect, PTL DEF Spec

\* Wherever a holder matters the holder is known: a cache is emptied only on
\* the way to available or occupied.
THEOREM HolderIsKnown == Spec => []HolderIsCached
  <1>1. Init => HolderIsCached
    BY DEF Init, HolderIsCached
  <1>2. TypeOK /\ HolderIsCached /\ [Next]_vars => HolderIsCached'
    <2> SUFFICES ASSUME TypeOK, HolderIsCached, [Next]_vars PROVE HolderIsCached'
      OBVIOUS
    <2> USE DEF HolderIsCached, Transition, Stay, ForgetHolder, holder
    <2>1. CASE Command
      <3>1. ASSUME NEW r \in Reservations, NEW plates, NEW late, CreateCommand(r, plates, late)
            PROVE  HolderIsCached'
        BY <3>1, CommandsAreNumbered DEF CreateCommand
      <3>2. CASE CheckInCommand
        BY <3>2 DEF CheckInCommand
      <3>3. CASE CancelCommand
        BY <3>3 DEF CancelCommand
      <3> QED BY <2>1, <3>1, <3>2, <3>3 DEF Command, UpdatePlates, ReplayState
    <2>2. CASE VehicleArrived
      BY <2>2 DEF VehicleArrived
    <2>3. CASE VehicleLeft
      BY <2>3 DEF VehicleLeft
    <2>4. CASE Recognition
      BY <2>4 DEF Recognition, LprResult
    <2>5. CASE Clock
      BY <2>5 DEF Clock, GraceEnds, TimerFires
    <2>6. CASE ManualTimeout
      BY <2>6 DEF ManualTimeout
    <2>7. CASE NoShowCheck
      BY <2>7 DEF NoShowCheck
    <2>8. CASE Restart
      BY <2>8 DEF Restart
    <2>9. CASE UNCHANGED vars
      BY <2>9 DEF vars
    <2> QED BY <2>1, <2>2, <2>3, <2>4, <2>5, <2>6, <2>7, <2>8, <2>9 DEF Next, Sensor
  <1> QED BY <1>1, <1>2, TypeCorrect, PTL DEF Spec

\* No order of arrivals, cancelled timers and waiting callbacks leaves a
\* pending check-in without a timeout to come.
THEOREM PendingHasTimeout == Spec => []PendingIsTimed
  <1>1. Init => PendingIsTimed
    BY DEF Init, PendingIsTimed
  <1>2. TypeOK /\ PendingIsTimed /\ [Next]_vars => PendingIsTimed'
    <2> SUFFICES ASSUME TypeOK, PendingIsTimed, [Next]_vars PROVE PendingIsTimed'
      OBVIOUS
    <2> USE DEF PendingIsTimed, Transition, Stay, outputs
    <2>1. CASE Command
      BY <2>1 DEF Command, CreateCommand, UpdatePlates, CheckInCommand, CancelCommand, ReplayState
    <2>2. CASE VehicleArrived
      BY <2>2 DEF VehicleArrived, StartTimer
    <2>3. CASE VehicleLeft
      BY <2>3 DEF VehicleLeft
    <2>4. CASE Recognition
      BY <2>4 DEF Recognition, LprResult
    <2>5. CASE Clock
      BY <2>5 DEF Clock, GraceEnds, TimerFires
    <2>6. CASE ManualTimeout
      BY <2>6 DEF ManualTimeout
    <2>7. CASE NoShowCheck
      BY <2>7 DEF NoShowCheck
    <2>8. CASE Restart
      BY <2>8 DEF Restart
    <2>9. CASE UNCHANGED vars
      BY <2>9 DEF vars
    <2> QED BY <2>1, <2>2, <2>3, <2>4, <2>5, <2>6, <2>7, <2>8, <2>9 DEF Next, Sensor
  <1> QED BY <1>1, <1>2, TypeCorrect, PTL DEF Spec

\* The driver's light and the backend's last report follow every step of the
\* state, those of the timeouts included.
THEOREM OutputsFollow == Spec => []OutputsAgree
  <1>1. Init => OutputsAgree
    BY DEF Init, OutputsAgree
  <1>2. OutputsAgree /\ [Next]_vars => OutputsAgree'
    <2> SUFFICES ASSUME OutputsAgree, [Next]_vars PROVE OutputsAgree'
      OBVIOUS
    <2> USE DEF OutputsAgree, Transition, Stay, outputs
    <2>1. CASE Command
      BY <2>1 DEF Command, CreateCommand, UpdatePlates, CheckInCommand, CancelCommand, ReplayState
    <2>2. CASE Sensor
      BY <2>2 DEF Sensor, VehicleArrived, VehicleLeft
    <2>3. CASE Recognition
      BY <2>3 DEF Recognition, LprResult
    <2>4. CASE Clock
      BY <2>4 DEF Clock, GraceEnds, TimerFires
    <2>5. CASE ManualTimeout
      BY <2>5 DEF ManualTimeout
    <2>6. CASE NoShowCheck
      BY <2>6 DEF NoShowCheck
    <2>7. CASE Restart
      BY <2>7 DEF Restart
    <2>8. CASE UNCHANGED vars
      BY <2>8 DEF vars
    <2> QED BY <2>1, <2>2, <2>3, <2>4, <2>5, <2>6, <2>7, <2>8 DEF Next
  <1> QED BY <1>1, <1>2, PTL DEF Spec

=============================================================================

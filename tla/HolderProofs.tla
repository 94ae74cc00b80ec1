----------------------------- MODULE HolderProofs -----------------------------
(***************************************************************************)
(* That the Pi awaits whom the backend awaits, and that a holder whom the  *)
(* Pi sees in the bay pays for no no-show.                                 *)
(***************************************************************************)
EXTENDS ParkReserveProofs

CreateOf(r) == [action |-> "create", res |-> r]

-----------------------------------------------------------------------------
(***************************************************************************)
(* What holds whatever goes wrong: at most one reservation is open and an  *)
(* awaited one is the last that was booked; the Pi knows whom it reserves  *)
(* for; and no command but create is ever on its way for one awaited.      *)
(***************************************************************************)
OneOpen == \A q, r \in Reservations : Open(q) /\ Open(r) => q = r

InOrder ==
  \A q, r \in Reservations : r < q /\ status[q] # "none" => status[r] # "none" /\ ~ B!Awaited(r)

HolderKnown == state \in {"reserved", "pending_check_in", "conflict"} => cached # NoRes

CommandsFit ==
  /\ \A c \in B!Commands : Pending(c) =>
       /\ status[c.res] # "none"
       /\ c.action # "create" => ~ B!Awaited(c.res)
  /\ cached # NoRes => status[cached] # "none"

Basics == OneOpen /\ InOrder /\ HolderKnown /\ CommandsFit

\* What any step does to the reservations: nothing, or what the backend does.
LEMMA StatusMoves ==
  ASSUME Typed, [Next]_vars
  PROVE  \/ BackendMoves /\ UNCHANGED <<state, cached, down, unheard, linkVars>>
         \/ UNCHANGED status
  <1>1. CASE RequestOrSweep \/ BackendTakes
    BY <1>1, RequestOrSweepMoves, ReportMoves
    DEF BackendMoves, Volunteers, RequestOrSweep, BackendTakes, BackendOnly, piVars
  <1>2. CASE CloseConflict \/ Tick \/ Publish
    BY <1>2, OtherSteps DEF Unmoved
  <1>3. CASE \/ \E v \in Vehicles : VehicleComes(v)
             \/ VehicleIsSensedAgain \/ VehicleGoes \/ NodeRestarts
             \/ Recognition \/ PiTimeout \/ PiClock
    BY <1>3, PiStepSpeaks DEF backendVars
  <1>4. CASE PiTakes \/ PiLinkBreaks \/ CommandIsResent \/ PiRestarts \/ PiConnects
               \/ BackendLinkBreaks \/ BackendConnects
    BY <1>4 DEF PiTakes, PiLinkBreaks, CommandIsResent, PiRestarts, PiConnects,
                BackendLinkBreaks, BackendConnects, backendVars
  <1>5. CASE BackendCrashes
    BY <1>5 DEF BackendCrashes, B!Crash, B!reservationVars
  <1>6. CASE UNCHANGED vars
    BY <1>6 DEF vars, backendVars
  <1> QED BY <1>1, <1>2, <1>3, <1>4, <1>5, <1>6 DEF Next

LEMMA OrderMoves ==
  ASSUME Typed, OneOpen, InOrder, BackendMoves
  PROVE  /\ OneOpen' /\ InOrder'
         /\ \A r \in Reservations : status[r] # "none" =>
              /\ status'[r] # "none"
              /\ ~ B!Awaited(r) => ~ B!Awaited(r)'
  <1> USE DEF Typed, Becomes, Open, B!Awaited, B!OpenStatuses, B!LiveStatuses, B!TerminalStatuses
  <1>1. CASE MovesOn
    BY <1>1 DEF MovesOn, OneOpen, InOrder
  <1>2. ASSUME NEW c \in B!Commands, Announces(c)
        PROVE  /\ OneOpen' /\ InOrder'
               /\ \A r \in Reservations : status[r] # "none" =>
                    /\ status'[r] # "none"
                    /\ ~ B!Awaited(r) => ~ B!Awaited(r)'
    <2>1. c.res \in Reservations
      BY DEF B!Commands
    <2>2. CASE Books(c)
      <3>1. OneOpen'
        BY <2>1, <2>2 DEF Books, OneOpen
      <3>2. InOrder'
        BY <2>1, <2>2, ReservationsAreNumbered DEF Books, InOrder
      <3> QED BY <2>1, <2>2, <3>1, <3>2 DEF Books
    <2>3. CASE Renews(c)
      BY <2>1, <2>3 DEF Renews, OneOpen, InOrder
    <2>4. CASE Ends(c)
      BY <2>1, <2>4 DEF Ends, OneOpen, InOrder, Live
    <2>5. CASE ChecksIn(c)
      BY <2>1, <2>5 DEF ChecksIn, OneOpen, InOrder, Live
    <2> QED BY <1>2, <2>2, <2>3, <2>4, <2>5 DEF Announces
  <1> QED BY <1>1, <1>2 DEF BackendMoves

LEMMA KnownStep ==
  ASSUME Typed, HolderKnown, [Next]_vars
  PROVE  HolderKnown'
  <1> USE DEF HolderKnown, Pi!Transition, Pi!Stay, Pi!ForgetHolder, Pi!outputs, Pi!holder,
              Pi!NoRes, NoRes
  <1>1. [Pi!Next]_(Pi!vars)
    BY PiStep
  <1>2. CASE Pi!Command
    BY <1>2, ReservationsAreNumbered
    DEF Pi!Command, Pi!CreateCommand, Pi!UpdatePlates, Pi!CheckInCommand, Pi!CancelCommand,
        Pi!ReplayState
  <1>3. CASE Pi!Sensor
    BY <1>3 DEF Pi!Sensor, Pi!VehicleArrived, Pi!VehicleLeft
  <1>4. CASE Pi!Recognition \/ Pi!Clock \/ Pi!ManualTimeout \/ Pi!NoShowCheck \/ Pi!Restart
    BY <1>4 DEF Pi!Recognition, Pi!LprResult, Pi!Clock, Pi!GraceEnds, Pi!TimerFires,
                Pi!ManualTimeout, Pi!NoShowCheck, Pi!Restart
  <1>5. CASE UNCHANGED Pi!vars
    BY <1>5 DEF Pi!vars
  <1> QED BY <1>1, <1>2, <1>3, <1>4, <1>5 DEF Pi!Next

\* No command is on its way that was not there before or is announced now.
LEMMA PendingMoves ==
  ASSUME Typed, [Next]_vars, NEW c \in B!Commands, Pending(c)'
  PROVE  Pending(c) \/ (BackendMoves /\ Announces(c))
  <1>0. down \in Seq(B!Commands \cup {Resync})
    BY DEF Typed
  <1>1. CASE UNCHANGED <<down, outbox>>
    BY <1>1 DEF Pending
  <1>2. CASE (RequestOrSweep \/ BackendTakes) /\ BackendMoves /\ UNCHANGED down
    <2>1. CASE MovesOn
      BY <1>2, <2>1 DEF MovesOn, Pending
    <2>2. ASSUME NEW d \in B!Commands, Announces(d)
          PROVE  Pending(c) \/ c = d
      <3>1. PICK t \in B!Threads : outbox' = [outbox EXCEPT ![t] = d]
        BY <2>2 DEF Announces
      <3> QED BY <1>2, <3>1 DEF Pending, Typed
    <2> QED BY <1>2, <2>1, <2>2 DEF BackendMoves
  <1>3. CASE Publish
    <2>1. PICK t \in B!Threads : /\ outbox[t] # B!NoCommand
                                 /\ outbox' = [outbox EXCEPT ![t] = B!NoCommand]
                                 /\ down' = IF piLinked THEN Append(down, outbox[t]) ELSE down
      BY <1>3 DEF Publish, B!Publish, B!Idle
    <2>2. \A u \in B!Threads : outbox'[u] = c => outbox[u] = c
      BY <2>1, NoCommandIsNone DEF Typed
    <2>3. outbox[t] \in B!Commands
      BY <2>1 DEF Typed
    <2>4. \A i \in DOMAIN down' : (i \in DOMAIN down /\ down'[i] = down[i]) \/ down'[i] = outbox[t]
      BY <1>0, <2>1, <2>3, LastPlaces, NewPlace
    <2> QED BY <2>2, <2>4 DEF Pending
  <1>4. CASE PiTakes
    <2>1. down # <<>> /\ down' = Tail(down) /\ outbox' = outbox
      BY <1>4 DEF PiTakes, backendVars
    <2>2. \A i \in DOMAIN down' : i + 1 \in DOMAIN down /\ down'[i] = down[i + 1]
      BY <1>0, <2>1, TailKeepsRest
    <2> QED BY <2>1, <2>2 DEF Pending
  <1>5. CASE CommandIsResent
    <2>1. down' = down \o down /\ outbox' = outbox
      BY <1>5 DEF CommandIsResent, backendVars
    <2>2. \A i \in DOMAIN down' : \E k \in DOMAIN down : down'[i] = down[k]
      BY <1>0, <2>1, Copies
    <2> QED BY <2>1, <2>2 DEF Pending
  <1>6. CASE PiLinkBreaks \/ PiRestarts \/ PiConnects \/ BackendConnects
    <2>1. /\ down' = <<>> \/ down' = <<Resync>> \/ down' = Append(down, Resync)
          /\ outbox' = outbox
      BY <1>6 DEF PiLinkBreaks, PiRestarts, PiConnects, BackendConnects, backendVars
    <2>2. \A i \in DOMAIN down' : (i \in DOMAIN down /\ down'[i] = down[i]) \/ down'[i] = Resync
      <3>1. CASE down' = <<>> \/ down' = <<Resync>>
        BY <3>1
      <3>2. CASE down' = Append(down, Resync)
        BY <1>0, <3>2, LastPlaces, NewPlace
      <3> QED BY <2>1, <3>1, <3>2
    <2> QED BY <2>1, <2>2, ResyncIsNoCommand DEF Pending
  <1>7. CASE BackendCrashes
    BY <1>7, NoCommandIsNone DEF BackendCrashes, B!Crash, Pending
  <1>8. RequestOrSweep \/ BackendTakes => BackendMoves /\ UNCHANGED down
    BY RequestOrSweepMoves, ReportMoves
    DEF BackendMoves, Volunteers, RequestOrSweep, BackendTakes, BackendOnly, piVars
  <1>9. CASE CloseConflict \/ Tick \/ BackendLinkBreaks
    <2>1. UNCHANGED <<down, outbox>>
      BY <1>9, OtherSteps DEF BackendLinkBreaks, backendVars
    <2> QED BY <1>1, <2>1
  <1>10. CASE \/ \E v \in Vehicles : VehicleComes(v)
              \/ VehicleIsSensedAgain \/ VehicleGoes \/ NodeRestarts
              \/ Recognition \/ PiTimeout \/ PiClock
    BY <1>1, <1>10, PiStepSpeaks DEF backendVars
  <1>11. CASE UNCHANGED vars
    BY <1>1, <1>11 DEF vars, backendVars
  <1> QED BY <1>2, <1>3, <1>4, <1>5, <1>6, <1>7, <1>8, <1>9, <1>10, <1>11 DEF Next

\* The Pi caches nobody but whom a create command names.
LEMMA CachedMoves ==
  ASSUME Typed, [Next]_vars
  PROVE  \/ cached' \in {cached, NoRes}
         \/ PiTakes /\ cached' \in Reservations /\ Pending(CreateOf(cached'))
  <1>1. CASE PiTakes
    <2>1. PICK m : m = Head(down)
      OBVIOUS
    <2>2. /\ m \in B!Commands \cup {Resync}
          /\ Accepted(m) \/ UNCHANGED piVars
      BY <1>1, <2>1, PiTakesCommand
    <2>3. \E i \in DOMAIN down : down[i] = m
      <3>1. down \in Seq(B!Commands \cup {Resync}) /\ down # <<>>
        BY <1>1 DEF Typed, PiTakes
      <3>2. Head(down) = down[1] /\ 1 \in DOMAIN down
        BY <3>1, TailKeepsRest
      <3> QED BY <2>1, <3>2
    <2>4. m.action = "create" => m \in B!Commands /\ m = CreateOf(m.res)
      BY <2>2 DEF Resync, CreateOf, B!Commands
    <2>5. \/ cached' \in {cached, NoRes}
          \/ m.action = "create" /\ cached' = m.res
      BY <2>2 DEF Accepted, piVars
    <2>6. m \in B!Commands => m.res \in Reservations
      BY DEF B!Commands
    <2> QED BY <1>1, <2>3, <2>4, <2>5, <2>6 DEF Pending
  <1>2. CASE \/ \E v \in Vehicles : VehicleComes(v)
             \/ VehicleIsSensedAgain \/ VehicleGoes \/ NodeRestarts
             \/ Recognition \/ PiTimeout \/ PiClock
    BY <1>2, PiStepSpeaks
  <1>3. CASE RequestOrSweep \/ CloseConflict \/ Tick \/ Publish \/ BackendTakes
    BY <1>3 DEF RequestOrSweep, CloseConflict, Tick, Publish, BackendTakes, BackendOnly, piVars
  <1>4. CASE PiLinkBreaks \/ CommandIsResent \/ PiConnects
               \/ BackendLinkBreaks \/ BackendConnects \/ BackendCrashes
    BY <1>4 DEF PiLinkBreaks, CommandIsResent, PiConnects, BackendCrashes,
                BackendLinkBreaks, BackendConnects, piVars
  <1>5. CASE PiRestarts
    BY <1>5 DEF PiRestarts, Pi!Restart, Pi!ForgetHolder, Pi!NoRes, NoRes
  <1>6. CASE UNCHANGED vars
    BY <1>6 DEF vars, piVars
  <1> QED BY <1>1, <1>2, <1>3, <1>4, <1>5, <1>6 DEF Next

LEMMA BasicsStep ==
  ASSUME Typed, Basics, [Next]_vars
  PROVE  /\ Basics'
         /\ \A r \in Reservations : status[r] # "none" =>
              /\ status'[r] # "none"
              /\ ~ B!Awaited(r) => ~ B!Awaited(r)'
  <1>1. /\ OneOpen' /\ InOrder'
        /\ \A r \in Reservations : status[r] # "none" =>
             /\ status'[r] # "none"
             /\ ~ B!Awaited(r) => ~ B!Awaited(r)'
    <2>1. CASE BackendMoves
      BY <2>1, OrderMoves DEF Basics
    <2>2. CASE UNCHANGED status
      BY <2>2 DEF Basics, OneOpen, InOrder, Open, B!Awaited
    <2> QED BY <2>1, <2>2, StatusMoves
  <1>2. HolderKnown'
    BY KnownStep DEF Basics
  <1>3. \A c \in B!Commands : c.res \in Reservations
    BY DEF B!Commands
  <1>4. ASSUME NEW c \in B!Commands, Pending(c)'
        PROVE  status'[c.res] # "none" /\ (c.action # "create" => ~ B!Awaited(c.res)')
    <2>1. CASE Pending(c)
      BY <1>1, <1>3, <2>1 DEF Basics, CommandsFit
    <2>2. CASE Announces(c)
      BY <1>3, <2>2 DEF Announces, Books, Renews, Ends, ChecksIn, Becomes, Stops, Typed,
           B!Awaited, B!TerminalStatuses
    <2> QED BY <1>4, <2>1, <2>2, PendingMoves
  <1>5. cached' # NoRes => status'[cached'] # "none"
    <2>1. CASE cached' \in {cached, NoRes}
      BY <1>1, <2>1 DEF Basics, CommandsFit, Typed
    <2>2. CASE cached' \in Reservations /\ Pending(CreateOf(cached'))
      <3>1. CreateOf(cached') \in B!Commands /\ CreateOf(cached').res = cached'
        BY <2>2 DEF CreateOf, B!Commands, B!Actions
      <3> QED BY <1>1, <2>2, <3>1 DEF Basics, CommandsFit
    <2> QED BY <2>1, <2>2, CachedMoves
  <1> QED BY <1>1, <1>2, <1>4, <1>5 DEF Basics, CommandsFit

LEMMA BasicsInitially == Init => Basics
  <1> SUFFICES ASSUME Init PROVE Basics
    OBVIOUS
  <1>1. /\ cached = NoRes /\ state = "available" /\ down = <<Resync>>
        /\ \A t \in B!Threads : outbox[t] = B!NoCommand
        /\ \A r \in Reservations : status[r] = "none"
    BY DEF Init, B!Init, Pi!Init, Pi!NoRes, NoRes
  <1>2. \A c \in B!Commands : ~ Pending(c)
    BY <1>1, NoCommandIsNone, ResyncIsNoCommand DEF Pending
  <1> QED BY <1>1, <1>2 DEF Basics, OneOpen, InOrder, HolderKnown, CommandsFit, Open, B!OpenStatuses

-----------------------------------------------------------------------------
(***************************************************************************)
(* The commands on their way, as long as nothing went wrong.  Whatever     *)
(* names somebody else, or makes the Pi report what it has, is followed by *)
(* the create command of the one that is awaited; and a stop comes before  *)
(* that one takes the bay over from somebody else.                         *)
(***************************************************************************)
InHand(c) == \E t \in B!Threads : outbox[t] = c

StopAfter(i) == \E k \in DOMAIN down : k > i /\ Stops(down[k])
StopBetween(i, j) == \E k \in DOMAIN down : k > i /\ j > k /\ Stops(down[k])

Superseded(r, i) ==
  InHand(CreateOf(r)) \/ \E j \in DOMAIN down : j > i /\ down[j] = CreateOf(r)

ClearedFor(r, i) ==
  /\ \A j \in DOMAIN down : j > i /\ down[j] = CreateOf(r) => StopBetween(i, j)
  /\ InHand(CreateOf(r)) => StopAfter(i)

Follows(r) ==
  /\ \A i \in DOMAIN down : down[i].res # r =>
       /\ down[i].action \in {"create", "resync"} => Superseded(r, i)
       /\ down[i].action = "create" => ClearedFor(r, i)
  /\ cached \notin {NoRes, r} => ClearedFor(r, 0)

LEMMA FollowsUntouched ==
  ASSUME NEW r \in Reservations, Follows(r), UNCHANGED <<down, outbox>>, cached' \in {cached, NoRes}
  PROVE  Follows(r)'
  <1>1. /\ \A i : Superseded(r, i) <=> Superseded(r, i)'
        /\ \A i : ClearedFor(r, i) <=> ClearedFor(r, i)'
    BY DEF Superseded, ClearedFor, InHand, StopAfter, StopBetween
  <1> QED BY <1>1 DEF Follows, NoRes

LEMMA FollowsBackend ==
  ASSUME Typed, Basics, GhostInv, AllWell, AllWell', RequestOrSweep \/ BackendTakes,
         NEW r \in Reservations, B!Awaited(r)', B!Awaited(r) => Follows(r)
  PROVE  Follows(r)'
  <1>1. BackendMoves /\ UNCHANGED <<down, cached>>
    BY RequestOrSweepMoves, ReportMoves
    DEF BackendMoves, Volunteers, RequestOrSweep, BackendTakes, BackendOnly, piVars
  <1>2. outbox' = outbox \/ \A t \in B!Threads : outbox[t] = B!NoCommand
    BY TurnsAreKept DEF B!Idle
  <1>3. CreateOf(r) \in B!Commands
    BY DEF CreateOf, B!Commands, B!Actions
  <1>4. CASE MovesOn
    <2>1. B!Awaited(r)
      BY <1>4 DEF MovesOn, Becomes, Typed, B!Awaited
    <2> QED BY <1>1, <1>4, <2>1, FollowsUntouched DEF MovesOn
  <1>5. ASSUME NEW c \in B!Commands, Announces(c)
        PROVE  Follows(r)'
    <2>1. PICK t \in B!Threads : outbox[t] = B!NoCommand /\ outbox' = [outbox EXCEPT ![t] = c]
      BY <1>5 DEF Announces, B!Idle
    <2>2. \A u \in B!Threads : outbox[u] = B!NoCommand
      BY <1>2, <2>1, NoCommandIsNone DEF Typed
    <2>3. /\ \A d \in B!Commands : InHand(d)' <=> d = c
          /\ \A d \in B!Commands : ~ InHand(d)
      BY <2>1, <2>2, NoCommandIsNone DEF InHand, Typed
    <2>4. CASE c = CreateOf(r)
      <3>1. \A q \in Reservations : Open(q) => q = r
        BY <1>5, <2>4 DEF Announces, Books, Renews, Ends, ChecksIn, Stops, CreateOf, Basics,
             OneOpen, Open, B!Awaited, B!OpenStatuses
      <3>2. \A i : Cleared(i) => StopAfter(i)'
        BY <1>1, <2>2, NoCommandSaysNothing DEF Cleared, StopAfter
      <3>3. \A i \in DOMAIN down : down[i].action = "create" /\ down[i].res # r => StopAfter(i)'
        <4>1. \A i \in DOMAIN down : down[i].action = "create" => down[i].res \in Reservations
          BY DEF Typed, Resync, B!Commands
        <4> QED BY <3>1, <3>2, <4>1 DEF GhostInv, CreatedGoes
      <3>4. cached \notin {NoRes, r} => StopAfter(0)'
        BY <3>1, <3>2 DEF GhostInv, HolderGoes, Typed
      <3>5. \A i : Superseded(r, i)'
        BY <1>3, <2>3, <2>4 DEF Superseded
      <3>6. CASE B!Awaited(r)
        <4>1. \A i : ClearedFor(r, i) /\ StopAfter(i)' => ClearedFor(r, i)'
          BY <1>1 DEF ClearedFor, StopBetween
        <4> QED BY <1>1, <3>3, <3>4, <3>5, <3>6, <4>1 DEF Follows
      <3>7. CASE ~ B!Awaited(r)
        <4>1. status[r] = "none"
          BY <1>5, <2>4, <3>7 DEF Announces, Books, Renews, Ends, ChecksIn, Stops, CreateOf
        <4>2. \A j \in DOMAIN down : down[j] # CreateOf(r)
          BY <1>3, <4>1 DEF Basics, CommandsFit, Pending, CreateOf
        <4> QED BY <1>1, <3>3, <3>4, <3>5, <4>2 DEF Follows, ClearedFor
      <3> QED BY <3>6, <3>7
    <2>5. CASE c # CreateOf(r)
      <3>1. c.action = "create" => c.res # r
        BY <2>5 DEF CreateOf, B!Commands
      <3>2. B!Awaited(r)
        BY <1>5, <3>1 DEF Announces, Books, Renews, Ends, ChecksIn, Becomes, Typed, B!Awaited,
             B!Commands, B!TerminalStatuses
      <3>3. ~ InHand(CreateOf(r))' /\ ~ InHand(CreateOf(r))
        BY <1>3, <2>3, <2>5
      <3>4. /\ \A i : Superseded(r, i) => Superseded(r, i)'
            /\ \A i : ClearedFor(r, i) => ClearedFor(r, i)'
        BY <1>1, <3>3 DEF Superseded, ClearedFor, StopBetween
      <3> QED BY <1>1, <3>2, <3>4 DEF Follows
    <2> QED BY <2>4, <2>5
  <1> QED BY <1>1, <1>4, <1>5 DEF BackendMoves

LEMMA FollowsPublish ==
  ASSUME Typed, Basics, GhostInv, AllWell, Publish,
         NEW r \in Reservations, B!Awaited(r), Follows(r)
  PROVE  Follows(r)'
  <1>1. PICK t \in B!Threads : /\ outbox[t] # B!NoCommand
                               /\ outbox' = [outbox EXCEPT ![t] = B!NoCommand]
                               /\ down' = IF piLinked THEN Append(down, outbox[t]) ELSE down
    BY DEF Publish, B!Publish, B!Idle
  <1>2. cached' = cached
    BY OtherSteps
  <1>3. down \in Seq(B!Commands \cup {Resync}) /\ outbox[t] \in B!Commands
    BY <1>1 DEF Typed
  <1>4. /\ \A u \in B!Threads : outbox'[u] = B!NoCommand
        /\ \A u \in B!Threads : u # t => outbox[u] = B!NoCommand
    BY <1>1 DEF Typed, GhostInv, OneHolds, B!Idle
  <1>5. down' = Append(down, outbox[t])
    BY <1>1 DEF GhostInv
  <1> DEFINE n == Len(down) + 1
             c == CreateOf(r)
  <1>6. /\ \A i \in DOMAIN down : i \in DOMAIN down' /\ down'[i] = down[i]
        /\ n \in DOMAIN down' /\ down'[n] = outbox[t]
        /\ \A i \in DOMAIN down' : i \in DOMAIN down \/ i = n
        /\ \A i \in DOMAIN down \cup {0} : n > i
    BY <1>3, <1>5, LastPlaces, NewPlace
  <1> HIDE DEF n
  <1>7. c \in B!Commands /\ c # B!NoCommand
    BY NoCommandIsNone DEF CreateOf, B!Commands, B!Actions
  <1>8. (InHand(c) <=> outbox[t] = c) /\ ~ InHand(c)'
    BY <1>4, <1>7 DEF InHand
  <1>9. \A i \in DOMAIN down : Superseded(r, i) => Superseded(r, i)'
    BY <1>6, <1>8 DEF Superseded
  <1>10. \A i \in DOMAIN down \cup {0} : ClearedFor(r, i) => ClearedFor(r, i)'
    <2>1. ASSUME NEW i \in DOMAIN down \cup {0}, ClearedFor(r, i),
                 NEW j \in DOMAIN down', j > i, down'[j] = c
          PROVE  StopBetween(i, j)'
      <3>1. CASE j \in DOMAIN down
        BY <1>6, <2>1, <3>1 DEF ClearedFor, StopBetween
      <3>2. CASE j = n
        <4>1. PICK k \in DOMAIN down : k > i /\ Stops(down[k])
          BY <1>6, <1>8, <2>1, <3>2 DEF ClearedFor, StopAfter
        <4> QED BY <1>6, <3>2, <4>1 DEF StopBetween
      <3> QED BY <1>6, <3>1, <3>2
    <2> QED BY <1>8, <2>1 DEF ClearedFor
  <1>11. outbox[t].action = "create" => outbox[t] = c
    <2>1. outbox[t].action = "create" => Open(outbox[t].res) /\ outbox[t].res \in Reservations
      BY <1>3 DEF GhostInv, InHandIsOpen, B!Commands
    <2>2. Open(r)
      BY DEF Open, B!Awaited, B!OpenStatuses
    <2> QED BY <1>3, <2>1, <2>2 DEF Basics, OneOpen, CreateOf, B!Commands
  <1>12. outbox[t].action # "resync" /\ (outbox[t].action = "create" => outbox[t].res = r)
    BY <1>3, <1>11 DEF B!Commands, B!Actions, CreateOf
  <1> QED BY <1>2, <1>6, <1>9, <1>10, <1>12 DEF Follows

LEMMA EarlierPlaces ==
  /\ \A i, j \in Nat \ {0} : j > i + 1 => j # 1 /\ j - 1 > i
  /\ \A i, j \in Nat \ {0} : j > i => j + 1 > i + 1
  /\ \A j \in Nat \ {0} : j # 1 => j > 1 /\ j - 1 > 0 /\ j - 1 \in Nat \ {0}
  /\ \A j, k \in Nat \ {0} : j + 1 > k /\ k # 1 => j > k - 1
  /\ \A j \in Nat \ {0} : j > 0 /\ j + 1 > 1 /\ j + 1 > 0 /\ j + 1 # 1
  OBVIOUS

LEMMA FollowsPiTakes ==
  ASSUME Typed, PiTakes, NEW r \in Reservations, Follows(r)
  PROVE  Follows(r)'
  <1>1. PICK m : m = Head(down)
    OBVIOUS
  <1>2. /\ m \in B!Commands \cup {Resync}
        /\ Accepted(m) \/ (PiIgnores(m) /\ m \in B!Commands /\ UNCHANGED piVars)
    BY <1>1, PiTakesCommand
  <1>3. down # <<>> /\ down' = Tail(down) /\ outbox' = outbox
    BY DEF PiTakes, backendVars
  <1>4. /\ m = down[1] /\ 1 \in DOMAIN down
        /\ \A i \in DOMAIN down : i # 1 => i - 1 \in DOMAIN down' /\ down'[i - 1] = down[i]
        /\ \A i \in DOMAIN down' : i + 1 \in DOMAIN down /\ down'[i] = down[i + 1]
        /\ DOMAIN down \subseteq Nat \ {0} /\ DOMAIN down' \subseteq Nat \ {0}
    <2>1. down \in Seq(B!Commands \cup {Resync})
      BY DEF Typed
    <2> QED BY <1>1, <1>3, <2>1, TailKeepsRest
  <1> DEFINE c == CreateOf(r)
  <1>5. InHand(c) <=> InHand(c)'
    BY <1>3 DEF InHand
  <1>6. \A i \in DOMAIN down' : Superseded(r, i + 1) => Superseded(r, i)'
    <2>1. ASSUME NEW i \in DOMAIN down', NEW j \in DOMAIN down, j > i + 1, down[j] = c
          PROVE  \E k \in DOMAIN down' : k > i /\ down'[k] = c
      <3>1. j # 1 /\ j - 1 > i
        BY <1>4, <2>1, EarlierPlaces, Zenon
      <3> QED BY <1>4, <2>1, <3>1
    <2> QED BY <1>5, <2>1 DEF Superseded
  <1>7. ASSUME NEW i \in DOMAIN down', ClearedFor(r, i + 1)
        PROVE  ClearedFor(r, i)'
    <2>1. ASSUME NEW k \in DOMAIN down, k > i + 1, Stops(down[k])
          PROVE  k - 1 \in DOMAIN down' /\ k - 1 > i /\ Stops(down'[k - 1]) /\ k # 1
      <3>1. k # 1 /\ k - 1 > i
        BY <1>4, <2>1, EarlierPlaces, Zenon
      <3> QED BY <1>4, <2>1, <3>1
    <2>2. ASSUME NEW j \in DOMAIN down', j > i, down'[j] = c
          PROVE  StopBetween(i, j)'
      <3>1. j + 1 \in DOMAIN down /\ j + 1 > i + 1 /\ down[j + 1] = c
        BY <1>4, <2>2, EarlierPlaces, Zenon
      <3>2. PICK k \in DOMAIN down : k > i + 1 /\ j + 1 > k /\ Stops(down[k])
        BY <1>7, <3>1 DEF ClearedFor, StopBetween
      <3>3. j > k - 1
        BY <1>4, <2>1, <3>2, EarlierPlaces, Zenon
      <3> QED BY <2>1, <3>2, <3>3 DEF StopBetween
    <2>3. StopAfter(i + 1) => StopAfter(i)'
      BY <2>1 DEF StopAfter
    <2> QED BY <1>5, <1>7, <2>2, <2>3 DEF ClearedFor
  <1>8. ASSUME ClearedFor(r, 1) \/ (ClearedFor(r, 0) /\ ~ Stops(m))
        PROVE  ClearedFor(r, 0)'
    <2>1. ASSUME NEW k \in DOMAIN down, k > 1 \/ ~ Stops(m), Stops(down[k])
          PROVE  k - 1 \in DOMAIN down' /\ k - 1 > 0 /\ Stops(down'[k - 1]) /\ k # 1
      <3>1. k # 1
        BY <1>4, <2>1, LaterPlaces, Zenon
      <3>2. k - 1 > 0
        BY <1>4, <3>1, EarlierPlaces, Zenon
      <3> QED BY <1>4, <2>1, <3>1, <3>2
    <2>2. ASSUME NEW j \in DOMAIN down', down'[j] = c
          PROVE  StopBetween(0, j)'
      <3>1. j + 1 \in DOMAIN down /\ j + 1 > 1 /\ j + 1 > 0 /\ down[j + 1] = c
        BY <1>4, <2>2, EarlierPlaces, Zenon
      <3>2. PICK k \in DOMAIN down : (k > 1 \/ ~ Stops(m)) /\ j + 1 > k /\ Stops(down[k])
        BY <1>8, <3>1 DEF ClearedFor, StopBetween
      <3>3. j > k - 1
        BY <1>4, <2>1, <3>2, EarlierPlaces, Zenon
      <3> QED BY <2>1, <3>2, <3>3 DEF StopBetween
    <2>3. /\ StopAfter(1) => StopAfter(0)'
          /\ StopAfter(0) /\ ~ Stops(m) => StopAfter(0)'
      BY <2>1 DEF StopAfter
    <2> QED BY <1>5, <1>8, <2>2, <2>3 DEF ClearedFor
  <1>9. cached' \notin {NoRes, r} => ClearedFor(r, 0)'
    <2>1. CASE m.action = "create" /\ cached' = m.res
      BY <1>4, <1>8, <2>1 DEF Follows
    <2>2. CASE ~ Stops(m) /\ cached' = cached
      BY <1>8, <2>2 DEF Follows
    <2>3. \/ cached' = NoRes
          \/ m.action = "create" /\ cached' = m.res
          \/ ~ Stops(m) /\ cached' = cached
      BY <1>2 DEF Accepted, PiIgnores, Stops, Resync, piVars
    <2> QED BY <2>1, <2>2, <2>3
  <1> QED BY <1>4, <1>6, <1>7, <1>9 DEF Follows

Lies(c, d, i, j) == \E p \in DOMAIN d : p > i /\ j > p /\ d[p] = c

\* Between two places of the doubled link lies what lies between the originals,
\* or, with a whole copy in between, whatever comes after the first of them.
LEMMA CopiesApart ==
  ASSUME NEW s \in Seq(B!Commands \cup {Resync}), NEW d, d = s \o s,
         NEW i \in DOMAIN d, NEW j \in DOMAIN d, j > i
  PROVE  \E k, l \in DOMAIN s :
           /\ d[i] = s[k] /\ d[j] = s[l]
           /\ \/ /\ l > k
                 /\ \A m \in DOMAIN s : m > k /\ l > m => Lies(s[m], d, i, j)
              \/ \A m \in DOMAIN s : m > k => Lies(s[m], d, i, j)
  <1> DEFINE n == Len(s)
  <1>1. /\ n \in Nat /\ DOMAIN s = 1..n /\ DOMAIN d = 1..(n + n)
        /\ \A k \in 1..n : d[k] = s[k] /\ d[k + n] = s[k]
    OBVIOUS
  <1>2. i \in 1..(n + n) /\ j \in 1..(n + n)
    BY <1>1
  <1> HIDE DEF n
  <1>3. CASE j \in 1..n
    <2>1. i \in 1..n /\ \A m \in 1..n : m \in 1..(n + n)
      BY <1>1, <1>2, <1>3
    <2>2. \A m \in 1..n : m > i /\ j > m => Lies(s[m], d, i, j)
      BY <1>1, <2>1 DEF Lies
    <2> QED BY <1>1, <1>3, <2>1, <2>2
  <1>4. CASE j \notin 1..n /\ i \in 1..n
    <2>1. j - n \in 1..n /\ j = (j - n) + n
      BY <1>1, <1>2, <1>4
    <2>2. \A m \in 1..n : m \in 1..(n + n) /\ j > m
      BY <1>1, <1>2, <1>4
    <2>3. \A m \in 1..n : m > i => Lies(s[m], d, i, j)
      BY <1>1, <2>2 DEF Lies
    <2>4. j - n \in DOMAIN s /\ d[j] = s[j - n]
      BY <1>1, <2>1
    <2> QED BY <1>1, <1>4, <2>3, <2>4
  <1>5. CASE i \notin 1..n
    <2>1. /\ i - n \in 1..n /\ i = (i - n) + n
          /\ j - n \in 1..n /\ j = (j - n) + n
          /\ j - n > i - n
      BY <1>1, <1>2, <1>5
    <2>2. \A m \in 1..n : /\ m + n \in 1..(n + n)
                          /\ m > i - n => m + n > i
                          /\ j - n > m => j > m + n
      BY <1>1, <1>2, <1>5
    <2>3. \A m \in 1..n : m > i - n /\ j - n > m => Lies(s[m], d, i, j)
      BY <1>1, <2>2 DEF Lies
    <2>4. /\ i - n \in DOMAIN s /\ d[i] = s[i - n]
          /\ j - n \in DOMAIN s /\ d[j] = s[j - n]
      BY <1>1, <2>1
    <2> DEFINE k == i - n
               l == j - n
    <2>5. /\ k \in DOMAIN s /\ l \in DOMAIN s /\ d[i] = s[k] /\ d[j] = s[l] /\ l > k
          /\ \A m \in DOMAIN s : m > k /\ l > m => Lies(s[m], d, i, j)
      BY <1>1, <2>1, <2>3, <2>4
    <2> HIDE DEF k, l
    <2> QED BY <2>5, Zenon
  <1> QED BY <1>3, <1>4, <1>5

LEMMA CopiesBefore ==
  ASSUME NEW s \in Seq(B!Commands \cup {Resync}), NEW d, d = s \o s, NEW j \in DOMAIN d
  PROVE  \E l \in DOMAIN s :
           /\ d[j] = s[l]
           /\ \A m \in DOMAIN s : l > m => j > m
  <1> DEFINE n == Len(s)
  <1>1. /\ n \in Nat /\ DOMAIN s = 1..n /\ DOMAIN d = 1..(n + n)
        /\ \A k \in 1..n : d[k] = s[k] /\ d[k + n] = s[k]
    OBVIOUS
  <1>2. j \in 1..(n + n)
    BY <1>1
  <1> HIDE DEF n
  <1>3. CASE j \in 1..n
    BY <1>1, <1>3
  <1>4. CASE j \notin 1..n
    <2>1. j - n \in 1..n /\ j = (j - n) + n /\ \A m \in 1..n : j > m
      BY <1>1, <1>2, <1>4
    <2>2. j - n \in DOMAIN s /\ d[j] = s[j - n]
      BY <1>1, <2>1
    <2> QED BY <1>1, <2>1, <2>2
  <1> QED BY <1>3, <1>4

LEMMA FollowsResent ==
  ASSUME Typed, CommandIsResent, NEW r \in Reservations, Follows(r)
  PROVE  Follows(r)'
  <1>1. down' = down \o down /\ outbox' = outbox /\ cached' = cached
    BY DEF CommandIsResent, backendVars, piVars
  <1>2. down \in Seq(B!Commands \cup {Resync})
    BY DEF Typed
  <1>3. \A i \in DOMAIN down : i \in DOMAIN down' /\ down'[i] = down[i]
    BY <1>1, <1>2, LastPlaces
  <1> DEFINE c == CreateOf(r)
  <1>4. InHand(c) <=> InHand(c)'
    BY <1>1 DEF InHand
  <1>5. ASSUME NEW i \in DOMAIN down', down'[i].res # r
        PROVE  /\ down'[i].action \in {"create", "resync"} => Superseded(r, i)'
               /\ down'[i].action = "create" => ClearedFor(r, i)'
    <2>1. \E k \in DOMAIN down :
            /\ down'[i] = down[k]
            /\ \A j \in DOMAIN down : j > k => \E l \in DOMAIN down' : l > i /\ down'[l] = down[j]
      BY <1>1, <1>2, Copies
    <2>2. down'[i].action \in {"create", "resync"} => Superseded(r, i)'
      BY <1>4, <1>5, <2>1 DEF Superseded, Follows
    <2>3. ASSUME down'[i].action = "create", InHand(c)
          PROVE  StopAfter(i)'
      BY <1>5, <2>1, <2>3 DEF StopAfter, Follows, ClearedFor
    <2>4. ASSUME down'[i].action = "create", NEW j \in DOMAIN down', j > i, down'[j] = c
          PROVE  StopBetween(i, j)'
      <3>1. PICK k, l \in DOMAIN down :
              /\ down'[i] = down[k] /\ down'[j] = down[l]
              /\ \/ /\ l > k
                    /\ \A m \in DOMAIN down : m > k /\ l > m => Lies(down[m], down', i, j)
                 \/ \A m \in DOMAIN down : m > k => Lies(down[m], down', i, j)
        <4>1. j > i
          BY <2>4
        <4>2. down' = down \o down
          BY <1>1
        <4> QED BY <1>2, <4>1, <4>2, CopiesApart, Zenon
      <3>2. Superseded(r, k) /\ ClearedFor(r, k)
        BY <1>5, <2>4, <3>1 DEF Follows
      <3>3. CASE /\ l > k
                 /\ \A m \in DOMAIN down : m > k /\ l > m => Lies(down[m], down', i, j)
        <4>1. PICK m \in DOMAIN down : m > k /\ l > m /\ Stops(down[m])
          BY <2>4, <3>1, <3>2, <3>3 DEF ClearedFor, StopBetween
        <4>2. Lies(down[m], down', i, j)
          BY <3>3, <4>1
        <4> QED BY <4>1, <4>2 DEF StopBetween, Lies
      <3>4. CASE \A m \in DOMAIN down : m > k => Lies(down[m], down', i, j)
        <4>1. StopAfter(k)
          BY <3>2 DEF Superseded, ClearedFor, StopAfter, StopBetween
        <4> QED BY <3>4, <4>1 DEF StopAfter, StopBetween, Lies
      <3> QED BY <3>1, <3>3, <3>4
    <2> QED BY <1>4, <2>2, <2>3, <2>4 DEF ClearedFor
  <1>6. ASSUME ClearedFor(r, 0) PROVE ClearedFor(r, 0)'
    <2>1. InHand(c) => StopAfter(0)'
      BY <1>3, <1>6 DEF ClearedFor, StopAfter
    <2>2. ASSUME NEW j \in DOMAIN down', down'[j] = c
          PROVE  StopBetween(0, j)'
      <3>1. PICK l \in DOMAIN down : down'[j] = down[l] /\ \A m \in DOMAIN down : l > m => j > m
        BY <1>1, <1>2, CopiesBefore
      <3>2. l > 0
        BY <1>2
      <3>3. StopBetween(0, l)
        BY <1>6, <2>2, <3>1, <3>2 DEF ClearedFor
      <3> QED BY <1>3, <3>1, <3>3 DEF StopBetween
    <2> QED BY <1>4, <2>1, <2>2 DEF ClearedFor
  <1> QED BY <1>1, <1>5, <1>6 DEF Follows

LEMMA FollowsStep ==
  ASSUME Typed, Basics, GhostInv, [Next]_vars, AllWell', NEW r \in Reservations, B!Awaited(r)',
         AllWell /\ B!Awaited(r) => Follows(r)
  PROVE  Follows(r)'
  <1>1. AllWell
    BY WellBefore DEF AllWell, vars
  <1>2. UNCHANGED status => B!Awaited(r) /\ Follows(r)
    BY <1>1 DEF B!Awaited
  <1>3. CASE RequestOrSweep \/ BackendTakes
    BY <1>1, <1>3, FollowsBackend
  <1>4. CASE CloseConflict \/ Tick
    BY <1>2, <1>4, OtherSteps, FollowsUntouched DEF Unmoved
  <1>5. CASE Publish
    BY <1>1, <1>2, <1>5, OtherSteps, FollowsPublish DEF Unmoved
  <1>6. CASE \/ \E v \in Vehicles : VehicleComes(v)
             \/ VehicleIsSensedAgain \/ VehicleGoes \/ NodeRestarts
             \/ Recognition \/ PiTimeout \/ PiClock
    BY <1>2, <1>6, PiStepSpeaks, FollowsUntouched DEF backendVars
  <1>7. CASE PiTakes
    BY <1>2, <1>7, FollowsPiTakes DEF PiTakes, backendVars
  <1>8. CASE CommandIsResent
    BY <1>2, <1>8, FollowsResent DEF CommandIsResent, backendVars
  <1>9. CASE PiLinkBreaks \/ PiRestarts \/ BackendLinkBreaks \/ BackendCrashes
    BY <1>9, NothingBreaks
  <1>10. CASE PiConnects \/ BackendConnects
    BY <1>1, <1>10 DEF GhostInv, PiConnects, BackendConnects
  <1>11. CASE UNCHANGED vars
    BY <1>2, <1>11, FollowsUntouched DEF vars, backendVars, piVars
  <1> QED BY <1>3, <1>4, <1>5, <1>6, <1>7, <1>8, <1>9, <1>10, <1>11 DEF Next

-----------------------------------------------------------------------------
(***************************************************************************)
(* The reports on their way.  Only(u, S, j, i): between the places j and i *)
(* of the link are reports of states of S, and nothing else.               *)
(***************************************************************************)
Only(u, S, j, i) ==
  \A k \in DOMAIN u : k > j /\ i > k => u[k].topic = "state" /\ u[k].name \in S

\* Before place i an event e is on its way, with nothing but S after it.
Foretold(u, S, e, i) ==
  \E j \in DOMAIN u : /\ i > j /\ u[j].topic = "event" /\ u[j].name = e
                      /\ Only(u, S, j, i)

LEMMA ReportPlaces ==
  ASSUME NEW u \in Seq(Reported), NEW a \in Reported, NEW b \in Reported
  PROVE  /\ Len(u) + 1 \in Nat /\ DOMAIN u \subseteq Nat \ {0}
         /\ \A i \in DOMAIN u : Len(u) + 1 > i
         /\ \A d : d = u \o <<a>> =>
              /\ Len(d) + 1 = Len(u) + 2
              /\ \A i \in DOMAIN u : i \in DOMAIN d /\ d[i] = u[i]
              /\ Len(u) + 1 \in DOMAIN d /\ d[Len(u) + 1] = a
              /\ \A i \in DOMAIN d : i \in DOMAIN u \/ i = Len(u) + 1
         /\ \A d : d = u \o <<a, b>> =>
              /\ Len(d) + 1 = Len(u) + 3
              /\ \A i \in DOMAIN u : i \in DOMAIN d /\ d[i] = u[i]
              /\ Len(u) + 1 \in DOMAIN d /\ d[Len(u) + 1] = a
              /\ Len(u) + 2 \in DOMAIN d /\ d[Len(u) + 2] = b
              /\ \A i \in DOMAIN d : i \in DOMAIN u \/ i = Len(u) + 1 \/ i = Len(u) + 2
  OBVIOUS

\* What is said behind a place changes nothing before it.
LEMMA Grows ==
  ASSUME NEW u \in Seq(Reported), NEW a \in Reported, NEW b \in Reported,
         NEW d, d = u \o <<a>> \/ d = u \o <<a, b>>,
         NEW i \in DOMAIN u \cup {Len(u) + 1}, NEW S, NEW e
  PROVE  /\ \A j : Only(u, S, j, i) => Only(d, S, j, i)
         /\ Foretold(u, S, e, i) => Foretold(d, S, e, i)
  <1> DEFINE n == Len(u) + 1
             o == Len(u) + 2
  <1>1. /\ \A k \in DOMAIN u : k \in DOMAIN d /\ d[k] = u[k]
        /\ \A k \in DOMAIN d : k \in DOMAIN u \/ k = n \/ k = o
    <2>1. CASE d = u \o <<a>>
      BY <2>1, ReportPlaces
    <2>2. CASE d = u \o <<a, b>>
      BY <2>2, ReportPlaces
    <2> QED BY <2>1, <2>2
  <1>2. ~ (i > n) /\ ~ (i > o)
    BY ReportPlaces
  <1> HIDE DEF n, o
  <1>3. \A j : Only(u, S, j, i) => Only(d, S, j, i)
    BY <1>1, <1>2 DEF Only
  <1> QED BY <1>1, <1>3 DEF Foretold

LEMMA GoesOn ==
  ASSUME NEW u \in Seq(Reported), NEW a \in Reported, NEW d, d = u \o <<a>>, NEW S, NEW e,
         a.topic = "state", a.name \in S
  PROVE  /\ \A j : Only(u, S, j, Len(u) + 1) => Only(d, S, j, Len(d) + 1)
         /\ Foretold(u, S, e, Len(u) + 1) => Foretold(d, S, e, Len(d) + 1)
  <1> DEFINE n == Len(u) + 1
  <1>1. /\ \A k \in DOMAIN u : k \in DOMAIN d /\ d[k] = u[k] /\ n > k /\ Len(d) + 1 > k
        /\ \A k \in DOMAIN d : k \in DOMAIN u \/ k = n
        /\ d[n] = a
    BY ReportPlaces
  <1> HIDE DEF n
  <1>2. \A j : Only(u, S, j, n) => Only(d, S, j, Len(d) + 1)
    BY <1>1 DEF Only
  <1> QED BY <1>1, <1>2 DEF Foretold, n

LEMMA ForetoldNow ==
  ASSUME NEW u \in Seq(Reported), NEW a \in Reported, NEW b \in Reported,
         NEW d, d = u \o <<a, b>>, NEW S, b.topic = "event"
  PROVE  Foretold(d, S, b.name, Len(d) + 1)
  <1> DEFINE n == Len(u) + 2
  <1>1. /\ n \in DOMAIN d /\ d[n] = b
        /\ \A k \in DOMAIN d : ~ (k > n)
        /\ Len(d) + 1 > n
    BY ReportPlaces
  <1> HIDE DEF n
  <1> QED BY <1>1 DEF Foretold, Only

LEMMA TakenFirst ==
  ASSUME NEW u \in Seq(Reported), u # <<>>, NEW d, d = Tail(u),
         NEW i \in DOMAIN u \cup {Len(u) + 1}, NEW S, NEW e
  PROVE  /\ i # 1 => /\ i - 1 \in DOMAIN d \cup {Len(d) + 1}
                     /\ i \in DOMAIN u => i - 1 \in DOMAIN d /\ d[i - 1] = u[i]
                     /\ i = Len(u) + 1 => i - 1 = Len(d) + 1
         /\ i # 1 /\ Only(u, S, 0, i) =>
              /\ u[1].topic = "state" /\ u[1].name \in S
              /\ Only(d, S, 0, i - 1)
         /\ Foretold(u, S, e, i) =>
              /\ i # 1
              /\ \/ Foretold(d, S, e, i - 1)
                 \/ u[1].topic = "event" /\ u[1].name = e /\ Only(d, S, 0, i - 1)
  <1> DEFINE n == Len(u)
  <1>1. /\ n \in Nat \ {0} /\ DOMAIN u = 1..n /\ DOMAIN d = 1..(n - 1) /\ Len(d) = n - 1
        /\ \A k \in 1..(n - 1) : d[k] = u[k + 1]
    OBVIOUS
  <1>2. i \in 1..(n + 1)
    BY <1>1
  <1> HIDE DEF n
  <1>3. i # 1 => /\ i - 1 \in DOMAIN d \cup {Len(d) + 1}
                 /\ i \in DOMAIN u => i - 1 \in DOMAIN d /\ d[i - 1] = u[i]
                 /\ i = Len(u) + 1 => i - 1 = Len(d) + 1
    BY <1>1, <1>2 DEF n
  <1>4. \A j \in 0..n : j # 0 /\ Only(u, S, j, i) => Only(d, S, j - 1, i - 1)
    <2>1. \A j \in 1..n, k \in 1..(n - 1) : k > j - 1 /\ i - 1 > k =>
             k + 1 \in 1..n /\ k + 1 > j /\ i > k + 1
      BY <1>1, <1>2
    <2> QED BY <1>1, <2>1 DEF Only
  <1>5. i # 1 /\ Only(u, S, 0, i) => /\ u[1].topic = "state" /\ u[1].name \in S
                                     /\ Only(d, S, 0, i - 1)
    <2>1. \A k \in 1..(n - 1) : k > 0 /\ i - 1 > k => k + 1 \in 1..n /\ k + 1 > 0 /\ i > k + 1
      BY <1>1, <1>2
    <2>2. i # 1 => 1 \in 1..n /\ 1 > 0 /\ i > 1
      BY <1>1, <1>2
    <2> QED BY <1>1, <2>1, <2>2 DEF Only
  <1>6. ASSUME NEW j \in 1..n, i > j, u[j].topic = "event", u[j].name = e, Only(u, S, j, i)
        PROVE  /\ i # 1
               /\ \/ Foretold(d, S, e, i - 1)
                  \/ u[1].topic = "event" /\ u[1].name = e /\ Only(d, S, 0, i - 1)
    <2>1. i # 1 /\ Only(d, S, j - 1, i - 1)
      BY <1>1, <1>2, <1>4, <1>6
    <2>2. CASE j = 1
      BY <1>6, <2>1, <2>2
    <2>3. CASE j # 1
      <3>1. j - 1 \in DOMAIN d /\ i - 1 > j - 1 /\ d[j - 1] = u[j]
        BY <1>1, <1>2, <1>6, <2>3
      <3> QED BY <1>6, <2>1, <3>1 DEF Foretold
    <2> QED BY <2>2, <2>3
  <1> QED BY <1>1, <1>3, <1>5, <1>6 DEF Foretold

-----------------------------------------------------------------------------
(***************************************************************************)
(* The visit of the one the Pi keeps the bay for.  As long as it lasts,    *)
(* what the backend has taken or will have taken by then shows it: a       *)
(* pending check-in with only pending states or conflicts after it, or a   *)
(* strong conflict with only conflicts.  When the Pi reports the bay       *)
(* available at last, the backend therefore asks it to await that one      *)
(* again, and until then the reservation is awaited by the backend alone.  *)
(***************************************************************************)
PC == {"pending_check_in", "conflict"}

PendingKnown(r) == status[r] = "pending_check_in" /\ mirror[Bay] \in PC
StrongKnown(r) ==
  conflict[Bay] = [kind |-> "strong", res |-> r] /\ mirror[Bay] = "conflict"

PendsBy(r, i) ==
  \/ PendingKnown(r) /\ Only(up, PC, 0, i)
  \/ Foretold(up, PC, "pending_check_in", i)

StrongBy(r, i) ==
  \/ StrongKnown(r) /\ Only(up, {"conflict"}, 0, i)
  \/ Foretold(up, {"conflict"}, "conflict_strong", i)

ShownBy(r, i) == PendsBy(r, i) \/ StrongBy(r, i)

CheckInIsTold ==
  \E i \in DOMAIN up : /\ up[i].topic = "event"
                       /\ up[i].name \in {"auto_check_in", "check_in_confirmed"}

Visit(r) ==
  /\ state = "pending_check_in"    => PendsBy(r, Len(up) + 1)
  /\ state = "conflict"            => ShownBy(r, Len(up) + 1)
  /\ state = "reserved_checked_in" => CheckInIsTold

GraceFits(r) == graceOver => arrival[r] = "overdue" \/ Pending(CreateOf(r)) \/ ~ Heard(r)

Kept(r) == cached = r /\ state \notin {"available", "occupied"}

Restored(r) == \E i \in DOMAIN up : up[i] = State("available") /\ ShownBy(r, i)

Reached(r) == Pending(CreateOf(r)) \/ Kept(r) \/ CheckInIsTold \/ Restored(r)

\* One whose arrival is overdue need not reach the Pi any more, but one that the
\* Pi keeps the bay for has.
Expected(r) == Heard(r) /\ (arrival[r] = "overdue" => cached = r) => Reached(r)

Awaits(r) == (cached = r => Visit(r) /\ GraceFits(r)) /\ Expected(r)

\* What a step of the Pi that is not a command's does to the one it keeps the
\* bay for, and what it says.
Says(messages) == up' = up \o messages

PiVisit ==
  \/ UNCHANGED <<state, cached, up>>
  \/ /\ cached' = cached
     /\ \/ /\ state = "reserved" /\ state' = "pending_check_in"
           /\ Says(<<State(state'), Event("pending_check_in")>>)
        \/ state = "pending_check_in" /\ state' = "reserved_checked_in"
           /\ Says(<<State(state'), Event("auto_check_in")>>)
        \/ state = "pending_check_in" /\ state' = "conflict"
           /\ Says(<<State(state'), Event("conflict_strong")>>)
        \/ state = "pending_check_in" /\ state' = "conflict" /\ Says(<<State(state')>>)
        \/ state = "conflict" /\ state' = "available" /\ Says(<<State(state')>>)
        \/ state = "available" /\ state' = "occupied" /\ Says(<<State(state')>>)
        \/ state' = "reserved" /\ Says(<<State(state')>>)
  \/ /\ cached' = NoRes /\ state' = "available" /\ Says(<<State(state')>>)
     /\ state = "reserved_checked_in" \/ cached = NoRes \/ graceOver

GraceMoves == graceOver' => graceOver \/ (B!Awaited(cached) => arrival[cached] = "overdue")

LEMMA PiVisits ==
  ASSUME Typed, AllWell', backendLinked,
         \/ \E v \in Vehicles : VehicleComes(v)
         \/ VehicleIsSensedAgain \/ VehicleGoes \/ NodeRestarts
         \/ Recognition \/ PiTimeout \/ PiClock
  PROVE  /\ PiVisit
         /\ cached' = cached => GraceMoves
  <1> USE DEF PiVisit, Says, Reports, ReportsState, ReportsStateAnd,
              ReportsNothing, Pi!Transition, Pi!Stay, Pi!ForgetHolder, Pi!outputs,
              Pi!holder, Pi!NoRes, NoRes
  <1>1. ArrivalIsSensed => PiVisit /\ GraceMoves
    BY DEF GraceMoves, ArrivalIsSensed, Pi!VehicleArrived, Event
  <1>2. DepartureIsSensed => PiVisit /\ (cached' = cached => GraceMoves)
    BY DEF GraceMoves, DepartureIsSensed, Pi!VehicleLeft
  <1>3. Recognition => PiVisit /\ GraceMoves
    <2> SUFFICES ASSUME Recognition PROVE PiVisit /\ GraceMoves
      OBVIOUS
    <2>1. GraceMoves
      <3>1. graceOver' = graceOver
        BY DEF Recognition, Pi!LprResult
      <3> QED BY <3>1 DEF GraceMoves
    <2>2. PiVisit
      BY VehiclesTyped DEF Typed, Recognition, Pi!LprResult, Event, Pi!Unreadable
    <2> QED BY <2>1, <2>2
  <1>4. PiTimeout => PiVisit /\ (cached' = cached => GraceMoves)
    BY DEF GraceMoves, PiTimeout, Pi!ManualTimeout, Pi!NoShowCheck, Lets, AllWell
  <1>5. PiClock => PiVisit /\ GraceMoves
    BY DEF GraceMoves, PiClock, Pi!GraceEnds, Pi!TimerFires
  <1>6. VehicleGoes => DepartureIsSensed \/ UNCHANGED <<piVars, up>>
    BY DEF VehicleGoes
  <1>7. UNCHANGED <<piVars, up>> => PiVisit /\ GraceMoves
    BY DEF GraceMoves, piVars
  <1> HIDE DEF PiVisit
  <1> QED
    BY <1>1, <1>2, <1>3, <1>4, <1>5, <1>6, <1>7 DEF VehicleComes, VehicleIsSensedAgain,
       NodeRestarts

Known(r) == (PendingKnown(r) => PendingKnown(r)') /\ (StrongKnown(r) => StrongKnown(r)')

LEMMA ReportsGrow ==
  ASSUME Typed, NEW r \in Reservations, Known(r),
         NEW a \in Reported, NEW b \in Reported, up' = up \o <<a>> \/ up' = up \o <<a, b>>
  PROVE  /\ CheckInIsTold => CheckInIsTold'
         /\ Restored(r) => Restored(r)'
         /\ a = State("available") /\ ShownBy(r, Len(up) + 1) => Restored(r)'
  <1>0. up \in Seq(Reported)
    BY DEF Typed
  <1>1. /\ \A i \in DOMAIN up : i \in DOMAIN up' /\ up'[i] = up[i]
        /\ Len(up) + 1 \in DOMAIN up' /\ up'[Len(up) + 1] = a
    <2>1. CASE up' = up \o <<a>>
      BY <1>0, <2>1, ReportPlaces
    <2>2. CASE up' = up \o <<a, b>>
      BY <1>0, <2>2, ReportPlaces
    <2> QED BY <2>1, <2>2
  <1>2. ASSUME NEW i \in DOMAIN up \cup {Len(up) + 1}, ShownBy(r, i)
        PROVE  ShownBy(r, i)'
    <2>1. \A S, e : /\ \A j : Only(up, S, j, i) => Only(up', S, j, i)
                    /\ Foretold(up, S, e, i) => Foretold(up', S, e, i)
      BY <1>0, Grows, Zenon
    <2> QED BY <1>2, <2>1 DEF ShownBy, PendsBy, StrongBy, Known
  <1>3. CheckInIsTold => CheckInIsTold'
    BY <1>1 DEF CheckInIsTold
  <1>4. Restored(r) => Restored(r)'
    BY <1>1, <1>2 DEF Restored
  <1> QED BY <1>1, <1>2, <1>3, <1>4 DEF Restored

LEMMA StateGoesOn ==
  ASSUME Typed, NEW r \in Reservations, Known(r),
         NEW s \in PC, up' = up \o <<State(s)>>
  PROVE  /\ PendsBy(r, Len(up) + 1) => PendsBy(r, Len(up) + 1)'
         /\ s = "conflict" /\ ShownBy(r, Len(up) + 1) => ShownBy(r, Len(up) + 1)'
  <1>1. /\ up \in Seq(Reported) /\ State(s) \in Reported
        /\ State(s).topic = "state" /\ State(s).name = s
    BY DEF Typed, Reported, State, PC, Pi!BayStates
  <1>2. \A S, e : s \in S =>
          /\ \A j : Only(up, S, j, Len(up) + 1) => Only(up', S, j, Len(up') + 1)
          /\ Foretold(up, S, e, Len(up) + 1) => Foretold(up', S, e, Len(up') + 1)
    BY <1>1, GoesOn, Zenon
  <1> QED BY <1>2 DEF ShownBy, PendsBy, StrongBy, Known

LEMMA EventShows ==
  ASSUME Typed, NEW r \in Reservations, NEW s \in Pi!BayStates, NEW e \in Events,
         up' = up \o <<State(s), Event(e)>>
  PROVE  /\ e = "pending_check_in" => PendsBy(r, Len(up) + 1)'
         /\ e = "conflict_strong" => ShownBy(r, Len(up) + 1)'
         /\ e = "auto_check_in" => CheckInIsTold'
  <1>1. /\ up \in Seq(Reported) /\ State(s) \in Reported /\ Event(e) \in Reported
        /\ Event(e).topic = "event" /\ Event(e).name = e
    BY DEF Typed, Reported, State, Event
  <1>2. \A S : Foretold(up', S, e, Len(up') + 1)
    BY <1>1, ForetoldNow, Zenon
  <1>3. Len(up) + 2 \in DOMAIN up' /\ up'[Len(up) + 2] = Event(e)
    BY <1>1, ReportPlaces
  <1> QED BY <1>1, <1>2, <1>3 DEF ShownBy, PendsBy, StrongBy, CheckInIsTold

LEMMA AwaitsPi ==
  ASSUME Typed, PiVisit, cached' = cached => GraceMoves, UNCHANGED <<backendVars, down, unheard>>,
         NEW r \in Reservations, B!Awaited(r), Awaits(r)
  PROVE  Awaits(r)'
  <1>1. /\ Pending(CreateOf(r)) <=> Pending(CreateOf(r))'
        /\ Heard(r) <=> Heard(r)'
        /\ Known(r) /\ arrival' = arrival
    BY DEF Pending, Heard, Known, PendingKnown, StrongKnown, backendVars, CreateOf
  <1>2. r # NoRes
    BY ReservationsAreNumbered
  <1>3. CASE UNCHANGED <<state, cached, up>>
    <2>1. /\ Visit(r) <=> Visit(r)'
          /\ Kept(r) <=> Kept(r)'
          /\ CheckInIsTold <=> CheckInIsTold'
          /\ Restored(r) <=> Restored(r)'
      BY <1>3 DEF Visit, Kept, CheckInIsTold, Restored, ShownBy, PendsBy, StrongBy, PendingKnown,
         StrongKnown, backendVars
    <2>2. cached' = r => GraceFits(r)'
      BY <1>1, <1>3 DEF Awaits, GraceFits, GraceMoves
    <2> QED BY <1>1, <1>3, <2>1, <2>2 DEF Awaits, Expected, Reached
  <1>4. CASE /\ cached' = NoRes /\ state' = "available" /\ Says(<<State(state')>>)
             /\ state = "reserved_checked_in" \/ cached = NoRes \/ graceOver
    <2>1. State(state') \in Reported /\ up' = up \o <<State(state')>>
      BY <1>4 DEF State, Reported, Pi!BayStates, Says
    <2>2. (CheckInIsTold => CheckInIsTold') /\ (Restored(r) => Restored(r)')
      BY <1>1, <2>1, ReportsGrow, Zenon
    <2>3. Kept(r) => CheckInIsTold \/ arrival[r] = "overdue" \/ Pending(CreateOf(r)) \/ ~ Heard(r)
      BY <1>2, <1>4 DEF Kept, Awaits, Visit, GraceFits
    <2> QED BY <1>1, <1>2, <1>4, <2>2, <2>3 DEF Awaits, Expected, Reached
  <1>5. ASSUME cached' = cached, GraceMoves,
               NEW a \in Reported, NEW b \in Reported, up' = up \o <<a>> \/ up' = up \o <<a, b>>,
               cached = r => Visit(r)',
               Kept(r) => Kept(r)' \/ Restored(r)'
        PROVE  Awaits(r)'
    <2>1. (CheckInIsTold => CheckInIsTold') /\ (Restored(r) => Restored(r)')
      BY <1>1, <1>5, ReportsGrow, Zenon
    <2>2. cached' = r => GraceFits(r)'
      BY <1>1, <1>5 DEF Awaits, GraceFits, GraceMoves
    <2> QED BY <1>1, <1>5, <2>1, <2>2 DEF Awaits, Expected, Reached
  <1>6. state' \in Pi!BayStates => State(state') \in Reported
    BY DEF State, Reported
  <1>7. \A e \in Events : Event(e) \in Reported
    BY DEF Event, Reported, Typed
  <1>8. ASSUME cached' = cached, NEW t \in Pi!BayStates, state' = t, up' = up \o <<State(t)>>,
               cached = r => Visit(r)', Kept(r) => Kept(r)' \/ Restored(r)'
        PROVE  Awaits(r)'
    BY <1>5, <1>6, <1>8
  <1>9. ASSUME cached' = cached, NEW t \in Pi!BayStates, NEW e \in Events, state' = t,
               up' = up \o <<State(t), Event(e)>>, cached = r => Visit(r)', Kept(r) => Kept(r)'
        PROVE  Awaits(r)'
    BY <1>5, <1>6, <1>7, <1>9
  <1>10. CASE /\ cached' = cached /\ state = "reserved" /\ state' = "pending_check_in"
              /\ Says(<<State(state'), Event("pending_check_in")>>)
    <2>1. up' = up \o <<State("pending_check_in"), Event("pending_check_in")>>
      BY <1>10 DEF Says
    <2>2. Visit(r)'
      BY <1>10, <2>1, EventShows DEF Visit, Pi!BayStates, Events
    <2> QED BY <1>9, <1>10, <2>1, <2>2 DEF Kept, Pi!BayStates, Events
  <1>11. CASE /\ cached' = cached /\ state = "pending_check_in" /\ state' = "reserved_checked_in"
              /\ Says(<<State(state'), Event("auto_check_in")>>)
    <2>1. up' = up \o <<State("reserved_checked_in"), Event("auto_check_in")>>
      BY <1>11 DEF Says
    <2>2. Visit(r)'
      BY <1>11, <2>1, EventShows DEF Visit, Pi!BayStates, Events
    <2> QED BY <1>9, <1>11, <2>1, <2>2 DEF Kept, Pi!BayStates, Events
  <1>12. CASE /\ cached' = cached /\ state = "pending_check_in" /\ state' = "conflict"
              /\ Says(<<State(state'), Event("conflict_strong")>>)
    <2>1. up' = up \o <<State("conflict"), Event("conflict_strong")>>
      BY <1>12 DEF Says
    <2>2. Visit(r)'
      BY <1>12, <2>1, EventShows DEF Visit, Pi!BayStates, Events
    <2> QED BY <1>9, <1>12, <2>1, <2>2 DEF Kept, Pi!BayStates, Events
  <1>13. CASE /\ cached' = cached /\ state = "pending_check_in" /\ state' = "conflict"
              /\ Says(<<State(state')>>)
    <2>1. up' = up \o <<State("conflict")>>
      BY <1>13 DEF Says
    <2>2. cached = r => Visit(r)'
      BY <1>1, <1>13, <2>1, StateGoesOn DEF Awaits, Visit, PC, ShownBy
    <2> QED BY <1>8, <1>13, <2>1, <2>2 DEF Kept, Pi!BayStates
  <1>14. CASE /\ cached' = cached /\ state = "conflict" /\ state' = "available"
              /\ Says(<<State(state')>>)
    <2>1. up' = up \o <<State("available")>> /\ State("available") \in Reported
      BY <1>14 DEF Says, State, Reported, Pi!BayStates
    <2>2. cached = r => Restored(r)'
      <3>1. cached = r => ShownBy(r, Len(up) + 1)
        BY <1>14 DEF Awaits, Visit
      <3> QED BY <1>1, <2>1, <3>1, ReportsGrow, Zenon
    <2> QED BY <1>8, <1>14, <2>1, <2>2 DEF Visit, Kept, Pi!BayStates
  <1>15. CASE /\ cached' = cached /\ state = "available" /\ state' = "occupied"
              /\ Says(<<State(state')>>)
    BY <1>8, <1>15 DEF Says, Visit, Kept, Pi!BayStates
  <1>16. CASE cached' = cached /\ state' = "reserved" /\ Says(<<State(state')>>)
    BY <1>8, <1>16 DEF Says, Visit, Kept, Pi!BayStates
  <1> QED BY <1>3, <1>4, <1>10, <1>11, <1>12, <1>13, <1>14, <1>15, <1>16 DEF PiVisit

LEMMA SpeakingTakesNothingBack ==
  ASSUME Typed, PiSpeaks, backendLinked, NEW r \in Reservations, Known(r)
  PROVE  (CheckInIsTold => CheckInIsTold') /\ (Restored(r) => Restored(r)')
  <1>1. State(state') \in Reported /\ \A e \in Events : Event(e) \in Reported
    BY DEF PiSpeaks, State, Event, Reported, Typed
  <1>2. CASE up' = up
    <2>1. \A i : ShownBy(r, i) => ShownBy(r, i)'
      BY <1>2 DEF ShownBy, PendsBy, StrongBy, Known
    <2> QED BY <1>2, <2>1 DEF CheckInIsTold, Restored
  <1>3. CASE up' = up \o <<State(state')>>
    BY <1>1, <1>3, ReportsGrow, Zenon
  <1>4. ASSUME NEW e \in Events, up' = up \o <<State(state'), Event(e)>>
        PROVE  (CheckInIsTold => CheckInIsTold') /\ (Restored(r) => Restored(r)')
    BY <1>1, <1>4, ReportsGrow, Zenon
  <1> QED BY <1>2, <1>3, <1>4 DEF PiSpeaks, TellsState, Tells

LEMMA AwaitsPiTakes ==
  ASSUME Typed, Basics, AllWell', PiTakes, NEW r \in Reservations, B!Awaited(r),
         Follows(r), Awaits(r)
  PROVE  Awaits(r)'
  <1> DEFINE c == CreateOf(r)
  <1>1. PICK m : m = Head(down)
    OBVIOUS
  <1>2. /\ PiSpeaks /\ m \in B!Commands \cup {Resync}
        /\ \/ Accepted(m) /\ unheard' = {d \in unheard : d.res # m.res}
           \/ /\ PiIgnores(m) /\ m \in B!Commands
              /\ UNCHANGED <<piVars, up>>
              /\ unheard' = {d \in unheard : d.res # m.res} \cup {m}
    BY <1>1, PiTakesCommand
  <1>3. /\ backendLinked /\ down # <<>> /\ down' = Tail(down) /\ UNCHANGED backendVars
        /\ mishap' # "misdirected"
        /\ ~ (cached # NoRes /\ m.res \notin {NoRes, cached} /\ cached' # m.res)
    BY <1>1 DEF PiTakes, Lets, AllWell
  <1>4. /\ m = down[1] /\ 1 \in DOMAIN down
        /\ \A i \in DOMAIN down : i # 1 => i - 1 \in DOMAIN down' /\ down'[i - 1] = down[i]
        /\ DOMAIN down \subseteq Nat \ {0}
    <2>1. down \in Seq(B!Commands \cup {Resync})
      BY DEF Typed
    <2> QED BY <1>1, <1>3, <2>1, TailKeepsRest
  <1>5. r # NoRes /\ c \in B!Commands /\ c.action = "create" /\ c.res = r
    BY ReservationsAreNumbered DEF CreateOf, B!Commands, B!Actions
  <1>6. Known(r) /\ arrival' = arrival
    BY <1>3 DEF Known, PendingKnown, StrongKnown, backendVars
  <1>7. (CheckInIsTold => CheckInIsTold') /\ (Restored(r) => Restored(r)')
    BY <1>2, <1>3, <1>6, SpeakingTakesNothingBack
  <1>8. Pending(c) /\ m # c => Pending(c)'
    BY <1>3, <1>4 DEF Pending, backendVars
  <1>9. m.res # r => (Heard(r) <=> Heard(r)')
    <2>1. m.res # r => \A d : d.res = r => (d \in unheard <=> d \in unheard')
      BY <1>2
    <2> QED BY <2>1 DEF Heard
  <1>10. UNCHANGED <<state, cached, up>> => (Visit(r) <=> Visit(r)')
    BY <1>3 DEF Visit, CheckInIsTold, ShownBy, PendsBy, StrongBy, PendingKnown,
       StrongKnown, backendVars
  <1>11. CASE m = Resync
    <2>1. m.res # r /\ m # c
      BY <1>5, <1>11, ResyncIsNoCommand DEF Resync
    <2>2. UNCHANGED <<state, cached, graceOver>> /\ up' = up \o <<State(state)>>
      BY <1>1, <1>3, <1>11 DEF PiTakes, PiAccepts, PiIgnores, Resync, ReportsState, Reports,
         Pi!ReplayState, Pi!holder
    <2>3. Visit(r) => Visit(r)'
      <3>1. CASE state \in PC
        BY <1>6, <1>7, <2>2, <3>1, StateGoesOn DEF Visit, PC, ShownBy
      <3>2. CASE state \notin PC
        BY <1>7, <2>2, <3>2 DEF Visit, PC
      <3> QED BY <3>1, <3>2
    <2>4. cached' = r => GraceFits(r)'
      BY <1>6, <1>8, <1>9, <2>1, <2>2 DEF Awaits, GraceFits
    <2> QED BY <1>6, <1>7, <1>8, <1>9, <2>1, <2>2, <2>3, <2>4 DEF Awaits, Expected, Reached, Kept
  <1>12. CASE m = c
    <2>1. cached \in {NoRes, r}
      <3>1. StopBetween(0, 1) => FALSE
        BY <1>4 DEF StopBetween
      <3>2. 1 > 0 /\ down[1] = CreateOf(r)
        BY <1>4, <1>12
      <3>3. ~ ClearedFor(r, 0)
        BY <1>4, <3>1, <3>2 DEF ClearedFor
      <3> QED BY <3>3 DEF Follows
    <2>2. CASE PiIgnores(m) /\ UNCHANGED <<piVars, up>> /\ m \in unheard'
      <3>1. ~ Heard(r)'
        BY <1>5, <1>12, <2>2 DEF Heard
      <3> QED BY <1>10, <2>2, <3>1 DEF Awaits, Expected, Reached, GraceFits, piVars
    <2>3. CASE Accepted(m) /\ ~ PiIgnores(m)
      <3>1. /\ cached' = r
            /\ state = "conflict" => UNCHANGED <<state, up>>
            /\ state # "conflict" => state' = "reserved"
        BY <1>5, <1>12, <2>3, ResyncIsNoCommand DEF Accepted, Stops
      <3>2. graceOver' => arrival'[r] = "overdue"
        <4>1. Pi!CreateCommand(r, {VehicleOf[r]}, arrival[r] = "overdue" /\ graceOver)
          BY <1>1, <1>5, <1>12, <2>3 DEF PiTakes, PiAccepts
        <4> QED BY <1>6, <4>1 DEF Pi!CreateCommand
      <3>3. Visit(r)'
        <4>1. CASE state = "conflict"
          <5>1. cached = r
            BY <2>1, <4>1 DEF Basics, HolderKnown
          <5> QED BY <1>10, <3>1, <4>1, <5>1 DEF Awaits
        <4>2. CASE state # "conflict"
          BY <3>1, <4>2 DEF Visit
        <4> QED BY <4>1, <4>2
      <3> QED BY <3>1, <3>2, <3>3 DEF Awaits, GraceFits, Expected, Reached, Kept
    <2>4. \/ Accepted(m) /\ ~ PiIgnores(m)
          \/ PiIgnores(m) /\ UNCHANGED <<piVars, up>> /\ m \in unheard'
      <3>1. CASE PiIgnores(m)
        <4>1. UNCHANGED <<piVars, up>>
          BY <1>1, <1>5, <1>12, <3>1 DEF PiTakes, PiIgnores, PiAccepts, Pi!CreateCommand
        <4>2. unheard' = {d \in unheard : d.res # m.res} \cup {m}
          BY <1>1, <3>1 DEF PiTakes
        <4> QED BY <3>1, <4>1, <4>2
      <3> QED BY <1>2, <3>1
    <2> QED BY <2>2, <2>3, <2>4
  <1>13. CASE m \in B!Commands /\ m # c
    <2>1. m.res # r
      <3>1. m.action = "create" => m.res # r
        BY <1>13 DEF CreateOf, B!Commands
      <3>2. Pending(m)
        BY <1>4 DEF Pending
      <3> QED BY <1>13, <3>1, <3>2 DEF Basics, CommandsFit
    <2>2. m.res # NoRes
      BY <1>13, ReservationsAreNumbered DEF B!Commands
    <2>3. CASE m.action = "create"
      <3>1. Pending(c)'
        <4>1. Superseded(r, 1)
          BY <1>4, <2>1, <2>3 DEF Follows
        <4> QED BY <1>8, <1>13, <4>1 DEF Superseded, InHand, Pending
      <3>2. cached' = r => UNCHANGED <<state, cached, up>>
        BY <1>2, <2>1, <2>3, ResyncIsNoCommand DEF Accepted, Stops, Resync, piVars
      <3> QED BY <1>10, <3>1, <3>2 DEF Awaits, GraceFits, Expected, Reached
    <2>4. CASE m.action # "create"
      <3>1. cached' = cached \/ cached' = NoRes
        BY <1>2, <2>4 DEF Accepted, piVars
      <3>2. cached # r
        BY <1>3, <1>5, <2>1, <2>2, <3>1
      <3> QED BY <1>6, <1>7, <1>8, <1>9, <1>13, <2>1, <3>1, <3>2, <1>5
          DEF Awaits, Expected, Reached, Kept
    <2> QED BY <2>3, <2>4
  <1> QED BY <1>2, <1>11, <1>12, <1>13

\* Of its own accord the backend lets go of an awaited one or books a new one.
LEMMA AwaitsRequest ==
  ASSUME Typed, Basics, RequestOrSweep, NEW r \in Reservations, B!Awaited(r)'
  PROVE  Awaits(r)'
  <1>1. PICK c \in B!Commands : Volunteers(c)
    BY RequestOrSweepMoves
  <1>2. c.res \in Reservations /\ B!Awaited(r)' \in BOOLEAN
    BY DEF B!Commands, B!Awaited
  <1>3. Announces(c) /\ ~ Renews(c)
    BY <1>1 DEF Volunteers
  <1>4. CASE Books(c)
    <2>1. c = CreateOf(r) /\ status[r] = "none"
      BY <1>2, <1>4 DEF Books, Becomes, Typed, B!Awaited, Open, B!OpenStatuses, CreateOf, B!Commands
    <2>2. Pending(CreateOf(r))'
      BY <1>3, <2>1 DEF Announces, Pending, Typed
    <2>3. cached' # r
      BY <2>1, ReservationsAreNumbered
      DEF Basics, CommandsFit, RequestOrSweep, BackendOnly, piVars, NoRes
    <2> QED BY <2>2, <2>3 DEF Awaits, Expected, Reached
  <1>5. CASE Ends(c)
    <2>1. B!Awaited(c.res) /\ c.res # r
      BY <1>1, <1>2, <1>5 DEF Volunteers, Ends, Becomes, Typed, B!Awaited, B!TerminalStatuses
    <2>2. Open(c.res) /\ Open(r)
      BY <1>2, <1>5, <2>1 DEF Ends, Becomes, Typed, B!Awaited, Open, B!OpenStatuses
    <2> QED BY <1>2, <2>1, <2>2 DEF Basics, OneOpen
  <1>6. CASE ChecksIn(c)
    <2>1. c.res # r /\ Open(r)
      BY <1>2, <1>6 DEF ChecksIn, Becomes, Typed, B!Awaited, Open, B!OpenStatuses
    <2>2. status[c.res] # "in_conflict"
      BY <1>6, <2>1 DEF ChecksIn
    <2>3. Open(c.res)
      BY <1>6, <2>2 DEF ChecksIn, Live, Open, B!LiveStatuses
    <2> QED BY <1>2, <2>1, <2>3 DEF Basics, OneOpen
  <1> QED BY <1>3, <1>4, <1>5, <1>6 DEF Announces

\* What a taken report does to an awaited one that stays awaited.
Sees(r, m) ==
  /\ m = State("available") /\ (PendingKnown(r) \/ StrongKnown(r)) => InHand(CreateOf(r))'
  /\ InHand(CreateOf(r)) => InHand(CreateOf(r))'
  /\ arrival'[r] = arrival[r] \/ InHand(CreateOf(r))'
  /\ m.topic = "state" =>
       /\ m.name \in PC /\ PendingKnown(r) => PendingKnown(r)'
       /\ m.name = "conflict" /\ StrongKnown(r) => StrongKnown(r)'
  /\ m.topic = "event" =>
       /\ m.name \in {"pending_check_in", "conflict_strong"}
       /\ m.name = "pending_check_in" => PendingKnown(r)'
       /\ m.name = "conflict_strong" => StrongKnown(r)'

LEMMA StateSeen ==
  ASSUME Typed, Basics, NEW m \in Reported, m.topic = "state", Handle(m),
         NEW r \in Reservations, B!Awaited(r), B!Awaited(r)'
  PROVE  Sees(r, m)
  <1> USE DEF Typed, B!Sends, B!ReportsChange, PendingKnown, StrongKnown, PC, InHand, CreateOf
  <1>1. m.name \in Pi!BayStates /\ B!ApplyState(Bay, m.name, B!Once)
    BY DEF Handle, Reported
  <1>2. \A q \in Reservations : Open(q) => q = r
    BY DEF Basics, OneOpen, Open, B!Awaited, B!OpenStatuses
  <1>3. "mqtt" \in B!Threads
    BY DEF B!Threads
  <1>4. m = State("available") => m.name = "available"
    BY DEF State
  <1>5. \A t \in B!Threads : outbox[t] = CreateOf(r) => t # "mqtt"
    <2>1. outbox["mqtt"] = B!NoCommand
      BY <1>1 DEF B!ApplyState, B!RestoreAfterStrongConflict, B!RollbackPendingCheckIn,
         B!CompleteReservation, B!MirrorOnly, B!Idle
    <2> QED BY <2>1, NoCommandIsNone DEF B!NoCommand
  <1>6. CASE B!RestoreAfterStrongConflict(Bay, m.name, B!Once)
    <2>1. conflict[Bay].res = r /\ m.name \notin PC
      BY <1>2, <1>6, ReservationsAreNumbered
      DEF B!RestoreAfterStrongConflict, B!StrongRestores, B!Conflicts, Open, NoRes, B!NoRes
    <2>2. status[r] # "checked_in"
      BY DEF B!Awaited
    <2>3. outbox' = [outbox EXCEPT !["mqtt"] = CreateOf(r)]
      BY <1>6, <2>1, <2>2 DEF B!RestoreAfterStrongConflict
    <2>4. InHand(CreateOf(r))'
      BY <1>3, <2>3
    <2> QED BY <2>1, <2>4 DEF Sees
  <1>7. ASSUME NEW q \in Reservations, B!RollbackPendingCheckIn(Bay, m.name, q, B!Once)
        PROVE  Sees(r, m)
    <2>1. q = r /\ m.name \notin PC
      BY <1>2, <1>7 DEF B!RollbackPendingCheckIn, B!PendingRollsBack, Open, B!OpenStatuses
    <2>2. InHand(CreateOf(r))'
      BY <1>3, <1>7, <2>1 DEF B!RollbackPendingCheckIn
    <2> QED BY <2>1, <2>2 DEF Sees
  <1>8. ASSUME NEW q \in Reservations, B!CompleteReservation(Bay, m.name, q, B!Once)
        PROVE  Sees(r, m)
    <2>1. q # r
      BY <1>8 DEF B!CompleteReservation, B!Awaited
    <2>2. m.name \notin PC /\ arrival' = arrival
      BY <1>8 DEF B!CompleteReservation, B!Completable
    <2>3. ~ PendingKnown(r)
      BY <1>8, <2>1 DEF B!CompleteReservation, B!Completable, B!OnBay
    <2>4. ~ StrongKnown(r)
      BY <1>8, ReservationsAreNumbered
      DEF B!CompleteReservation, B!StrongRestores, B!Completable, B!OnBay, NoRes, B!NoRes,
          B!Awaited, B!OpenStatuses
    <2>5. InHand(CreateOf(r)) => InHand(CreateOf(r))'
      BY <1>5, <1>8 DEF B!CompleteReservation
    <2> QED BY <2>2, <2>3, <2>4, <2>5 DEF Sees
  <1>9. CASE B!MirrorOnly(Bay, m.name, B!Once)
    <2>1. /\ mirror'[Bay] = m.name
          /\ UNCHANGED <<status, conflict, arrival, outbox>>
      BY <1>9 DEF B!MirrorOnly, B!reservationVars
    <2>2. m.name = "available" => ~ PendingKnown(r)
      BY <1>9 DEF B!MirrorOnly, B!Completable, B!OnBay
    <2>3. m.name = "available" => ~ StrongKnown(r)
      BY <1>9, ReservationsAreNumbered
      DEF B!MirrorOnly, B!StrongRestores, NoRes, B!NoRes, B!Awaited, B!OpenStatuses
    <2> QED BY <1>4, <2>1, <2>2, <2>3 DEF Sees
  <1> QED BY <1>1, <1>6, <1>7, <1>8, <1>9 DEF B!ApplyState

LEMMA EventSeen ==
  ASSUME Typed, Basics, NEW m \in Reported, m.topic = "event", Handle(m),
         NEW r \in Reservations, B!Awaited(r), B!Awaited(r)'
  PROVE  Sees(r, m)
  <1>1. B!OpenReservation(Bay) = {r}
    <2>1. \A q \in Reservations : q > r => status[q] = "none"
      BY DEF Basics, InOrder
    <2>2. \A q \in Reservations : q <= r \/ q > r
      BY ReservationsAreNumbered
    <2>3. \A q \in Reservations : q # r /\ q <= r => ~ (r <= q)
      BY ReservationsAreNumbered
    <2>4. status[r] \in B!LiveStatuses /\ r <= r
      BY ReservationsAreNumbered DEF B!Awaited, B!LiveStatuses, B!OpenStatuses
    <2> QED BY <2>1, <2>2, <2>3, <2>4 DEF B!OpenReservation, B!OnBay, B!LiveStatuses, B!OpenStatuses
  <1>2. m.name \in Events /\ HandleEvent(m.name) /\ m # State("available")
    BY DEF Handle, Reported, State
  <1>3. /\ status[r] \in {"active", "pending_check_in"}
        /\ status'[r] \in {"active", "pending_check_in"}
    BY DEF B!Awaited
  <1> USE DEF Typed, PendingKnown, StrongKnown, PC, InHand
  <1>4. CASE m.name = "pending_check_in"
    BY <1>1, <1>2, <1>4 DEF HandleEvent, B!PendingCheckIn, Sees
  <1>5. CASE m.name = "auto_check_in"
    BY <1>1, <1>2, <1>3, <1>5 DEF HandleEvent, B!AutoCheckIn, Sees
  <1>6. CASE m.name = "check_in_confirmed"
    BY <1>1, <1>2, <1>3, <1>6 DEF HandleEvent, B!CheckInConfirmed, Sees
  <1>7. CASE m.name = "conflict_strong"
    <2>1. conflict'[Bay] = [kind |-> "strong", res |-> r] /\ mirror'[Bay] = "conflict"
      BY <1>1, <1>2, <1>7 DEF HandleEvent, B!ConflictStrong
    <2>2. arrival' = arrival /\ outbox' = outbox
      BY <1>2, <1>7 DEF HandleEvent, B!ConflictStrong
    <2> QED BY <1>2, <1>7, <2>1, <2>2 DEF Sees
  <1> QED BY <1>2, <1>4, <1>5, <1>6, <1>7 DEF Events

LEMMA ReportSeen ==
  ASSUME Typed, Basics, AllWell', BackendTakes, NEW m, m = Head(up),
         NEW r \in Reservations, B!Awaited(r)'
  PROVE  B!Awaited(r) /\ m \in Reported /\ Sees(r, m)
  <1>1. m \in Reported
    BY ReportMoves
  <1>2. B!Awaited(r)
    BY <1>1, ReportMoves DEF BackendMoves, MovesOn, Announces, Books, Renews, Ends, ChecksIn,
       Becomes, Typed, B!Awaited, B!Commands, B!TerminalStatuses
  <1>3. CASE Handle(m)
    <2>1. m.topic \in {"state", "event"}
      BY <1>1 DEF Reported
    <2> QED BY <1>1, <1>2, <1>3, <2>1, StateSeen, EventSeen
  <1>4. CASE Shrugs(m) /\ UNCHANGED backendVars
    <2>1. m.topic = "state" /\ m.name = mirror[Bay]
      <3>1. r \in B!OpenReservation(Bay)
        <4>1. \A q \in Reservations : q > r => status[q] = "none"
          BY <1>2 DEF Basics, InOrder
        <4>2. \A q \in Reservations : q <= r \/ q > r
          BY ReservationsAreNumbered
        <4> QED BY <1>2, <4>1, <4>2 DEF B!OpenReservation, B!OnBay, B!LiveStatuses, B!OpenStatuses,
                B!Awaited
      <3> QED BY <1>2, <1>4, <3>1 DEF Shrugs, B!Awaited
    <2> QED BY <1>1, <1>2, <1>4, <2>1 DEF Sees, backendVars, PendingKnown, StrongKnown, PC, State,
            InHand
  <1>5. ~ (mishap' = "report refused")
    BY DEF AllWell
  <1> QED BY <1>3, <1>4, <1>5 DEF BackendTakes, Lets

LEMMA AwaitsReport ==
  ASSUME Typed, Basics, AllWell', BackendTakes, NEW r \in Reservations, B!Awaited(r)',
         B!Awaited(r) => Awaits(r)
  PROVE  Awaits(r)'
  <1>1. PICK m : m = Head(up)
    OBVIOUS
  <1>2. B!Awaited(r) /\ m \in Reported /\ Sees(r, m)
    BY <1>1, ReportSeen
  <1>3. /\ up \in Seq(Reported) /\ up # <<>> /\ up' = Tail(up)
        /\ UNCHANGED <<state, cached, graceOver, down, unheard>>
    BY DEF Typed, BackendTakes, BackendOnly, piVars
  <1>4. /\ m = up[1] /\ 1 \in DOMAIN up
        /\ \A i \in DOMAIN up : i # 1 => i - 1 \in DOMAIN up' /\ up'[i - 1] = up[i]
    BY <1>1, <1>3, TailKeepsRest
  <1>5. ASSUME NEW i \in DOMAIN up \cup {Len(up) + 1}
        PROVE  /\ i # 1 /\ PendsBy(r, i) => PendsBy(r, i - 1)'
               /\ i # 1 /\ ShownBy(r, i) => ShownBy(r, i - 1)'
               /\ i = 1 /\ ShownBy(r, i) => PendingKnown(r) \/ StrongKnown(r)
    <2>1. \A S, e :
            /\ i # 1 /\ Only(up, S, 0, i) =>
                 /\ m.topic = "state" /\ m.name \in S
                 /\ Only(up', S, 0, i - 1)
            /\ Foretold(up, S, e, i) =>
                 /\ i # 1
                 /\ \/ Foretold(up', S, e, i - 1)
                    \/ m.topic = "event" /\ m.name = e /\ Only(up', S, 0, i - 1)
      <3>1. \A S, e :
            /\ i # 1 /\ Only(up, S, 0, i) =>
                 /\ up[1].topic = "state" /\ up[1].name \in S
                 /\ Only(up', S, 0, i - 1)
            /\ Foretold(up, S, e, i) =>
                 /\ i # 1
                 /\ \/ Foretold(up', S, e, i - 1)
                    \/ up[1].topic = "event" /\ up[1].name = e /\ Only(up', S, 0, i - 1)
        BY <1>3, TakenFirst, Zenon
      <3> QED BY <1>4, <3>1
    <2>2. i # 1 /\ PendsBy(r, i) => PendsBy(r, i - 1)'
      BY <1>2, <2>1 DEF PendsBy, Sees
    <2>3. i # 1 /\ StrongBy(r, i) => StrongBy(r, i - 1)'
      BY <1>2, <2>1 DEF StrongBy, Sees
    <2>4. i = 1 /\ ShownBy(r, i) => PendingKnown(r) \/ StrongKnown(r)
      BY <2>1 DEF ShownBy, PendsBy, StrongBy
    <2> QED BY <2>2, <2>3, <2>4 DEF ShownBy
  <1>6. PICK n : n = Len(up) + 1
    OBVIOUS
  <1>7. /\ PendsBy(r, Len(up) + 1) => PendsBy(r, Len(up) + 1)'
        /\ ShownBy(r, Len(up) + 1) => ShownBy(r, Len(up) + 1)'
    <2>1. n # 1 /\ n - 1 = Len(up') + 1
      BY <1>3, <1>6
    <2>2. (PendsBy(r, n) => PendsBy(r, n - 1)') /\ (ShownBy(r, n) => ShownBy(r, n - 1)')
      BY <1>5, <1>6, <2>1
    <2> QED BY <1>6, <2>1, <2>2
  <1>8. CheckInIsTold => CheckInIsTold'
    <2>1. m.topic = "event" => m.name \notin {"auto_check_in", "check_in_confirmed"}
      BY <1>2 DEF Sees
    <2> QED BY <1>4, <2>1 DEF CheckInIsTold
  <1>9. InHand(CreateOf(r))' => Pending(CreateOf(r))'
    BY DEF InHand, Pending
  <1>10. Pending(CreateOf(r)) => Pending(CreateOf(r))'
    BY <1>2, <1>3, <1>9 DEF Pending, InHand, Sees
  <1>11. Restored(r) => Restored(r)' \/ Pending(CreateOf(r))'
    <2> SUFFICES ASSUME NEW i \in DOMAIN up, up[i] = State("available"), ShownBy(r, i)
                 PROVE  Restored(r)' \/ Pending(CreateOf(r))'
      BY DEF Restored
    <2>1. CASE i = 1
      BY <1>2, <1>4, <1>5, <1>9, <2>1 DEF Sees
    <2>2. CASE i # 1
      BY <1>4, <1>5, <2>2 DEF Restored, State
    <2> QED BY <2>1, <2>2
  <1>12. (Heard(r) <=> Heard(r)') /\ (Kept(r) <=> Kept(r)')
    BY <1>3 DEF Heard, Kept
  <1>13. arrival'[r] = arrival[r] \/ Pending(CreateOf(r))'
    BY <1>2, <1>9 DEF Sees
  <1>14. Visit(r) => Visit(r)'
    BY <1>3, <1>7, <1>8 DEF Visit
  <1>15. GraceFits(r) => GraceFits(r)'
    BY <1>3, <1>10, <1>12, <1>13 DEF GraceFits
  <1>16. Expected(r) => Expected(r)'
    BY <1>3, <1>8, <1>10, <1>11, <1>12, <1>13 DEF Expected, Reached
  <1> QED BY <1>2, <1>3, <1>14, <1>15, <1>16 DEF Awaits

\* A step that leaves the Pi, the reports and what the backend has taken alone.
LEMMA AwaitsUntouched ==
  ASSUME NEW r \in Reservations, Awaits(r), UNCHANGED <<state, cached, graceOver, up, unheard>>,
         PendingKnown(r) <=> PendingKnown(r)', StrongKnown(r) <=> StrongKnown(r)',
         arrival[r] = "overdue" => arrival'[r] = "overdue",
         Pending(CreateOf(r)) => Pending(CreateOf(r))'
  PROVE  Awaits(r)'
  <1>1. \A i : (PendsBy(r, i) <=> PendsBy(r, i)') /\ (ShownBy(r, i) <=> ShownBy(r, i)')
    BY DEF PendsBy, StrongBy, ShownBy
  <1>2. (Heard(r) <=> Heard(r)') /\ (Kept(r) <=> Kept(r)') /\ (CheckInIsTold <=> CheckInIsTold')
    BY DEF Heard, Kept, CheckInIsTold
  <1>3. Restored(r) <=> Restored(r)'
    BY <1>1 DEF Restored
  <1>4. Visit(r) => Visit(r)'
    BY <1>1, <1>2 DEF Visit
  <1>5. GraceFits(r) => GraceFits(r)'
    BY <1>2 DEF GraceFits
  <1>6. Expected(r) => Expected(r)'
    BY <1>2, <1>3 DEF Expected, Reached
  <1> QED BY <1>4, <1>5, <1>6 DEF Awaits

LEMMA PublishedStays ==
  ASSUME Typed, GhostInv, AllWell, Publish \/ CommandIsResent, NEW c \in B!Commands, Pending(c)
  PROVE  Pending(c)'
  <1>1. down \in Seq(B!Commands \cup {Resync})
    BY DEF Typed
  <1>2. CASE Publish
    <2>1. PICK t \in B!Threads : /\ outbox[t] # B!NoCommand
                                 /\ outbox' = [outbox EXCEPT ![t] = B!NoCommand]
                                 /\ down' = IF piLinked THEN Append(down, outbox[t]) ELSE down
      BY <1>2 DEF Publish, B!Publish, B!Idle
    <2>2. down' = Append(down, outbox[t]) /\ outbox[t] \in B!Commands
      BY <2>1 DEF GhostInv, Typed
    <2>3. /\ \A i \in DOMAIN down : i \in DOMAIN down' /\ down'[i] = down[i]
          /\ \E i \in DOMAIN down' : down'[i] = outbox[t]
      BY <1>1, <2>2, LastPlaces
    <2>4. \A u \in B!Threads : u # t => outbox'[u] = outbox[u]
      BY <2>1 DEF Typed
    <2> QED BY <2>3, <2>4 DEF Pending
  <1>3. CASE CommandIsResent
    BY <1>1, <1>3, LastPlaces DEF CommandIsResent, Pending, backendVars
  <1> QED BY <1>2, <1>3

LEMMA AwaitsStep ==
  ASSUME Typed, Basics, GhostInv, [Next]_vars, AllWell', NEW r \in Reservations, B!Awaited(r)',
         AllWell /\ B!Awaited(r) => Follows(r) /\ Awaits(r)
  PROVE  Awaits(r)'
  <1>1. AllWell
    BY WellBefore DEF AllWell, vars
  <1>2. UNCHANGED status => B!Awaited(r) /\ Follows(r) /\ Awaits(r)
    BY <1>1 DEF B!Awaited
  <1>3. CreateOf(r) \in B!Commands
    BY DEF CreateOf, B!Commands, B!Actions
  <1>4. CASE RequestOrSweep
    BY <1>4, AwaitsRequest
  <1>5. CASE BackendTakes
    BY <1>1, <1>5, AwaitsReport
  <1>6. CASE CloseConflict
    <2>1. PICK t \in HttpThreads : B!ResolveConflict(t, Bay)
      BY <1>6 DEF CloseConflict
    <2>2. /\ UNCHANGED <<status, arrival, mirror, outbox, state, cached, graceOver, up, down,
                        unheard>>
          /\ conflict'[Bay] = B!NoConflict /\ conflict[Bay].kind # "strong"
      BY <1>6, <2>1 DEF CloseConflict, B!ResolveConflict, B!reservationVars, B!bayVars, BackendOnly,
         piVars, Lets, AllWell, Typed
    <2>3. /\ PendingKnown(r) <=> PendingKnown(r)'
          /\ ~ StrongKnown(r) /\ ~ StrongKnown(r)'
          /\ Pending(CreateOf(r)) => Pending(CreateOf(r))'
      BY <2>2 DEF PendingKnown, StrongKnown, Pending, B!NoConflict
    <2> QED BY <1>2, <2>2, <2>3, AwaitsUntouched
  <1>7. CASE Tick
    <2>1. /\ UNCHANGED <<status, mirror, conflict, outbox, state, cached, graceOver, up, down,
                        unheard>>
          /\ arrival[r] = "overdue" => arrival'[r] = "overdue"
      BY <1>7 DEF Tick, B!ArrivalNears, B!GraceExpires, B!Later, B!bayVars, BackendOnly, piVars,
         Typed
    <2>2. /\ PendingKnown(r) <=> PendingKnown(r)'
          /\ StrongKnown(r) <=> StrongKnown(r)'
          /\ Pending(CreateOf(r)) => Pending(CreateOf(r))'
      BY <2>1 DEF PendingKnown, StrongKnown, Pending
    <2> QED BY <1>2, <2>1, <2>2, AwaitsUntouched
  <1>8. CASE Publish \/ CommandIsResent
    <2>1. UNCHANGED <<status, mirror, conflict, arrival, state, cached, graceOver, up, unheard>>
      BY <1>8 DEF Publish, B!Publish, CommandIsResent, BackendOnly, backendVars, piVars,
         B!reservationVars, B!bayVars
    <2>2. /\ PendingKnown(r) <=> PendingKnown(r)'
          /\ StrongKnown(r) <=> StrongKnown(r)'
          /\ Pending(CreateOf(r)) => Pending(CreateOf(r))'
      BY <1>1, <1>3, <1>8, <2>1, PublishedStays DEF PendingKnown, StrongKnown
    <2> QED BY <1>2, <2>1, <2>2, AwaitsUntouched
  <1>9. CASE \/ \E v \in Vehicles : VehicleComes(v)
             \/ VehicleIsSensedAgain \/ VehicleGoes \/ NodeRestarts
             \/ Recognition \/ PiTimeout \/ PiClock
    <2>1. UNCHANGED <<backendVars, down, unheard>>
      BY <1>9, PiStepSpeaks
    <2>2. PiVisit /\ (cached' = cached => GraceMoves)
      BY <1>1, <1>9, PiVisits DEF GhostInv
    <2> QED BY <1>2, <2>1, <2>2, AwaitsPi DEF backendVars
  <1>10. CASE PiTakes
    BY <1>2, <1>10, AwaitsPiTakes DEF PiTakes, backendVars
  <1>11. CASE PiLinkBreaks \/ PiRestarts \/ BackendLinkBreaks \/ BackendCrashes
    BY <1>11, NothingBreaks
  <1>12. CASE PiConnects \/ BackendConnects
    BY <1>1, <1>12 DEF GhostInv, PiConnects, BackendConnects
  <1>13. CASE UNCHANGED vars
    <2>1. /\ UNCHANGED <<status, mirror, conflict, arrival, outbox, down>>
          /\ UNCHANGED <<state, cached, graceOver, up, unheard>>
      BY <1>13 DEF vars, backendVars, piVars
    <2>2. /\ PendingKnown(r) <=> PendingKnown(r)'
          /\ StrongKnown(r) <=> StrongKnown(r)'
          /\ Pending(CreateOf(r)) => Pending(CreateOf(r))'
      BY <2>1 DEF PendingKnown, StrongKnown, Pending
    <2> QED BY <1>2, <2>1, <2>2, AwaitsUntouched
  <1> QED BY <1>4, <1>5, <1>6, <1>7, <1>8, <1>9, <1>10, <1>11, <1>12, <1>13 DEF Next

-----------------------------------------------------------------------------
ExpectedInv ==
  /\ Basics
  /\ AllWell => \A r \in Reservations : B!Awaited(r) => Follows(r) /\ Awaits(r)

LEMMA ExpectedInitially == Init => ExpectedInv
  <1>1. Init => \A r \in Reservations : ~ B!Awaited(r)
    BY DEF Init, B!Init, B!Awaited
  <1> QED BY <1>1, BasicsInitially DEF ExpectedInv

LEMMA ExpectedStep ==
  ASSUME Typed, GhostInv, ExpectedInv, [Next]_vars
  PROVE  ExpectedInv'
  BY BasicsStep, FollowsStep, AwaitsStep DEF ExpectedInv

LEMMA ExpectedInvSuffices ==
  ASSUME Typed, ExpectedInv
  PROVE  HolderIsExpected
  <1> SUFFICES ASSUME Quiet, AllWell, NEW r \in Reservations,
                      B!Awaited(r), Heard(r), arrival[r] # "overdue"
               PROVE  Kept(r)
    BY DEF HolderIsExpected, Kept
  <1>1. DOMAIN down = {} /\ DOMAIN up = {}
    <2>1. down = <<>> /\ up = <<>>
      BY DEF Quiet
    <2> QED BY <2>1, EmptyAndSingle, Zenon
  <1>2. ~ Pending(CreateOf(r))
    <2>1. CreateOf(r) \in B!Commands
      BY DEF CreateOf, B!Commands, B!Actions
    <2> QED BY <1>1, <2>1, NoCommandIsNone DEF Pending, Quiet, B!Idle
  <1>3. ~ CheckInIsTold /\ ~ Restored(r)
    BY <1>1 DEF CheckInIsTold, Restored
  <1> QED BY <1>2, <1>3 DEF ExpectedInv, Awaits, Expected, Reached

\* As long as nothing goes wrong, whoever the backend awaits the Pi awaits too
\* once everything has been taken, whatever the order of bookings, requests,
\* sweeps, vehicles, recognitions and timeouts: no stop overtakes the create
\* command of the next reservation, and a visit that ended in a conflict or in
\* nothing ends with a create command for the one whose visit it was.
THEOREM HolderIsAwaited == Spec => []HolderIsExpected
  <1>1. Init => Typed /\ GhostInv /\ ExpectedInv
    BY TypedInitially, GhostInitially, ExpectedInitially
  <1>2. Typed /\ GhostInv /\ ExpectedInv /\ [Next]_vars => (Typed /\ GhostInv /\ ExpectedInv)'
    BY TypedStep, GhostStep, ExpectedStep
  <1>3. Typed /\ GhostInv /\ ExpectedInv => HolderIsExpected
    BY ExpectedInvSuffices
  <1> QED BY <1>1, <1>2, <1>3, PTL DEF Spec

-----------------------------------------------------------------------------
(***************************************************************************)
(* What a no-show costs.  The penalty is written by the sweep of an active *)
(* reservation and by nothing else, and the holder who stands in the bay   *)
(* is not active any more, or the mirror shows a conflict, as soon as what *)
(* the Pi saw has been taken.                                              *)
(***************************************************************************)
NoShowRow == "penalty:no_show"

LedgersFormed ==
  DOMAIN ledger = Reservations /\ \A r \in Reservations : NoShowRow \in DOMAIN ledger[r]

SameRow(r) == ledger'[r][NoShowRow] = ledger[r][NoShowRow]

KeepsRows == LedgersFormed' /\ \A r \in Reservations : SameRow(r)

ChargesNoShow(p) ==
  /\ LedgersFormed'
  /\ \A r \in Reservations : r # p => SameRow(r)
  /\ B!Awaited(p) /\ \E q \in Reservations : B!SweptForNoShow(q)

LEMMA OtherRows ==
  ASSUME NEW l, NoShowRow \in DOMAIN l
  PROVE  /\ DOMAIN B!Preauthorize(l) = DOMAIN l
         /\ B!Preauthorize(l)[NoShowRow] = l[NoShowRow]
         /\ \A key \in B!ReturnKeys : /\ DOMAIN B!PayBack(l, key) = DOMAIN l
                                      /\ B!PayBack(l, key)[NoShowRow] = l[NoShowRow]
         /\ \A key \in B!PenaltyKeys :
              /\ DOMAIN B!SettleBreach(l, key) = DOMAIN l
              /\ key # NoShowRow => B!SettleBreach(l, key)[NoShowRow] = l[NoShowRow]
  <1> USE DEF NoShowRow
  <1>1. /\ DOMAIN B!Preauthorize(l) = DOMAIN l
        /\ B!Preauthorize(l)[NoShowRow] = l[NoShowRow]
    BY DEF B!Preauthorize
  <1>2. ASSUME NEW m, DOMAIN m = DOMAIN l, NEW key \in B!ReturnKeys
        PROVE  DOMAIN B!PayBack(m, key) = DOMAIN l /\ B!PayBack(m, key)[NoShowRow] = m[NoShowRow]
    BY <1>2 DEF B!PayBack, B!ReturnKeys
  <1>3. ASSUME NEW key \in B!PenaltyKeys
        PROVE  /\ DOMAIN B!ChargePenalty(l, key) = DOMAIN l
               /\ key # NoShowRow => B!ChargePenalty(l, key)[NoShowRow] = l[NoShowRow]
    BY DEF B!ChargePenalty
  <1>4. "release:remainder" \in B!ReturnKeys
    BY DEF B!ReturnKeys
  <1> QED BY <1>1, <1>2, <1>3, <1>4 DEF B!SettleBreach

\* One reservation's payments are rewritten at a time.
LEMMA RowsOfOne ==
  ASSUME LedgersFormed, NEW q \in Reservations, NEW l, DOMAIN l = DOMAIN ledger[q],
         ledger' = [ledger EXCEPT ![q] = l]
  PROVE  /\ LedgersFormed'
         /\ \A r \in Reservations : r # q => SameRow(r)
         /\ l[NoShowRow] = ledger[q][NoShowRow] => KeepsRows
  BY DEF LedgersFormed, KeepsRows, SameRow

LEMMA OnlyNoShowsCost ==
  ASSUME LedgersFormed, [B!Next]_(B!vars)
  PROVE  KeepsRows \/ \E p \in Reservations : ChargesNoShow(p)
  <1>0. ASSUME UNCHANGED ledger PROVE KeepsRows
    BY <1>0 DEF KeepsRows, SameRow, LedgersFormed
  <1>1. ASSUME NEW q \in Reservations, NEW l, ledger' = [ledger EXCEPT ![q] = l],
               DOMAIN l = DOMAIN ledger[q], l[NoShowRow] = ledger[q][NoShowRow]
        PROVE  KeepsRows
    BY <1>1, RowsOfOne
  <1>2. \A q \in Reservations : NoShowRow \in DOMAIN ledger[q]
    BY DEF LedgersFormed
  <1>3. ASSUME NEW q \in Reservations, NEW key \in B!ReturnKeys,
               B!Pays(q, B!PayBack(ledger[q], key))
        PROVE  KeepsRows
    <2>1. PICK l : l = B!PayBack(ledger[q], key)
      OBVIOUS
    <2>2. DOMAIN l = DOMAIN ledger[q] /\ l[NoShowRow] = ledger[q][NoShowRow]
      BY <1>2, <2>1, OtherRows, Zenon
    <2> QED BY <1>1, <1>3, <2>1, <2>2 DEF B!Pays
  <1>4. ASSUME NEW q \in Reservations, NEW key \in B!PenaltyKeys \ {NoShowRow},
               B!Pays(q, B!SettleBreach(ledger[q], key))
        PROVE  KeepsRows
    <2>1. PICK l : l = B!SettleBreach(ledger[q], key)
      OBVIOUS
    <2>2. key \in B!PenaltyKeys /\ key # NoShowRow
      OBVIOUS
    <2>3. DOMAIN l = DOMAIN ledger[q] /\ l[NoShowRow] = ledger[q][NoShowRow]
      BY <1>2, <2>1, <2>2, OtherRows, Zenon
    <2> QED BY <1>1, <1>4, <2>1, <2>3 DEF B!Pays
  <1>5. ASSUME NEW q \in Reservations, ledger' = [ledger EXCEPT ![q] = B!Preauthorize(@)]
        PROVE  KeepsRows
    <2>1. PICK l : l = B!Preauthorize(ledger[q])
      OBVIOUS
    <2>2. DOMAIN l = DOMAIN ledger[q] /\ l[NoShowRow] = ledger[q][NoShowRow]
      BY <1>2, <2>1, OtherRows, Zenon
    <2> QED BY <1>1, <1>5, <2>1, <2>2
  <1>6. ASSUME NEW q \in Reservations, B!SweepNoShow(q)
        PROVE  \E p \in Reservations : ChargesNoShow(p)
    <2>1. PICK p \in Reservations : B!NoShow(Bay, p)
      BY <1>6 DEF B!SweepNoShow
    <2>2. NoShowRow \in DOMAIN ledger[p] /\ NoShowRow \in B!PenaltyKeys
      BY DEF LedgersFormed, B!PenaltyKeys, NoShowRow
    <2>3. ledger' = [ledger EXCEPT ![p] = B!SettleBreach(ledger[p], NoShowRow)]
      BY <2>1 DEF B!NoShow, B!Pays, NoShowRow
    <2>4. DOMAIN B!SettleBreach(ledger[p], NoShowRow) = DOMAIN ledger[p]
      BY <2>2, OtherRows
    <2>5. LedgersFormed' /\ \A r \in Reservations : r # p => SameRow(r)
      BY <2>3, <2>4, RowsOfOne
    <2> QED BY <1>6, <2>1, <2>5 DEF ChargesNoShow, B!SweepNoShow, B!NoShow, B!Awaited
  <1>7. ASSUME NEW q \in Reservations, B!SweepConflictWeak(q)
        PROVE  KeepsRows
    <2>1. PICK p \in Reservations : B!ConflictWeak(Bay, p)
      BY <1>7 DEF B!SweepConflictWeak
    <2>2. "penalty:weak_conflict" \in B!PenaltyKeys \ {NoShowRow}
      BY DEF B!PenaltyKeys, NoShowRow
    <2> QED BY <1>4, <2>1, <2>2 DEF B!ConflictWeak
  <1>8. ASSUME NEW t \in HttpThreads, B!Request(t)
        PROVE  KeepsRows
    <2>1. ASSUME NEW q \in Reservations, NEW a, B!Create(t, q, a)
          PROVE  KeepsRows
      BY <1>5, <2>1 DEF B!Create
    <2>2. ASSUME NEW q \in Reservations, B!CancelNoFault(t, q) \/ B!AdminTerminate(t, q)
          PROVE  KeepsRows
      BY <1>3, <2>2 DEF B!CancelNoFault, B!AdminTerminate, B!ReturnKeys
    <2>3. ASSUME NEW q \in Reservations, B!Cancel(t, q)
          PROVE  KeepsRows
      <3>1. "penalty:late_cancel" \in B!PenaltyKeys \ {NoShowRow}
        BY DEF B!PenaltyKeys, NoShowRow
      <3>2. "release:clean_cancel" \in B!ReturnKeys
        BY DEF B!ReturnKeys
      <3>3. CASE arrival[q] # "early"
        <4>1. B!Pays(q, B!SettleBreach(ledger[q], "penalty:late_cancel"))
          BY <2>3, <3>3 DEF B!Cancel
        <4> QED BY <1>4, <3>1, <4>1
      <3>4. CASE arrival[q] = "early"
        <4>1. B!Pays(q, B!PayBack(ledger[q], "release:clean_cancel"))
          BY <2>3, <3>4 DEF B!Cancel
        <4> QED BY <1>3, <3>2, <4>1
      <3> QED BY <3>3, <3>4
    <2>4. ASSUME NEW q \in Reservations, B!CheckIn(t, q) \/ B!AdminCleansUpConflict(t, q)
          PROVE  KeepsRows
      BY <1>0, <2>4 DEF B!CheckIn, B!AdminCleansUpConflict, B!moneyVars
    <2>5. ASSUME B!ResolveConflict(t, Bay)
          PROVE  KeepsRows
      BY <1>0, <2>5 DEF B!ResolveConflict, B!moneyVars
    <2> QED BY <1>8, <2>1, <2>2, <2>3, <2>4, <2>5 DEF B!Request
  <1>9. CASE B!StateMessage(Bay)
    <2>1. PICK s, id : B!ApplyState(Bay, s, id)
      BY <1>9 DEF B!StateMessage
    <2>2. ASSUME NEW q \in Reservations, B!CompleteReservation(Bay, s, q, id)
          PROVE  KeepsRows
      <3>1. "release:completed" \in B!ReturnKeys
        BY DEF B!ReturnKeys
      <3> QED BY <1>3, <2>2, <3>1 DEF B!CompleteReservation
    <2>3. ASSUME \/ B!RestoreAfterStrongConflict(Bay, s, id)
                 \/ \E q \in Reservations : B!RollbackPendingCheckIn(Bay, s, q, id)
                 \/ B!MirrorOnly(Bay, s, id)
          PROVE  KeepsRows
      BY <1>0, <2>3 DEF B!RestoreAfterStrongConflict, B!RollbackPendingCheckIn, B!MirrorOnly,
                        B!moneyVars
    <2> QED BY <2>1, <2>2, <2>3 DEF B!ApplyState
  <1>10. CASE B!EventMessage(Bay)
    <2>1. UNCHANGED ledger
      BY <1>10 DEF B!EventMessage, B!SensorOnline, B!SensorOffline, B!PendingCheckIn,
                  B!AutoCheckIn, B!CheckInConfirmed, B!ConflictStrong, B!moneyVars
    <2> QED BY <1>0, <2>1
  <1>11. ASSUME NEW q \in Reservations, B!Tick(q)
        PROVE  KeepsRows
    BY <1>0, <1>11 DEF B!Tick, B!ArrivalNears, B!WindowEnds, B!GraceExpires, B!moneyVars
  <1>12. ASSUME (\E t \in B!Threads : B!Publish(t)) \/ B!Crash \/ UNCHANGED B!vars
         PROVE  KeepsRows
    BY <1>0, <1>12 DEF B!Publish, B!Crash, B!vars, B!moneyVars
  <1> QED BY <1>6, <1>7, <1>8, <1>9, <1>10, <1>11, <1>12 DEF B!Next, B!Sweep

\* PiBay!StateTracksPresence, with the type it is inductive with.
Presence == present \in BOOLEAN /\ Pi!StateTracksPresence

LEMMA PresenceStep ==
  ASSUME Typed, Presence, [Pi!Next]_(Pi!vars)
  PROVE  Presence'
  <1> USE DEF Presence, Pi!StateTracksPresence, Pi!Transition, Pi!Stay, Typed
  <1>1. CASE Pi!Command
    BY <1>1 DEF Pi!Command, Pi!CreateCommand, Pi!UpdatePlates, Pi!CheckInCommand,
                Pi!CancelCommand, Pi!ReplayState
  <1>2. CASE Pi!VehicleArrived
    BY <1>2 DEF Pi!VehicleArrived
  <1>3. CASE Pi!VehicleLeft
    BY <1>3 DEF Pi!VehicleLeft, Pi!BayStates
  <1>4. CASE Pi!Recognition
    BY <1>4 DEF Pi!Recognition, Pi!LprResult
  <1>5. CASE Pi!Clock
    BY <1>5 DEF Pi!Clock, Pi!GraceEnds, Pi!TimerFires
  <1>6. CASE Pi!ManualTimeout
    BY <1>6 DEF Pi!ManualTimeout
  <1>7. CASE Pi!NoShowCheck
    BY <1>7 DEF Pi!NoShowCheck
  <1>8. CASE Pi!Restart
    BY <1>8 DEF Pi!Restart
  <1>9. CASE UNCHANGED Pi!vars
    BY <1>9 DEF Pi!vars
  <1> QED BY <1>1, <1>2, <1>3, <1>4, <1>5, <1>6, <1>7, <1>8, <1>9 DEF Pi!Next, Pi!Sensor

ParkedInv == MirrorInv /\ GhostInv /\ ExpectedInv /\ Presence /\ LedgersFormed

LEMMA ParkedInitially == Init => ParkedInv
  <1>1. Init => Presence
    BY DEF Init, Pi!Init, Presence, Pi!StateTracksPresence
  <1>2. Init => LedgersFormed
    BY DEF Init, B!Init, B!NoRows, B!Keys, B!PenaltyKeys, LedgersFormed, NoShowRow
  <1> QED BY <1>1, <1>2, MirrorInitially, GhostInitially, ExpectedInitially DEF ParkedInv

\* A holder who stands in the bay, with everything taken, is no longer active or
\* the bay is known to be in conflict.
LEMMA ParkedIsKnown ==
  ASSUME Typed, ParkedInv, Quiet, AllWell,
         NEW r \in Reservations, Heard(r), cached = r, vehicle = VehicleOf[r], B!Awaited(r)
  PROVE  status[r] # "active" \/ mirror[Bay] = "conflict"
  <1>1. /\ DOMAIN down = {} /\ DOMAIN up = {} /\ piLinked /\ backendLinked
        /\ \A t \in B!Threads : outbox[t] = B!NoCommand
    <2>1. down = <<>> /\ up = <<>> /\ piLinked /\ backendLinked
      BY DEF Quiet
    <2>2. \A t \in B!Threads : outbox[t] = B!NoCommand
      BY DEF Quiet, B!Idle
    <2> QED BY <2>1, <2>2, EmptyAndSingle, Zenon
  <1>2. \A c \in B!Commands : ~ Pending(c)
    BY <1>1, NoCommandIsNone DEF Pending
  <1>3. ~ CheckInIsTold /\ ~ Restored(r) /\ \A S, e, i : ~ Foretold(up, S, e, i)
    BY <1>1 DEF CheckInIsTold, Restored, Foretold
  <1>4. Awaits(r)
    BY DEF ParkedInv, ExpectedInv
  <1>5. state \notin {"available", "occupied"}
    <2>1. CreateOf(r) \in B!Commands
      BY DEF CreateOf, B!Commands, B!Actions
    <2> QED BY <1>2, <1>3, <1>4, <2>1 DEF Awaits, Expected, Reached, Kept
  <1>6. state # "reserved"
    BY VehiclesTyped DEF Quiet, ParkedInv, Presence, Pi!StateTracksPresence
  <1>7. CASE state = "pending_check_in"
    BY <1>3, <1>4, <1>7 DEF Awaits, Visit, PendsBy, PendingKnown
  <1>8. CASE state = "reserved_checked_in"
    BY <1>3, <1>4, <1>8 DEF Awaits, Visit
  <1>9. CASE state = "conflict"
    <2>1. ~ ConflictEnds
      BY <1>2 DEF ConflictEnds
    <2>2. AllTold
      BY <1>1 DEF AllTold, ResyncDue, NoStateOnItsWay, AllWell
    <2> QED BY <1>9, <2>1, <2>2 DEF ParkedInv, MirrorInv
  <1> QED BY <1>5, <1>6, <1>7, <1>8, <1>9 DEF Typed, Pi!BayStates

\* Nobody pays for a no-show whose vehicle the Pi sees: once its reports are
\* taken the sweep finds the reservation checked in, pending, or its bay in
\* conflict, whatever was resent and however the requests interleave.
THEOREM ParkedHoldersAreSpared == Spec => ParkedHolderIsNoNoShow
  <1>1. Init => Typed /\ ParkedInv
    BY TypedInitially, ParkedInitially
  <1>2. Typed /\ ParkedInv /\ [Next]_vars => (Typed /\ ParkedInv)'
    <2> SUFFICES ASSUME Typed, ParkedInv, [Next]_vars PROVE (Typed /\ ParkedInv)'
      OBVIOUS
    <2>1. Typed' /\ MirrorInv' /\ GhostInv' /\ ExpectedInv'
      BY TypedStep, MirrorStep, GhostStep, ExpectedStep DEF ParkedInv
    <2>2. Presence'
      BY PiStep, PresenceStep DEF ParkedInv
    <2>3. LedgersFormed'
      BY BackendStep, OnlyNoShowsCost DEF ParkedInv, KeepsRows, ChargesNoShow
    <2> QED BY <2>1, <2>2, <2>3 DEF ParkedInv
  <1>3. Typed /\ ParkedInv /\ [Next]_vars =>
          \A r \in Reservations :
            Quiet /\ AllWell /\ Heard(r) /\ cached = r /\ vehicle = VehicleOf[r] =>
              ledger'[r]["penalty:no_show"] = ledger[r]["penalty:no_show"]
    <2> SUFFICES ASSUME Typed, ParkedInv, [Next]_vars, Quiet, AllWell,
                        NEW r \in Reservations, Heard(r), cached = r, vehicle = VehicleOf[r]
                 PROVE  SameRow(r)
      BY DEF SameRow, NoShowRow
    <2>1. SameRow(r) \/ ChargesNoShow(r)
      BY BackendStep, OnlyNoShowsCost DEF ParkedInv, KeepsRows, ChargesNoShow
    <2>2. ASSUME ChargesNoShow(r) PROVE FALSE
      <3>1. PICK q \in Reservations : B!SweptForNoShow(q) /\ B!Awaited(r)
        BY <2>2 DEF ChargesNoShow
      <3>2. q = r
        BY <3>1 DEF ParkedInv, ExpectedInv, Basics, OneOpen, Open, B!SweptForNoShow, B!Awaited,
                    B!OpenStatuses
      <3> QED BY <3>1, <3>2, ParkedIsKnown DEF B!SweptForNoShow
    <2> QED BY <2>1, <2>2
  <1> QED BY <1>1, <1>2, <1>3, PTL DEF Spec, ParkedHolderIsNoNoShow

=============================================================================

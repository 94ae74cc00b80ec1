----------------------------- MODULE BackendProofs -----------------------------
(***************************************************************************)
(* Safety of Backend.tla for any set of bays, reservations, cards, request *)
(* threads and redelivered messages, and for any deposit and penalty.      *)
(***************************************************************************)
EXTENDS Backend, PaymentProofs

\* Payments that return money keep the ledgers and the balances amounts.
LEMMA PaysTyped ==
  ASSUME TypeOK, NEW r \in Reservations, NEW l \in Ledgers,
         Returned(l) >= Returned(ledger[r]), Pays(r, l)
  PROVE  ledger' \in [Reservations -> Ledgers] /\ balance' \in [Cards -> Nat]
  <1>1. Returned(l) \in Nat /\ Returned(ledger[r]) \in Nat
    BY SumsAreAmounts DEF TypeOK
  <1>2. CardOf[r] \in Cards /\ balance[CardOf[r]] \in Nat
    BY CardsTyped DEF TypeOK
  <1>3. balance[CardOf[r]] + (Returned(l) - Returned(ledger[r])) \in Nat
    BY <1>1, <1>2
  <1> QED BY <1>3 DEF Pays, TypeOK

LEMMA PayBackTyped ==
  ASSUME TypeOK, NEW r \in Reservations, NEW key \in ReturnKeys,
         Pays(r, PayBack(ledger[r], key))
  PROVE  ledger' \in [Reservations -> Ledgers] /\ balance' \in [Cards -> Nat]
  <1>1. ledger[r] \in Ledgers
    BY DEF TypeOK
  <1> QED BY <1>1, PayBackReturns, PaysTyped

LEMMA BreachTyped ==
  ASSUME TypeOK, NEW r \in Reservations, NEW key \in PenaltyKeys,
         Pays(r, SettleBreach(ledger[r], key))
  PROVE  ledger' \in [Reservations -> Ledgers] /\ balance' \in [Cards -> Nat]
  <1>1. ledger[r] \in Ledgers
    BY DEF TypeOK
  <1> QED BY <1>1, BreachSettles, PaysTyped

\* The bookkeeping helpers keep their tables typed.
LEMMA HelpersTyped ==
  ASSUME TypeOK, NEW r \in Reservations
  PROVE  /\ ClearPointer(r) => pointer' \in [Bays -> Reservations \cup {NoRes}]
         /\ \A b \in Bays, held \in SUBSET BayStates :
              FreeBay(b, held) => mirror' \in [Bays -> BayStates]
         /\ \A t \in Threads, a \in Actions :
              Sends(t, a, r) => outbox' \in [Threads -> Commands \cup {NoCommand}]
         /\ \A id : Record(id) => bayEvents' \subseteq AllIds
  <1>1. ClearPointer(r) => pointer' \in [Bays -> Reservations \cup {NoRes}]
    BY PlacesTyped DEF TypeOK, ClearPointer
  <1>2. \A b \in Bays, held \in SUBSET BayStates :
              FreeBay(b, held) => mirror' \in [Bays -> BayStates]
    BY DEF TypeOK, FreeBay, BayStates
  <1>3. \A t \in Threads, a \in Actions :
              Sends(t, a, r) => outbox' \in [Threads -> Commands \cup {NoCommand}]
    BY DEF TypeOK, Sends, Commands
  <1>4. \A id : Record(id) => bayEvents' \subseteq AllIds
    BY DEF TypeOK, Record
  <1> QED BY <1>1, <1>2, <1>3, <1>4

-----------------------------------------------------------------------------
LEMMA RequestTyped ==
  ASSUME TypeOK, NEW t \in HttpThreads, Request(t)
  PROVE  TypeOK'
  <1> t \in Threads
    BY DEF Threads
  <1> USE PlacesTyped
  <1>1. ASSUME NEW r \in Reservations, NEW a \in {"early", "late"}, Create(t, r, a)
        PROVE  TypeOK'
    <2> USE <1>1 DEF Create
    <2>1. status' \in [Reservations -> Statuses] /\ arrival' \in [Reservations -> Arrivals]
      BY DEF TypeOK, Statuses, LiveStatuses, OpenStatuses, Arrivals
    <2>2. mirror' \in [Bays -> BayStates] /\ pointer' \in [Bays -> Reservations \cup {NoRes}]
      BY DEF TypeOK, BayStates
    <2>3. ledger' \in [Reservations -> Ledgers]
      BY AmountsPositive DEF TypeOK, Preauthorize, Ledgers, Keys
    <2>4. balance' \in [Cards -> Nat]
      <3>1. CardOf[r] \in Cards /\ balance[CardOf[r]] \in Nat
        BY CardsTyped DEF TypeOK
      <3>2. balance[CardOf[r]] - Deposit \in Nat
        BY <3>1, AmountsPositive
      <3> QED BY <3>2 DEF TypeOK
    <2>5. outbox' \in [Threads -> Commands \cup {NoCommand}]
      BY HelpersTyped DEF Actions
    <2> QED BY <2>1, <2>2, <2>3, <2>4, <2>5 DEF TypeOK
  <1>2. ASSUME NEW r \in Reservations, CancelNoFault(t, r)
        PROVE  TypeOK'
    <2> USE <1>2 DEF CancelNoFault
    <2>1. status' \in [Reservations -> Statuses]
      BY DEF TypeOK, Statuses, TerminalStatuses
    <2>2. conflict' \in [Bays -> Conflicts]
      BY DEF TypeOK, Conflicts, NoConflict
    <2>3. ledger' \in [Reservations -> Ledgers] /\ balance' \in [Cards -> Nat]
      BY PayBackTyped DEF ReturnKeys
    <2>4. /\ pointer' \in [Bays -> Reservations \cup {NoRes}]
          /\ outbox' \in [Threads -> Commands \cup {NoCommand}]
      BY HelpersTyped DEF Actions
    <2> QED BY <2>1, <2>2, <2>3, <2>4 DEF TypeOK
  <1>3. ASSUME NEW r \in Reservations, Cancel(t, r)
        PROVE  TypeOK'
    <2> USE <1>3 DEF Cancel
    <2>1. status' \in [Reservations -> Statuses]
      BY DEF TypeOK, Statuses, TerminalStatuses
    <2>2. ledger' \in [Reservations -> Ledgers] /\ balance' \in [Cards -> Nat]
      <3>1. CASE arrival[r] # "early"
        BY <3>1, BreachTyped DEF PenaltyKeys
      <3>2. CASE arrival[r] = "early"
        BY <3>2, PayBackTyped DEF ReturnKeys
      <3> QED BY <3>1, <3>2
    <2>3. mirror' \in [Bays -> BayStates]
      BY HelpersTyped DEF BayStates
    <2>4. /\ pointer' \in [Bays -> Reservations \cup {NoRes}]
          /\ outbox' \in [Threads -> Commands \cup {NoCommand}]
      BY HelpersTyped DEF Actions
    <2> QED BY <2>1, <2>2, <2>3, <2>4 DEF TypeOK
  <1>4. ASSUME NEW r \in Reservations, CheckIn(t, r)
        PROVE  TypeOK'
    <2> USE <1>4 DEF CheckIn
    <2>1. status' \in [Reservations -> Statuses] /\ mirror' \in [Bays -> BayStates]
      BY DEF TypeOK, Statuses, LiveStatuses, OpenStatuses, BayStates
    <2>2. conflict' \in [Bays -> Conflicts]
      BY DEF TypeOK, Conflicts, NoConflict
    <2>3. outbox' \in [Threads -> Commands \cup {NoCommand}]
      BY HelpersTyped DEF Actions
    <2> QED BY <2>1, <2>2, <2>3 DEF TypeOK, moneyVars
  <1>5. ASSUME NEW r \in Reservations, AdminTerminate(t, r)
        PROVE  TypeOK'
    <2> USE <1>5 DEF AdminTerminate
    <2>1. status' \in [Reservations -> Statuses]
      BY DEF TypeOK, Statuses, TerminalStatuses
    <2>2. conflict' \in [Bays -> Conflicts]
      BY DEF TypeOK, Conflicts, NoConflict
    <2>3. ledger' \in [Reservations -> Ledgers] /\ balance' \in [Cards -> Nat]
      BY PayBackTyped DEF ReturnKeys
    <2>4. mirror' \in [Bays -> BayStates]
      BY DEF TypeOK, FreeBay, BayStates
    <2>5. /\ pointer' \in [Bays -> Reservations \cup {NoRes}]
          /\ outbox' \in [Threads -> Commands \cup {NoCommand}]
      BY HelpersTyped DEF Actions
    <2> QED BY <2>1, <2>2, <2>3, <2>4, <2>5 DEF TypeOK
  <1>6. ASSUME NEW r \in Reservations, AdminCleansUpConflict(t, r)
        PROVE  TypeOK'
    BY <1>6 DEF AdminCleansUpConflict, TypeOK, Conflicts, NoConflict,
                reservationVars, bayVars, moneyVars
  <1>7. ASSUME NEW b \in Bays, ResolveConflict(t, b)
        PROVE  TypeOK'
    BY <1>7 DEF ResolveConflict, TypeOK, Conflicts, NoConflict,
                reservationVars, bayVars, moneyVars
  <1> QED BY <1>1, <1>2, <1>3, <1>4, <1>5, <1>6, <1>7 DEF Request

LEMMA StateMessageTyped ==
  ASSUME TypeOK, NEW b \in Bays, StateMessage(b)
  PROVE  TypeOK'
  <1> "mqtt" \in Threads
    BY DEF Threads
  <1>1. SUFFICES ASSUME NEW s \in BayStates, NEW id, ApplyState(b, s, id)
                 PROVE  TypeOK'
    BY DEF StateMessage
  <1>2. CASE RestoreAfterStrongConflict(b, s, id)
    <2> USE <1>2 DEF RestoreAfterStrongConflict
    <2> DEFINE r == conflict[b].res
    <2>1. r \in Reservations
      BY DEF StrongRestores, TypeOK, Conflicts
    <2>2. conflict' \in [Bays -> Conflicts] /\ bayEvents' \subseteq AllIds
      BY DEF TypeOK, Conflicts, NoConflict, Record
    <2>3. status' \in [Reservations -> Statuses]
      BY <2>1 DEF TypeOK, Statuses, LiveStatuses, OpenStatuses
    <2>4. arrival' \in [Reservations -> Arrivals]
      BY <2>1 DEF TypeOK, Arrivals
    <2>5. grace' \in [Reservations -> Graces]
      BY <2>1 DEF TypeOK, Graces
    <2>6. mirror' \in [Bays -> BayStates]
      BY DEF TypeOK, BayStates
    <2>7. outbox' \in [Threads -> Commands \cup {NoCommand}]
      BY <2>1, HelpersTyped DEF Actions
    <2> QED BY <2>2, <2>3, <2>4, <2>5, <2>6, <2>7 DEF TypeOK, moneyVars
  <1>3. ASSUME NEW r \in Reservations, RollbackPendingCheckIn(b, s, r, id)
        PROVE  TypeOK'
    <2> USE <1>3 DEF RollbackPendingCheckIn
    <2>1. /\ status' \in [Reservations -> Statuses]
          /\ grace' \in [Reservations -> Graces]
          /\ mirror' \in [Bays -> BayStates]
      BY DEF TypeOK, Statuses, LiveStatuses, OpenStatuses, Graces
    <2>2. /\ outbox' \in [Threads -> Commands \cup {NoCommand}]
          /\ bayEvents' \subseteq AllIds
      BY HelpersTyped DEF Actions
    <2> QED BY <2>1, <2>2 DEF TypeOK, moneyVars
  <1>4. ASSUME NEW r \in Reservations, CompleteReservation(b, s, r, id)
        PROVE  TypeOK'
    <2> USE <1>4 DEF CompleteReservation
    <2>1. status' \in [Reservations -> Statuses] /\ mirror' \in [Bays -> BayStates]
      BY DEF TypeOK, Statuses, TerminalStatuses
    <2>2. ledger' \in [Reservations -> Ledgers] /\ balance' \in [Cards -> Nat]
      BY PayBackTyped DEF ReturnKeys
    <2>3. /\ pointer' \in [Bays -> Reservations \cup {NoRes}]
          /\ outbox' \in [Threads -> Commands \cup {NoCommand}]
          /\ bayEvents' \subseteq AllIds
      BY HelpersTyped DEF Actions
    <2> QED BY <2>1, <2>2, <2>3 DEF TypeOK
  <1>5. CASE MirrorOnly(b, s, id)
    <2>1. mirror' \in [Bays -> BayStates]
      BY <1>5 DEF MirrorOnly, TypeOK
    <2> QED BY <1>5, <2>1 DEF MirrorOnly, TypeOK, Record, reservationVars, moneyVars
  <1> QED BY <1>1, <1>2, <1>3, <1>4, <1>5 DEF ApplyState

LEMMA EventMessageTyped ==
  ASSUME TypeOK, NEW b \in Bays, EventMessage(b)
  PROVE  TypeOK'
  <1>1. ASSUME NEW id, SensorOnline(b, id)
        PROVE  TypeOK'
    <2>1. mirror' \in [Bays -> BayStates]
      BY <1>1 DEF SensorOnline, FreeBay, TypeOK, BayStates
    <2> QED BY <1>1, <2>1 DEF SensorOnline, TypeOK, Record, reservationVars, moneyVars
  <1>2. ASSUME NEW id, SensorOffline(b, id)
        PROVE  TypeOK'
    <2>1. mirror' \in [Bays -> BayStates]
      BY <1>2 DEF SensorOffline, TypeOK, BayStates
    <2> QED BY <1>2, <2>1 DEF SensorOffline, TypeOK, Record, reservationVars, moneyVars
  <1>3. ASSUME NEW id, NEW g \in {"running", "expired"}, PendingCheckIn(b, id, g)
        PROVE  TypeOK'
    <2> USE <1>3 DEF PendingCheckIn
    <2>1. PICK r \in OpenReservation(b) :
            /\ status' = [status EXCEPT ![r] = "pending_check_in"]
            /\ grace' = [grace EXCEPT ![r] = g]
      OBVIOUS
    <2>2. status' \in [Reservations -> Statuses] /\ grace' \in [Reservations -> Graces]
      BY <2>1 DEF TypeOK, Statuses, LiveStatuses, OpenStatuses, Graces
    <2>3. mirror' \in [Bays -> BayStates]
      BY DEF TypeOK, BayStates
    <2> QED BY <2>2, <2>3 DEF TypeOK, Record, moneyVars
  <1>4. ASSUME NEW id, AutoCheckIn(b, id)
        PROVE  TypeOK'
    <2> USE <1>4 DEF AutoCheckIn
    <2>1. PICK r \in OpenReservation(b) : status' = [status EXCEPT ![r] = "checked_in"]
      OBVIOUS
    <2>2. status' \in [Reservations -> Statuses]
      BY <2>1 DEF TypeOK, Statuses, LiveStatuses, OpenStatuses
    <2>3. mirror' \in [Bays -> BayStates]
      BY DEF TypeOK, BayStates
    <2> QED BY <2>2, <2>3 DEF TypeOK, Record, moneyVars
  <1>5. ASSUME NEW id, CheckInConfirmed(b, id)
        PROVE  TypeOK'
    <2> USE <1>5 DEF CheckInConfirmed
    <2>1. \/ UNCHANGED <<status, mirror>>
          \/ \E r \in Reservations :
               /\ status' = [status EXCEPT ![r] = "checked_in"]
               /\ mirror' = [mirror EXCEPT ![b] = "reserved_checked_in"]
      BY DEF OpenReservation, OnBay
    <2>2. status' \in [Reservations -> Statuses] /\ mirror' \in [Bays -> BayStates]
      BY <2>1 DEF TypeOK, Statuses, LiveStatuses, OpenStatuses, BayStates
    <2> QED BY <2>2 DEF TypeOK, Record, moneyVars
  <1>6. ASSUME NEW id, ConflictStrong(b, id)
        PROVE  TypeOK'
    <2> USE <1>6 DEF ConflictStrong
    <2>1. PICK res \in Reservations \cup {NoRes} :
            conflict' = [conflict EXCEPT ![b] = [kind |-> "strong", res |-> res]]
      BY DEF OpenReservation, OnBay
    <2>2. conflict' \in [Bays -> Conflicts]
      BY <2>1 DEF TypeOK, Conflicts
    <2>3. status' \in [Reservations -> Statuses] /\ grace' \in [Reservations -> Graces]
      BY DEF TypeOK, Statuses, LiveStatuses, OpenStatuses, Graces
    <2>4. mirror' \in [Bays -> BayStates]
      BY DEF TypeOK, BayStates
    <2> QED BY <2>2, <2>3, <2>4 DEF TypeOK, Record, moneyVars
  <1> QED BY <1>1, <1>2, <1>3, <1>4, <1>5, <1>6 DEF EventMessage

LEMMA SweepTyped ==
  ASSUME TypeOK, NEW r \in Reservations, Sweep(r)
  PROVE  TypeOK'
  <1> "sweeper" \in Threads
    BY DEF Threads
  <1>1. CASE SweepNoShow(r)
    <2>1. PICK q \in Reservations : NoShow(BayOf[r], q)
      BY <1>1 DEF SweepNoShow
    <2> USE <1>1, <2>1 DEF SweepNoShow, NoShow
    <2>2. status' \in [Reservations -> Statuses]
      BY DEF TypeOK, Statuses, TerminalStatuses
    <2>3. ledger' \in [Reservations -> Ledgers] /\ balance' \in [Cards -> Nat]
      BY BreachTyped DEF PenaltyKeys
    <2>4. mirror' \in [Bays -> BayStates]
      BY DEF TypeOK, FreeBay, BayStates
    <2>5. /\ pointer' \in [Bays -> Reservations \cup {NoRes}]
          /\ outbox' \in [Threads -> Commands \cup {NoCommand}]
          /\ bayEvents' \subseteq AllIds
      BY HelpersTyped DEF Actions
    <2> QED BY <2>2, <2>3, <2>4, <2>5 DEF TypeOK
  <1>2. CASE SweepConflictWeak(r)
    <2>1. PICK q \in Reservations : ConflictWeak(BayOf[r], q)
      BY <1>2 DEF SweepConflictWeak
    <2> USE <1>2, <2>1 DEF SweepConflictWeak, ConflictWeak
    <2>2. status' \in [Reservations -> Statuses] /\ mirror' \in [Bays -> BayStates]
      BY DEF TypeOK, Statuses, LiveStatuses, BayStates
    <2>3. ledger' \in [Reservations -> Ledgers] /\ balance' \in [Cards -> Nat]
      BY BreachTyped DEF PenaltyKeys
    <2>4. conflict' \in [Bays -> Conflicts]
      BY DEF TypeOK, Conflicts
    <2>5. /\ outbox' \in [Threads -> Commands \cup {NoCommand}]
          /\ bayEvents' \subseteq AllIds
      BY HelpersTyped DEF Actions
    <2> QED BY <2>2, <2>3, <2>4, <2>5 DEF TypeOK
  <1> QED BY <1>1, <1>2 DEF Sweep

LEMMA TickTyped ==
  ASSUME TypeOK, NEW r \in Reservations, Tick(r)
  PROVE  TypeOK'
  <1> USE DEF TypeOK, bayVars, moneyVars
  <1>1. CASE ArrivalNears(r)
    BY <1>1 DEF ArrivalNears, Later, Arrivals
  <1>2. CASE WindowEnds(r)
    BY <1>2 DEF WindowEnds
  <1>3. CASE GraceExpires(r)
    BY <1>3 DEF GraceExpires, Graces
  <1> QED BY <1>1, <1>2, <1>3 DEF Tick

-----------------------------------------------------------------------------
\* Whatever is requested, reported, redelivered, swept or lost, the tables
\* hold values of their columns' types: no card is ever overdrawn.
THEOREM TypeCorrect == Spec => []TypeOK
  <1>1. Init => TypeOK
    BY PlacesTyped, CardsTyped
    DEF Init, TypeOK, Statuses, Arrivals, Graces, BayStates, Conflicts, NoConflict,
        NoRows, Ledgers, AllIds
  <1>2. TypeOK /\ [Next]_vars => TypeOK'
    <2> SUFFICES ASSUME TypeOK, [Next]_vars PROVE TypeOK'
      OBVIOUS
    <2>1. CASE \E t \in HttpThreads : Request(t)
      BY <2>1, RequestTyped
    <2>2. CASE \E b \in Bays : StateMessage(b) \/ EventMessage(b)
      BY <2>2, StateMessageTyped, EventMessageTyped
    <2>3. CASE \E r \in Reservations : Sweep(r) \/ Tick(r)
      BY <2>3, SweepTyped, TickTyped
    <2>4. CASE \E t \in Threads : Publish(t)
      BY <2>4 DEF Publish, TypeOK, reservationVars, bayVars, moneyVars
    <2>5. CASE Crash
      BY <2>5 DEF Crash, TypeOK, reservationVars, bayVars, moneyVars
    <2>6. CASE UNCHANGED vars
      BY <2>6 DEF vars, TypeOK, reservationVars, bayVars, moneyVars
    <2> QED BY <2>1, <2>2, <2>3, <2>4, <2>5, <2>6 DEF Next
  <1> QED BY <1>1, <1>2, PTL DEF Spec

-----------------------------------------------------------------------------
(***************************************************************************)
(* The reservations: what they cost, and who holds the bay.                *)
(*                                                                         *)
(* Many actions touch the status or the payments of a reservation, but     *)
(* only in the four ways defined first; MoneyMoves says so, and every      *)
(* theorem on money has these four cases.                                  *)
(***************************************************************************)
\* No payment: a reservation at most moves on while its deposit stays as it is.
Progresses(r) ==
  \/ Awaited(r) /\ status'[r] \in {"active", "pending_check_in", "checked_in"}
  \/ status[r] = "in_conflict" /\ status'[r] = "checked_in"

NoPayment ==
  /\ UNCHANGED moneyVars
  /\ \A r \in Reservations : status'[r] = status[r] \/ Progresses(r)

Books(r) ==
  /\ status[r] = "none"
  /\ balance[CardOf[r]] >= Deposit
  /\ status' = [status EXCEPT ![r] = "active"]
  /\ ledger' = [ledger EXCEPT ![r] = Preauthorize(@)]
  /\ balance' = [balance EXCEPT ![CardOf[r]] = @ - Deposit]

EndsPaidBack(r) ==
  \E key \in ReturnKeys, end \in {"cancelled", "completed"} :
    /\ status[r] \in LiveStatuses
    /\ status' = [status EXCEPT ![r] = end]
    /\ Pays(r, PayBack(ledger[r], key))

Breaches == {<<"penalty:late_cancel", "cancelled_late">>,
             <<"penalty:no_show", "expired_no_show">>,
             <<"penalty:weak_conflict", "in_conflict">>}

Victim(r) == OpenConflictOf(r, "strong") /\ mirror[BayOf[r]] = "conflict"

Breaks(r) ==
  \E breach \in Breaches :
    /\ Awaited(r) /\ ~ Victim(r)
    /\ status' = [status EXCEPT ![r] = breach[2]]
    /\ Pays(r, SettleBreach(ledger[r], breach[1]))

MoneyMove ==
  NoPayment \/ \E r \in Reservations : Books(r) \/ EndsPaidBack(r) \/ Breaks(r)

-----------------------------------------------------------------------------
LEMMA RequestMoves ==
  ASSUME TypeOK, NEW t \in HttpThreads, Request(t)
  PROVE  MoneyMove
  <1>1. ASSUME NEW r \in Reservations, NEW a \in {"early", "late"}, Create(t, r, a)
        PROVE  Books(r)
    BY <1>1 DEF Create, Books
  <1>2. ASSUME NEW r \in Reservations, CancelNoFault(t, r)
        PROVE  EndsPaidBack(r)
    BY <1>2 DEF CancelNoFault, Cancellable, EndsPaidBack, ReturnKeys, LiveStatuses, OpenStatuses
  <1>3. ASSUME NEW r \in Reservations, Cancel(t, r)
        PROVE  EndsPaidBack(r) \/ Breaks(r)
    <2> USE <1>3 DEF Cancel, Cancellable
    <2>1. CASE arrival[r] # "early"
      <3>1. <<"penalty:late_cancel", "cancelled_late">> \in Breaches
        BY DEF Breaches
      <3> QED BY <2>1, <3>1 DEF Breaks, Awaited, Victim
    <2>2. CASE arrival[r] = "early"
      BY <2>2 DEF EndsPaidBack, ReturnKeys, LiveStatuses, OpenStatuses
    <2> QED BY <2>1, <2>2
  <1>4. ASSUME NEW r \in Reservations, CheckIn(t, r)
        PROVE  NoPayment
    BY <1>4 DEF CheckIn, MayCheckIn, NoPayment, Progresses, Awaited, TypeOK
  <1>5. ASSUME NEW r \in Reservations, AdminTerminate(t, r)
        PROVE  EndsPaidBack(r)
    BY <1>5 DEF AdminTerminate, EndsPaidBack, ReturnKeys
  <1>6. ASSUME NEW r \in Reservations, AdminCleansUpConflict(t, r)
        PROVE  NoPayment
    BY <1>6 DEF AdminCleansUpConflict, NoPayment, reservationVars
  <1>7. ASSUME NEW b \in Bays, ResolveConflict(t, b)
        PROVE  NoPayment
    BY <1>7 DEF ResolveConflict, NoPayment, reservationVars
  <1> QED BY <1>1, <1>2, <1>3, <1>4, <1>5, <1>6, <1>7 DEF Request, MoneyMove

LEMMA StateMessageMoves ==
  ASSUME TypeOK, NEW b \in Bays, StateMessage(b)
  PROVE  MoneyMove
  <1>1. SUFFICES ASSUME NEW s \in BayStates, NEW id, ApplyState(b, s, id)
                 PROVE  MoneyMove
    BY DEF StateMessage
  <1>2. CASE RestoreAfterStrongConflict(b, s, id)
    <2> USE <1>2 DEF RestoreAfterStrongConflict
    <2>1. status' = status \/ \E r \in Reservations :
            Awaited(r) /\ status' = [status EXCEPT ![r] = "active"]
      BY DEF StrongRestores, TypeOK, Conflicts, Awaited
    <2> QED BY <2>1 DEF MoneyMove, NoPayment, Progresses, TypeOK
  <1>3. ASSUME NEW r \in Reservations, RollbackPendingCheckIn(b, s, r, id)
        PROVE  NoPayment
    BY <1>3 DEF RollbackPendingCheckIn, PendingRollsBack, NoPayment, Progresses, Awaited, TypeOK
  <1>4. ASSUME NEW r \in Reservations, CompleteReservation(b, s, r, id)
        PROVE  EndsPaidBack(r)
    <2>1. status[r] \in LiveStatuses
      BY <1>4 DEF CompleteReservation, Completable, LiveStatuses, OpenStatuses
    <2> QED BY <1>4, <2>1 DEF CompleteReservation, EndsPaidBack, ReturnKeys
  <1>5. CASE MirrorOnly(b, s, id)
    BY <1>5 DEF MirrorOnly, MoneyMove, NoPayment, reservationVars
  <1> QED BY <1>1, <1>2, <1>3, <1>4, <1>5 DEF ApplyState, MoneyMove

LEMMA EventMessageMoves ==
  ASSUME TypeOK, NEW b \in Bays, EventMessage(b)
  PROVE  NoPayment
  <1> USE DEF NoPayment, Progresses, Awaited, OpenReservation, OnBay, TypeOK
  <1>1. ASSUME NEW id, SensorOnline(b, id)
        PROVE  NoPayment
    BY <1>1 DEF SensorOnline, reservationVars
  <1>2. ASSUME NEW id, SensorOffline(b, id)
        PROVE  NoPayment
    BY <1>2 DEF SensorOffline, reservationVars
  <1>3. ASSUME NEW id, NEW g, PendingCheckIn(b, id, g)
        PROVE  NoPayment
    BY <1>3 DEF PendingCheckIn
  <1>4. ASSUME NEW id, AutoCheckIn(b, id)
        PROVE  NoPayment
    BY <1>4 DEF AutoCheckIn
  <1>5. ASSUME NEW id, CheckInConfirmed(b, id)
        PROVE  NoPayment
    BY <1>5 DEF CheckInConfirmed
  <1>6. ASSUME NEW id, ConflictStrong(b, id)
        PROVE  NoPayment
    BY <1>6 DEF ConflictStrong
  <1> QED BY <1>1, <1>2, <1>3, <1>4, <1>5, <1>6 DEF EventMessage

LEMMA SweepMoves ==
  ASSUME TypeOK, NEW r \in Reservations, Sweep(r)
  PROVE  MoneyMove
  <1>1. ASSUME NEW q \in Reservations, SweptForNoShow(r), NoShow(BayOf[r], q)
        PROVE  Breaks(q)
    <2>1. <<"penalty:no_show", "expired_no_show">> \in Breaches
      BY DEF Breaches
    <2>2. BayOf[q] = BayOf[r]
      BY <1>1 DEF NoShow, OpenReservation, OnBay
    <2> QED BY <1>1, <2>1, <2>2 DEF SweptForNoShow, NoShow, Breaks, Awaited, Victim
  <1>2. ASSUME NEW q \in Reservations, ConflictWeak(BayOf[r], q)
        PROVE  Breaks(q)
    <2>1. <<"penalty:weak_conflict", "in_conflict">> \in Breaches
      BY DEF Breaches
    <2>2. BayOf[q] = BayOf[r]
      BY <1>2 DEF ConflictWeak, OpenReservation, OnBay
    <2>3. ~ Victim(q)
      BY <1>2, <2>2 DEF ConflictWeak, Victim, OpenConflictOf, NoConflict
    <2> QED BY <1>2, <2>1, <2>3 DEF ConflictWeak, Breaks, Awaited
  <1> QED BY <1>1, <1>2 DEF Sweep, SweepNoShow, SweepConflictWeak, MoneyMove

\* Every step of the backend moves money in one of the four ways, or none.
LEMMA MoneyMoves ==
  ASSUME TypeOK, [Next]_vars
  PROVE  MoneyMove
  <1>1. CASE \E t \in HttpThreads : Request(t)
    BY <1>1, RequestMoves
  <1>2. CASE \E b \in Bays : StateMessage(b) \/ EventMessage(b)
    BY <1>2, StateMessageMoves, EventMessageMoves DEF MoneyMove
  <1>3. CASE \E r \in Reservations : Sweep(r)
    BY <1>3, SweepMoves
  <1> USE DEF MoneyMove, NoPayment, reservationVars, moneyVars
  <1>4. CASE \E r \in Reservations : Tick(r)
    BY <1>4 DEF Tick, ArrivalNears, WindowEnds, GraceExpires
  <1>5. CASE \E t \in Threads : Publish(t)
    BY <1>5 DEF Publish
  <1>6. CASE Crash
    BY <1>6 DEF Crash
  <1>7. CASE UNCHANGED vars
    BY <1>7 DEF vars
  <1> QED BY <1>1, <1>2, <1>3, <1>4, <1>5, <1>6, <1>7 DEF Next

-----------------------------------------------------------------------------
\* What DepositFollowsStatus says of one reservation.
Agrees(st, l) ==
  /\ l["pre_auth"] = IF st = "none" THEN 0 ELSE Deposit
  /\ st \in {"none", "active", "pending_check_in"} => Spent(l) = 0
  /\ st = "checked_in" => Spent(l) \in {0, Deposit}
  /\ st \in TerminalStatuses \cup {"in_conflict"} => Spent(l) = Deposit

LEMMA AgreementIsDeposit ==
  DepositFollowsStatus <=> \A r \in Reservations : Agrees(status[r], ledger[r])
  BY DEF DepositFollowsStatus, Agrees, Awaited

\* Booking puts the deposit where nothing was.
LEMMA BookingAgrees ==
  ASSUME NEW l \in Ledgers, Agrees("none", l)
  PROVE  Agrees("active", Preauthorize(l)) /\ Preauthorize(l) \in Ledgers
  <1>1. /\ Preauthorize(l) \in Ledgers
        /\ Preauthorize(l)["pre_auth"] = Deposit
        /\ \A k \in ReturnKeys \cup PenaltyKeys : Preauthorize(l)[k] = l[k]
    BY AmountsPositive DEF Agrees, Preauthorize, HasRow, Ledgers, Keys, ReturnKeys, PenaltyKeys
  <1>2. Spent(Preauthorize(l)) = 0
    BY <1>1, NothingSpent DEF Agrees
  <1> QED BY <1>1, <1>2 DEF Agrees, TerminalStatuses

\* Paying back settles every live reservation.
LEMMA PayingBackAgrees ==
  ASSUME NEW l \in Ledgers, NEW st \in LiveStatuses, Agrees(st, l),
         NEW key \in ReturnKeys, NEW end \in {"cancelled", "completed"}
  PROVE  Agrees(end, PayBack(l, key))
  <1>1. l["pre_auth"] = Deposit /\ Spent(l) \in {0, Deposit}
    BY DEF Agrees, LiveStatuses, OpenStatuses
  <1>2. Spent(l) # l["pre_auth"] => l[key] = 0
    BY <1>1, NothingSpent
  <1>3. Spent(PayBack(l, key)) = Deposit
    BY <1>1, <1>2, PayBackSettles, AmountsPositive
  <1>4. PayBack(l, key)["pre_auth"] = Deposit
    BY <1>1, PayBackReturns
  <1> QED BY <1>3, <1>4 DEF Agrees, TerminalStatuses

\* A breach settles a reservation that was awaited.
LEMMA BreakingAgrees ==
  ASSUME NEW l \in Ledgers, NEW st \in {"active", "pending_check_in"}, Agrees(st, l),
         NEW breach \in Breaches
  PROVE  Agrees(breach[2], SettleBreach(l, breach[1]))
  <1>1. l["pre_auth"] = Deposit /\ Spent(l) = 0
    BY DEF Agrees
  <1>2. breach[1] \in PenaltyKeys /\ breach[2] \in TerminalStatuses \cup {"in_conflict"}
    BY DEF Breaches, PenaltyKeys, TerminalStatuses
  <1>3. /\ Spent(SettleBreach(l, breach[1])) = Deposit
        /\ SettleBreach(l, breach[1])["pre_auth"] = Deposit
    BY <1>1, <1>2, BreachSettles
  <1> QED BY <1>2, <1>3 DEF Agrees, TerminalStatuses

\* Whatever sequence of requests, messages and sweeps led to a status, the
\* payments of the reservation are the ones that status stands for.
THEOREM DepositIsAccounted == Spec => []DepositFollowsStatus
  <1>1. Init => DepositFollowsStatus
    <2> SUFFICES ASSUME Init, NEW r \in Reservations PROVE Agrees("none", NoRows)
      BY AgreementIsDeposit DEF Init
    <2>1. \A k \in Keys : NoRows[k] = 0
      BY DEF NoRows
    <2>2. NoRows \in Ledgers /\ \A k \in ReturnKeys \cup PenaltyKeys : k \in Keys
      BY DEF NoRows, Ledgers, Keys
    <2>3. Spent(NoRows) = 0
      BY <2>1, <2>2, NothingSpent
    <2> QED BY <2>1, <2>3 DEF Agrees, Keys, TerminalStatuses
  <1>2. TypeOK /\ DepositFollowsStatus /\ [Next]_vars => DepositFollowsStatus'
    <2> SUFFICES ASSUME TypeOK, DepositFollowsStatus, [Next]_vars,
                        NEW r \in Reservations
                 PROVE  Agrees(status'[r], ledger'[r])
      BY AgreementIsDeposit DEF DepositFollowsStatus, Agrees, Awaited
    <2>1. Agrees(status[r], ledger[r]) /\ ledger[r] \in Ledgers
      BY AgreementIsDeposit DEF TypeOK
    <2>2. CASE NoPayment
      BY <2>1, <2>2 DEF NoPayment, Progresses, Awaited, moneyVars, Agrees, TerminalStatuses
    <2>3. ASSUME NEW q \in Reservations, Books(q)
          PROVE  Agrees(status'[r], ledger'[r])
      <3>1. CASE q = r
        BY <2>1, <2>3, <3>1, BookingAgrees DEF Books, TypeOK
      <3>2. CASE q # r
        BY <2>1, <2>3, <3>2 DEF Books, TypeOK
      <3> QED BY <3>1, <3>2
    <2>4. ASSUME NEW q \in Reservations, EndsPaidBack(q)
          PROVE  Agrees(status'[r], ledger'[r])
      <3>1. CASE q = r
        BY <2>1, <2>4, <3>1, PayingBackAgrees DEF EndsPaidBack, Pays, TypeOK
      <3>2. CASE q # r
        BY <2>1, <2>4, <3>2 DEF EndsPaidBack, Pays, TypeOK
      <3> QED BY <3>1, <3>2
    <2>5. ASSUME NEW q \in Reservations, Breaks(q)
          PROVE  Agrees(status'[r], ledger'[r])
      <3>1. CASE q = r
        BY <2>1, <2>5, <3>1, BreakingAgrees DEF Breaks, Awaited, Pays, TypeOK
      <3>2. CASE q # r
        BY <2>1, <2>5, <3>2 DEF Breaks, Pays, TypeOK
      <3> QED BY <3>1, <3>2
    <2> QED BY <2>2, <2>3, <2>4, <2>5, MoneyMoves DEF MoneyMove
  <1> QED BY <1>1, <1>2, TypeCorrect, PTL DEF Spec

-----------------------------------------------------------------------------
\* What OnePenaltyPerBreach says of one reservation.
PenaltyOf(st, l) ==
  LET agreed == Lesser(Penalty, Deposit)
      weak == l["penalty:weak_conflict"] IN
  /\ l["penalty:late_cancel"] = IF st = "cancelled_late" THEN agreed ELSE 0
  /\ l["penalty:no_show"] = IF st = "expired_no_show" THEN agreed ELSE 0
  /\ weak \in {0, agreed}
  /\ st = "in_conflict" => weak = agreed
  /\ weak # 0 => st \in {"in_conflict", "checked_in", "completed", "cancelled"}

LEMMA OnePenaltyIsPenaltyOf ==
  OnePenaltyPerBreach <=> \A r \in Reservations : PenaltyOf(status[r], ledger[r])
  BY DEF OnePenaltyPerBreach, PenaltyOf

\* Only the breach of an awaited reservation writes a penalty, its own.
LEMMA BreachPenalty ==
  ASSUME NEW l \in Ledgers, Spent(l) = 0, l["pre_auth"] = Deposit, NEW breach \in Breaches
  PROVE  PenaltyOf(breach[2], SettleBreach(l, breach[1]))
  <1> DEFINE m == SettleBreach(l, breach[1])
  <1>1. breach[1] \in PenaltyKeys
    BY DEF Breaches, PenaltyKeys
  <1>2. \A k \in PenaltyKeys : m[k] = IF k = breach[1] THEN Lesser(Penalty, Deposit) ELSE 0
    BY <1>1, BreachSettles, NothingSpent
  <1> HIDE DEF m
  <1>3. PenaltyOf(breach[2], m)
    BY <1>2 DEF PenaltyOf, Breaches, PenaltyKeys
  <1> QED BY <1>3 DEF m

\* No interleaving makes a reservation pay twice, or for a breach that is not
\* the one its status records.
THEOREM PenaltyIsSingle == Spec => []OnePenaltyPerBreach
  <1>1. Init => OnePenaltyPerBreach
    BY DEF Init, OnePenaltyPerBreach, NoRows, Keys, PenaltyKeys
  <1>2. TypeOK /\ DepositFollowsStatus /\ OnePenaltyPerBreach /\ [Next]_vars
          => OnePenaltyPerBreach'
    <2> SUFFICES ASSUME TypeOK, DepositFollowsStatus, OnePenaltyPerBreach, [Next]_vars,
                        NEW r \in Reservations
                 PROVE  PenaltyOf(status'[r], ledger'[r])
      BY DEF OnePenaltyPerBreach, PenaltyOf
    <2>1. Agrees(status[r], ledger[r]) /\ PenaltyOf(status[r], ledger[r]) /\ ledger[r] \in Ledgers
      BY AgreementIsDeposit, OnePenaltyIsPenaltyOf DEF TypeOK
    <2>2. CASE NoPayment
      BY <2>1, <2>2 DEF NoPayment, Progresses, Awaited, moneyVars, PenaltyOf
    <2>3. ASSUME NEW q \in Reservations, Books(q)
          PROVE  PenaltyOf(status'[r], ledger'[r])
      <3>1. CASE q = r
        <4>1. ledger'[r] = Preauthorize(ledger[r]) /\ status'[r] = "active"
          BY <2>3, <3>1 DEF Books, TypeOK
        <4>2. \A k \in PenaltyKeys : Preauthorize(ledger[r])[k] = ledger[r][k]
          BY <2>1 DEF Preauthorize, Ledgers, Keys, PenaltyKeys
        <4> QED BY <2>1, <2>3, <3>1, <4>1, <4>2 DEF Books, PenaltyOf, PenaltyKeys
      <3>2. CASE q # r
        BY <2>1, <2>3, <3>2 DEF Books, TypeOK
      <3> QED BY <3>1, <3>2
    <2>4. ASSUME NEW q \in Reservations, EndsPaidBack(q)
          PROVE  PenaltyOf(status'[r], ledger'[r])
      <3>1. CASE q = r
        <4>1. PICK key \in ReturnKeys, end \in {"cancelled", "completed"} :
                ledger'[r] = PayBack(ledger[r], key) /\ status'[r] = end
          BY <2>4, <3>1 DEF EndsPaidBack, Pays, TypeOK
        <4>2. \A k \in PenaltyKeys : ledger'[r][k] = ledger[r][k]
          BY <2>1, <4>1, PayBackReturns
        <4> QED BY <2>1, <2>4, <3>1, <4>1, <4>2
                DEF EndsPaidBack, PenaltyOf, PenaltyKeys, LiveStatuses, OpenStatuses
      <3>2. CASE q # r
        BY <2>1, <2>4, <3>2 DEF EndsPaidBack, Pays, TypeOK
      <3> QED BY <3>1, <3>2
    <2>5. ASSUME NEW q \in Reservations, Breaks(q)
          PROVE  PenaltyOf(status'[r], ledger'[r])
      <3>1. CASE q = r
        BY <2>1, <2>5, <3>1, BreachPenalty DEF Breaks, Awaited, Pays, Agrees, TypeOK
      <3>2. CASE q # r
        BY <2>1, <2>5, <3>2 DEF Breaks, Pays, TypeOK
      <3> QED BY <3>1, <3>2
    <2> QED BY <2>2, <2>3, <2>4, <2>5, MoneyMoves DEF MoneyMove
  <1> QED BY <1>1, <1>2, TypeCorrect, DepositIsAccounted, PTL DEF Spec

-----------------------------------------------------------------------------
\* Nothing that arrives late revives a reservation that is over.
THEOREM EndIsFinal == Spec => TerminalIsFinal
  <1>1. TypeOK /\ [Next]_vars =>
          [\A r \in Reservations :
             status[r] \in TerminalStatuses => status'[r] = status[r]]_vars
    <2> SUFFICES ASSUME TypeOK, [Next]_vars,
                        NEW r \in Reservations, status[r] \in TerminalStatuses
                 PROVE  status'[r] = status[r]
      OBVIOUS
    <2>1. /\ ~ Awaited(r) /\ status[r] # "in_conflict"
          /\ status[r] # "none" /\ status[r] \notin LiveStatuses
      BY DEF TerminalStatuses, Awaited, LiveStatuses, OpenStatuses
    <2>2. CASE NoPayment
      BY <2>1, <2>2 DEF NoPayment, Progresses
    <2>3. ASSUME NEW q \in Reservations, Books(q) \/ EndsPaidBack(q) \/ Breaks(q)
          PROVE  status'[r] = status[r]
      <3>1. q # r
        BY <2>1, <2>3 DEF Books, EndsPaidBack, Breaks
      <3> QED BY <2>3, <3>1 DEF Books, EndsPaidBack, Breaks, TypeOK
    <2> QED BY <2>2, <2>3, MoneyMoves DEF MoneyMove
  <1> QED BY <1>1, TypeCorrect, PTL DEF Spec, TerminalIsFinal

-----------------------------------------------------------------------------
\* The phase of a deposit is decided by the booking and by what was spent.
LEMMA PhaseOfLedger ==
  ASSUME NEW l \in Ledgers, NEW st, Agrees(st, l)
  PROVE  /\ st = "none" => Phase(l) = "none"
         /\ st # "none" /\ Spent(l) = 0 => Phase(l) = "held"
         /\ st # "none" /\ Spent(l) # 0 => Phase(l) = "settled"
  <1> DEFINE held == Preauthorize(NoRows)
  <1>1. NoRows \in Ledgers /\ \A k \in Keys : NoRows[k] = 0
    BY DEF NoRows, Ledgers
  <1>2. held \in Ledgers /\ \A k \in Keys : held[k] = IF k = "pre_auth" THEN Deposit ELSE 0
    BY <1>1, AmountsPositive DEF Preauthorize, HasRow, Ledgers, Keys
  <1> HIDE DEF held
  <1>3. NoRows # held
    BY <1>1, <1>2, AmountsPositive DEF Keys
  <1>4. Spent(l) = 0 => \A k \in Keys : l[k] = IF k = "pre_auth" THEN l["pre_auth"] ELSE 0
    BY NothingSpent DEF Keys
  <1>5. \A m \in Ledgers : (\A k \in Keys : l[k] = m[k]) => l = m
    BY DEF Ledgers
  <1>6. CASE st = "none"
    <2>1. l = NoRows
      BY <1>1, <1>4, <1>5, <1>6 DEF Agrees
    <2>2. Phase(l) = "none"
      BY <1>3, <2>1 DEF Phase, held
    <2> QED BY <1>6, <2>2
  <1>7. CASE st # "none"
    <2>1. l["pre_auth"] = Deposit /\ "pre_auth" \in Keys /\ Deposit # 0
      BY <1>7, AmountsPositive DEF Agrees, Keys
    <2>2. l # NoRows
      BY <1>1, <2>1
    <2>3. Spent(l) = 0 => l = held
      BY <1>2, <1>4, <1>5, <2>1
    <2>4. Spent(held) = 0
      BY <1>2, NothingSpent DEF Keys, ReturnKeys, PenaltyKeys
    <2>5. Phase(l) = IF l = held THEN "held" ELSE "settled"
      BY <2>2 DEF Phase, held
    <2>6. l = held <=> Spent(l) = 0
      BY <2>3, <2>4
    <2> QED BY <1>7, <2>5, <2>6
  <1> QED BY <1>6, <1>7

\* What is settled is settled: paying back once more writes nothing.
LEMMA NothingLeftToPayBack ==
  ASSUME NEW l \in Ledgers, NEW key \in ReturnKeys, Spent(l) = l["pre_auth"]
  PROVE  PayBack(l, key) = l
  <1>1. Remaining(l) = 0
    BY SumsAreAmounts DEF Remaining, Ledgers, Keys
  <1>2. CASE ~ HasRow(l, key)
    <2>1. [l EXCEPT ![key] = 0] = l
      BY <1>2 DEF HasRow, Ledgers
    <2> QED BY <1>1, <1>2, <2>1 DEF PayBack
  <1> QED BY <1>2 DEF PayBack

\* A settlement seen from the escrow: all but what is kept goes back.
LEMMA SettlementIsSettle ==
  ASSUME TypeOK, NEW r \in Reservations, NEW l \in Ledgers, Pays(r, l),
         Phase(ledger[r]) = "held", Phase(l) = "settled",
         Spent(ledger[r]) = 0, Spent(l) = Deposit,
         Captured(l) \in {0, D!Agreed}
  PROVE  D!Next
  <1>1. ledger[r] \in Ledgers /\ ledger' = [ledger EXCEPT ![r] = l]
    BY DEF TypeOK, Pays
  <1>2. Returned(l) - Returned(ledger[r]) = Deposit - Captured(l)
    BY <1>1, SumsAreAmounts, AmountsPositive
  <1>3. balance' = [balance EXCEPT ![CardOf[r]] = @ + (Deposit - Captured(l))]
    BY <1>2 DEF Pays
  <1>4. /\ [q \in Reservations |-> Phase(ledger[q])]'
             = [[q \in Reservations |-> Phase(ledger[q])] EXCEPT ![r] = "settled"]
        /\ [q \in Reservations |-> Captured(ledger[q])]'
             = [[q \in Reservations |-> Captured(ledger[q])] EXCEPT ![r] = Captured(l)]
    BY <1>1 DEF TypeOK
  <1>5. D!Settle(r, Captured(l))
    BY <1>3, <1>4 DEF D!Settle
  <1> QED BY <1>5 DEF D!Next

\* The payments behave as the escrow of Deposit.tla: every booking, end and
\* breach is its Hold or Settle, and every other step leaves it alone.
THEOREM DepositIsEscrow == Spec => ImplementsDeposit
  <1>1. Init => D!Init
    <2>1. Phase(NoRows) = "none"
      <3>1. NoRows["pre_auth"] = 0 /\ Preauthorize(NoRows)["pre_auth"] # 0
        BY AmountsPositive DEF NoRows, Preauthorize, HasRow, Keys
      <3> QED BY <3>1 DEF Phase
    <2>2. Captured(NoRows) = 0
      BY DEF Captured, NoRows, Keys, PenaltyKeys
    <2> QED BY <2>1, <2>2 DEF Init, D!Init
  <1>2. TypeOK /\ DepositFollowsStatus /\ [Next]_vars => [D!Next]_(D!vars)
    <2> SUFFICES ASSUME TypeOK, DepositFollowsStatus, [Next]_vars
                 PROVE  D!Next \/ UNCHANGED D!vars
      OBVIOUS
    <2>1. \A r \in Reservations : Agrees(status[r], ledger[r]) /\ ledger[r] \in Ledgers
      BY AgreementIsDeposit DEF TypeOK
    <2>2. CASE NoPayment
      BY <2>2 DEF NoPayment, moneyVars, D!vars
    <2>3. ASSUME NEW r \in Reservations, Books(r)
          PROVE  D!Next
      <3> DEFINE l == Preauthorize(ledger[r])
      <3>1. Agrees("active", l) /\ l \in Ledgers
        BY <2>1, <2>3, BookingAgrees DEF Books
      <3>2. Phase(ledger[r]) = "none" /\ Phase(l) = "held"
        BY <2>1, <2>3, <3>1, PhaseOfLedger DEF Books, Agrees
      <3>3. Captured(l) = Captured(ledger[r])
        BY <2>1 DEF Preauthorize, Captured, Ledgers, Keys
      <3>4. ledger' = [ledger EXCEPT ![r] = l]
        BY <2>3 DEF Books
      <3> HIDE DEF l
      <3>5. /\ [q \in Reservations |-> Phase(ledger[q])]'
                 = [[q \in Reservations |-> Phase(ledger[q])] EXCEPT ![r] = "held"]
            /\ [q \in Reservations |-> Captured(ledger[q])]'
                 = [q \in Reservations |-> Captured(ledger[q])]
        BY <3>2, <3>3, <3>4 DEF TypeOK
      <3>6. D!Hold(r)
        BY <2>3, <3>2, <3>5 DEF Books, D!Hold
      <3> QED BY <3>6 DEF D!Next
    <2>4. ASSUME NEW r \in Reservations, EndsPaidBack(r)
          PROVE  D!Next \/ UNCHANGED D!vars
      <3>1. PICK key \in ReturnKeys, end \in {"cancelled", "completed"} :
              status[r] \in LiveStatuses /\ Pays(r, PayBack(ledger[r], key))
        BY <2>4 DEF EndsPaidBack
      <3> DEFINE l == PayBack(ledger[r], key)
      <3>2. Agrees(end, l) /\ l \in Ledgers /\ Captured(l) = Captured(ledger[r])
        BY <2>1, <3>1, PayingBackAgrees, PayBackReturns
      <3>3. Spent(ledger[r]) \in {0, Deposit} /\ status[r] # "none"
        BY <2>1, <3>1 DEF Agrees, LiveStatuses, OpenStatuses
      <3>4. CASE Spent(ledger[r]) = 0
        <4>1. Phase(ledger[r]) = "held"
          BY <2>1, <3>3, <3>4, PhaseOfLedger
        <4>2. Spent(l) = Deposit /\ Phase(l) = "settled"
          BY <3>2, PhaseOfLedger, AmountsPositive DEF Agrees, TerminalStatuses
        <4>3. Captured(l) = 0
          BY <2>1, <3>2, <3>4, SumsAreAmounts
        <4> HIDE DEF l
        <4>4. Pays(r, l)
          BY <3>1 DEF l
        <4> QED BY <3>2, <3>4, <4>1, <4>2, <4>3, <4>4, SettlementIsSettle
      <3>5. CASE Spent(ledger[r]) = Deposit
        <4>1. l = ledger[r]
          BY <2>1, <3>3, <3>5, NothingLeftToPayBack DEF Agrees
        <4>2. Returned(ledger[r]) \in Nat /\ CardOf[r] \in Cards
          BY <2>1, SumsAreAmounts, CardsTyped
        <4>3. ledger' = ledger /\ balance' = balance
          BY <3>1, <4>1, <4>2 DEF Pays, TypeOK
        <4> QED BY <4>3 DEF D!vars
      <3> QED BY <3>3, <3>4, <3>5
    <2>5. ASSUME NEW r \in Reservations, Breaks(r)
          PROVE  D!Next
      <3>1. PICK breach \in Breaches :
              Awaited(r) /\ Pays(r, SettleBreach(ledger[r], breach[1]))
        BY <2>5 DEF Breaks
      <3> DEFINE l == SettleBreach(ledger[r], breach[1])
      <3>2. breach[1] \in PenaltyKeys /\ breach[2] # "none"
        BY DEF Breaches, PenaltyKeys
      <3>3. Spent(ledger[r]) = 0 /\ ledger[r]["pre_auth"] = Deposit
        BY <2>1, <3>1 DEF Agrees, Awaited
      <3>4. /\ l \in Ledgers /\ Agrees(breach[2], l)
            /\ Spent(l) = Deposit /\ Captured(l) = D!Agreed
        BY <2>1, <3>1, <3>2, <3>3, BreachSettles, BreakingAgrees DEF Awaited, D!Agreed, Lesser
      <3>5. Phase(ledger[r]) = "held"
        BY <2>1, <3>1, <3>3, PhaseOfLedger DEF Awaited
      <3>6. Phase(l) = "settled"
        BY <3>2, <3>4, PhaseOfLedger, AmountsPositive
      <3> HIDE DEF l
      <3>7. Pays(r, l)
        BY <3>1 DEF l
      <3> QED BY <3>3, <3>4, <3>5, <3>6, <3>7, SettlementIsSettle
    <2> QED BY <2>2, <2>3, <2>4, <2>5, MoneyMoves DEF MoneyMove
  <1> QED BY <1>1, <1>2, TypeCorrect, DepositIsAccounted, PTL
          DEF Spec, ImplementsDeposit, D!Spec

-----------------------------------------------------------------------------
(***************************************************************************)
(* Who holds a bay, who is told of it, and who does not pay for it.  Every *)
(* step moves the holders on in one of three ways.                         *)
(***************************************************************************)
\* The reservation stays as it is, or goes from one live status to another.
CarriesOn(r) ==
  \/ status'[r] = status[r]
  \/ /\ status[r] \in LiveStatuses /\ status'[r] \in LiveStatuses
     /\ status'[r] \in {"active", "pending_check_in"} => Awaited(r)

AllCarryOn == pointer' = pointer /\ \A r \in Reservations : CarriesOn(r)

TakesBay(r) ==
  /\ status[r] = "none"
  /\ IndexAdmits(r)
  /\ status' = [status EXCEPT ![r] = "active"]
  /\ pointer' = [pointer EXCEPT ![BayOf[r]] = r]

LeavesBay(r) ==
  /\ status[r] \in LiveStatuses
  /\ \E end \in TerminalStatuses : status' = [status EXCEPT ![r] = end]
  /\ ClearPointer(r)
  /\ \E t \in Threads, a \in {"cancel", "release"} : Idle(t) /\ Sends(t, a, r)

HolderMove ==
  AllCarryOn \/ \E r \in Reservations : TakesBay(r) \/ LeavesBay(r)

-----------------------------------------------------------------------------
LEMMA RequestHolders ==
  ASSUME TypeOK, NEW t \in HttpThreads, Request(t)
  PROVE  HolderMove
  <1> USE DEF LiveStatuses, OpenStatuses, TerminalStatuses
  <1>0. t \in Threads
    BY DEF Threads
  <1>1. ASSUME NEW r \in Reservations, NEW a \in {"early", "late"}, Create(t, r, a)
        PROVE  TakesBay(r)
    BY <1>1 DEF Create, TakesBay
  <1>2. ASSUME NEW r \in Reservations, CancelNoFault(t, r)
        PROVE  LeavesBay(r)
    BY <1>0, <1>2 DEF CancelNoFault, Cancellable, LeavesBay
  <1>3. ASSUME NEW r \in Reservations, Cancel(t, r)
        PROVE  LeavesBay(r)
    BY <1>0, <1>3 DEF Cancel, Cancellable, LeavesBay
  <1>4. ASSUME NEW r \in Reservations, CheckIn(t, r)
        PROVE  AllCarryOn
    BY <1>4 DEF CheckIn, MayCheckIn, AllCarryOn, CarriesOn, TypeOK
  <1>5. ASSUME NEW r \in Reservations, AdminTerminate(t, r)
        PROVE  LeavesBay(r)
    BY <1>0, <1>5 DEF AdminTerminate, LeavesBay
  <1>6. ASSUME NEW r \in Reservations, AdminCleansUpConflict(t, r)
        PROVE  AllCarryOn
    BY <1>6 DEF AdminCleansUpConflict, AllCarryOn, CarriesOn, reservationVars, bayVars
  <1>7. ASSUME NEW b \in Bays, ResolveConflict(t, b)
        PROVE  AllCarryOn
    BY <1>7 DEF ResolveConflict, AllCarryOn, CarriesOn, reservationVars, bayVars
  <1> QED BY <1>1, <1>2, <1>3, <1>4, <1>5, <1>6, <1>7 DEF Request, HolderMove

LEMMA StateMessageHolders ==
  ASSUME TypeOK, NEW b \in Bays, StateMessage(b)
  PROVE  HolderMove
  <1> USE DEF LiveStatuses, OpenStatuses, TerminalStatuses
  <1>1. SUFFICES ASSUME NEW s \in BayStates, NEW id, ApplyState(b, s, id)
                 PROVE  HolderMove
    BY DEF StateMessage
  <1>2. CASE RestoreAfterStrongConflict(b, s, id)
    <2>1. pointer' = pointer
      BY <1>2 DEF RestoreAfterStrongConflict
    <2>2. status' = status \/ \E r \in Reservations :
            Awaited(r) /\ status' = [status EXCEPT ![r] = "active"]
      BY <1>2 DEF RestoreAfterStrongConflict, StrongRestores, TypeOK, Conflicts, Awaited
    <2>3. AllCarryOn
      BY <2>1, <2>2 DEF AllCarryOn, CarriesOn, Awaited, TypeOK
    <2> QED BY <2>3 DEF HolderMove
  <1>3. ASSUME NEW r \in Reservations, RollbackPendingCheckIn(b, s, r, id)
        PROVE  AllCarryOn
    BY <1>3 DEF RollbackPendingCheckIn, PendingRollsBack, AllCarryOn, CarriesOn, Awaited, TypeOK
  <1>4. ASSUME NEW r \in Reservations, CompleteReservation(b, s, r, id)
        PROVE  LeavesBay(r)
    <2>1. status[r] \in LiveStatuses
      BY <1>4 DEF CompleteReservation, Completable
    <2>2. "mqtt" \in Threads /\ Idle("mqtt") /\ Sends("mqtt", "release", r)
      BY <1>4 DEF CompleteReservation, ReportsChange, Threads
    <2> QED BY <1>4, <2>1, <2>2 DEF CompleteReservation, LeavesBay
  <1>5. CASE MirrorOnly(b, s, id)
    BY <1>5 DEF MirrorOnly, HolderMove, AllCarryOn, CarriesOn, reservationVars
  <1> QED BY <1>1, <1>2, <1>3, <1>4, <1>5 DEF ApplyState, HolderMove

LEMMA EventMessageHolders ==
  ASSUME TypeOK, NEW b \in Bays, EventMessage(b)
  PROVE  AllCarryOn
  <1> USE DEF AllCarryOn, CarriesOn, Awaited, OpenReservation, OnBay, TypeOK,
              LiveStatuses, OpenStatuses
  <1>1. ASSUME NEW id, SensorOnline(b, id)
        PROVE  AllCarryOn
    BY <1>1 DEF SensorOnline, reservationVars
  <1>2. ASSUME NEW id, SensorOffline(b, id)
        PROVE  AllCarryOn
    BY <1>2 DEF SensorOffline, reservationVars
  <1>3. ASSUME NEW id, NEW g, PendingCheckIn(b, id, g)
        PROVE  AllCarryOn
    BY <1>3 DEF PendingCheckIn
  <1>4. ASSUME NEW id, AutoCheckIn(b, id)
        PROVE  AllCarryOn
    BY <1>4 DEF AutoCheckIn
  <1>5. ASSUME NEW id, CheckInConfirmed(b, id)
        PROVE  AllCarryOn
    BY <1>5 DEF CheckInConfirmed
  <1>6. ASSUME NEW id, ConflictStrong(b, id)
        PROVE  AllCarryOn
    BY <1>6 DEF ConflictStrong
  <1> QED BY <1>1, <1>2, <1>3, <1>4, <1>5, <1>6 DEF EventMessage

LEMMA SweepHolders ==
  ASSUME TypeOK, NEW r \in Reservations, Sweep(r)
  PROVE  HolderMove
  <1> USE DEF LiveStatuses, OpenStatuses, TerminalStatuses
  <1>1. ASSUME NEW q \in Reservations, Idle("sweeper"), NoShow(BayOf[r], q)
        PROVE  LeavesBay(q)
    BY <1>1 DEF NoShow, LeavesBay, Threads
  <1>2. ASSUME NEW q \in Reservations, ConflictWeak(BayOf[r], q)
        PROVE  AllCarryOn
    BY <1>2 DEF ConflictWeak, AllCarryOn, CarriesOn, TypeOK
  <1> QED BY <1>1, <1>2 DEF Sweep, SweepNoShow, SweepConflictWeak, HolderMove

LEMMA HolderMoves ==
  ASSUME TypeOK, [Next]_vars
  PROVE  HolderMove
  <1>1. CASE \E t \in HttpThreads : Request(t)
    BY <1>1, RequestHolders
  <1>2. CASE \E b \in Bays : StateMessage(b) \/ EventMessage(b)
    BY <1>2, StateMessageHolders, EventMessageHolders DEF HolderMove
  <1>3. CASE \E r \in Reservations : Sweep(r)
    BY <1>3, SweepHolders
  <1>4. ASSUME UNCHANGED <<status, pointer>> PROVE HolderMove
    BY <1>4 DEF HolderMove, AllCarryOn, CarriesOn
  <1>5. CASE \E r \in Reservations : Tick(r)
    BY <1>4, <1>5 DEF Tick, ArrivalNears, WindowEnds, GraceExpires, bayVars
  <1>6. CASE (\E t \in Threads : Publish(t)) \/ Crash
    BY <1>4, <1>6 DEF Publish, Crash, reservationVars, bayVars
  <1>7. CASE UNCHANGED vars
    BY <1>4, <1>7 DEF vars, reservationVars, bayVars
  <1> QED BY <1>1, <1>2, <1>3, <1>5, <1>6, <1>7 DEF Next

-----------------------------------------------------------------------------
\* A bay names the reservation it is held for, and no other: it is the one that
\* is awaited, however many went before it.
THEOREM HolderIsNamed == Spec => []PointerNamesHolder
  <1>1. Init => PointerNamesHolder
    BY DEF Init, PointerNamesHolder, Awaited
  <1>2. TypeOK /\ PointerNamesHolder /\ [Next]_vars => PointerNamesHolder'
    <2> SUFFICES ASSUME TypeOK, PointerNamesHolder, [Next]_vars
                 PROVE  PointerNamesHolder'
      OBVIOUS
    <2> USE DEF LiveStatuses, OpenStatuses, TerminalStatuses
    <2>1. \A r \in Reservations : r # NoRes /\ BayOf[r] \in Bays
      BY ReservationsAreNumbered, PlacesTyped
    <2>2. CASE AllCarryOn
      <3>1. ASSUME NEW b \in Bays, pointer'[b] # NoRes
            PROVE  pointer'[b] \in OnBay(b) /\ status'[pointer'[b]] \in LiveStatuses
        BY <2>2, <3>1 DEF AllCarryOn, CarriesOn, PointerNamesHolder, OnBay
      <3>2. ASSUME NEW r \in Reservations, status'[r] \in {"active", "pending_check_in"}
            PROVE  pointer'[BayOf[r]] = r
        BY <2>2, <3>2 DEF AllCarryOn, CarriesOn, PointerNamesHolder, Awaited
      <3> QED BY <3>1, <3>2 DEF PointerNamesHolder, Awaited, OnBay
    <2>3. ASSUME NEW r \in Reservations, TakesBay(r)
          PROVE  PointerNamesHolder'
      <3>1. /\ status'[r] = "active" /\ pointer'[BayOf[r]] = r
            /\ \A q \in Reservations \ {r} : status'[q] = status[q]
            /\ \A b \in Bays \ {BayOf[r]} : pointer'[b] = pointer[b]
        BY <2>1, <2>3 DEF TakesBay, TypeOK
      <3>2. ASSUME NEW b \in Bays, pointer'[b] # NoRes
            PROVE  pointer'[b] \in OnBay(b) /\ status'[pointer'[b]] \in LiveStatuses
        <4>1. CASE b = BayOf[r]
          BY <3>1, <4>1 DEF OnBay
        <4>2. CASE b # BayOf[r]
          BY <3>1, <3>2, <4>2 DEF PointerNamesHolder, OnBay
        <4> QED BY <4>1, <4>2
      <3>3. ASSUME NEW q \in Reservations, status'[q] \in {"active", "pending_check_in"}, q # r
            PROVE  pointer'[BayOf[q]] = q
        <4>1. Awaited(q) /\ pointer[BayOf[q]] = q
          BY <3>1, <3>3 DEF Awaited, PointerNamesHolder
        <4>2. BayOf[q] # BayOf[r]
          BY <2>3, <3>3, <4>1 DEF TakesBay, IndexAdmits, OnBay, Awaited
        <4> QED BY <2>1, <3>1, <4>1, <4>2
      <3> QED BY <3>1, <3>2, <3>3 DEF PointerNamesHolder, Awaited, OnBay
    <2>4. ASSUME NEW r \in Reservations, LeavesBay(r)
          PROVE  PointerNamesHolder'
      <3>1. /\ status'[r] \in TerminalStatuses
            /\ \A q \in Reservations \ {r} : status'[q] = status[q]
            /\ \A b \in Bays : pointer'[b] = IF b = BayOf[r] /\ pointer[b] = r THEN NoRes
                                                                             ELSE pointer[b]
        BY <2>1, <2>4 DEF LeavesBay, ClearPointer, TypeOK
      <3>2. ASSUME NEW b \in Bays, pointer'[b] # NoRes
            PROVE  pointer'[b] \in OnBay(b) /\ status'[pointer'[b]] \in LiveStatuses
        <4>1. /\ pointer'[b] = pointer[b] /\ pointer[b] \in OnBay(b)
              /\ status[pointer[b]] \in LiveStatuses
          BY <3>1, <3>2 DEF PointerNamesHolder
        <4>2. pointer[b] # r
          BY <3>1, <3>2, <4>1 DEF OnBay
        <4> QED BY <3>1, <4>1, <4>2 DEF OnBay
      <3>3. ASSUME NEW q \in Reservations, status'[q] \in {"active", "pending_check_in"}
            PROVE  pointer'[BayOf[q]] = q
        <4>1. q # r
          BY <3>1, <3>3
        <4>2. pointer[BayOf[q]] = q
          BY <3>1, <3>3, <4>1 DEF PointerNamesHolder, Awaited
        <4> QED BY <2>1, <3>1, <4>1, <4>2
      <3> QED BY <3>2, <3>3 DEF PointerNamesHolder, Awaited, OnBay
    <2> QED BY <2>2, <2>3, <2>4, HolderMoves DEF HolderMove
  <1> QED BY <1>1, <1>2, TypeCorrect, PTL DEF Spec

-----------------------------------------------------------------------------
\* The ids that the sweeper derives from r.
SweptAs(r) == {<<r, "no_show">>, <<r, "conflict_weak">>}

\* Once one of them is recorded, r has been ended or is in conflict, for good.
SweptIsPast ==
  \A r \in Reservations : SweptAs(r) \cap bayEvents # {} => status[r] # "none" /\ ~ Awaited(r)

NothingIsSwept == \A r \in Reservations : SweptAs(r) \cap bayEvents' \subseteq bayEvents

\* A message of the Pi has another id than any that the sweeper makes.
LEMMA PiIdsAreOthers ==
  ASSUME NEW b, NEW topic, NEW name, NEW id \in MessageIds(b, topic, name), Record(id)
  PROVE  NothingIsSwept
  <1>1. ASSUME NEW r, NEW kind PROVE id # <<r, kind>>
    BY DEF MessageIds, Once
  <1> QED BY <1>1 DEF Record, NothingIsSwept, SweptAs

LEMMA PiSweepsNothing ==
  ASSUME NEW b \in Bays, StateMessage(b) \/ EventMessage(b)
  PROVE  NothingIsSwept
  <1>1. CASE StateMessage(b)
    <2>1. PICK s \in BayStates :
            \E id \in MessageIds(b, "state", s) : ApplyState(b, s, id)
      BY <1>1 DEF StateMessage
    <2>2. \E id \in MessageIds(b, "state", s) : Record(id)
      BY <2>1 DEF ApplyState, RestoreAfterStrongConflict, RollbackPendingCheckIn,
                  CompleteReservation, MirrorOnly
    <2> QED BY <2>2, PiIdsAreOthers
  <1>2. CASE EventMessage(b)
    <2>1. \E name : \E id \in MessageIds(b, "event", name) : Record(id)
      BY <1>2 DEF EventMessage, SensorOnline, SensorOffline, PendingCheckIn, AutoCheckIn,
                  CheckInConfirmed, ConflictStrong
    <2> QED BY <2>1, PiIdsAreOthers
  <1> QED BY <1>1, <1>2

LEMMA OnlySweepsAreRecorded ==
  ASSUME [Next]_vars
  PROVE  NothingIsSwept \/ \E r \in Reservations : Sweep(r)
  <1>1. ASSUME UNCHANGED bayEvents PROVE NothingIsSwept
    BY <1>1 DEF NothingIsSwept
  <1>2. ASSUME NEW t \in HttpThreads, Request(t) PROVE UNCHANGED bayEvents
    BY <1>2 DEF Request, Create, CancelNoFault, Cancel, CheckIn, AdminTerminate,
                AdminCleansUpConflict, ResolveConflict
  <1>3. ASSUME NEW r \in Reservations, Tick(r) PROVE UNCHANGED bayEvents
    BY <1>3 DEF Tick, ArrivalNears, WindowEnds, GraceExpires
  <1>4. CASE (\E t \in Threads : Publish(t)) \/ Crash \/ UNCHANGED vars
    BY <1>1, <1>4 DEF Publish, Crash, vars
  <1> QED BY <1>1, <1>2, <1>3, <1>4, PiSweepsNothing DEF Next

\* The event is dispatched by bay, and what it finds there is the reservation
\* that was swept, for the bay names no other that is awaited.
LEMMA SweepHitsItsOwn ==
  ASSUME TypeOK, PointerNamesHolder, NEW r \in Reservations, Sweep(r)
  PROVE  /\ status'[r] \in {"expired_no_show", "in_conflict"}
         /\ \A q \in Reservations \ {r} : SweptAs(q) \cap bayEvents' \subseteq bayEvents
  <1>1. ASSUME NEW q \in Reservations, q \in OpenReservation(BayOf[r]), Awaited(q), Awaited(r)
        PROVE  q = r
    BY <1>1 DEF OpenReservation, OnBay, PointerNamesHolder
  <1>2. CASE SweepNoShow(r)
    <2>1. PICK q \in Reservations : NoShow(BayOf[r], q)
      BY <1>2 DEF SweepNoShow
    <2>2. q = r
      BY <1>1, <1>2, <2>1 DEF SweepNoShow, SweptForNoShow, NoShow, Awaited
    <2>3. status'[r] = "expired_no_show"
      BY <2>1, <2>2 DEF NoShow, TypeOK
    <2> QED BY <1>2, <2>3 DEF SweepNoShow, Record, SweptAs
  <1>3. CASE SweepConflictWeak(r)
    <2>1. PICK q \in Reservations : ConflictWeak(BayOf[r], q)
      BY <1>3 DEF SweepConflictWeak
    <2>2. q = r
      BY <1>1, <1>3, <2>1 DEF SweepConflictWeak, ConflictWeak, Awaited
    <2>3. status'[r] = "in_conflict"
      BY <2>1, <2>2 DEF ConflictWeak, TypeOK
    <2> QED BY <1>3, <2>3 DEF SweepConflictWeak, Record, SweptAs
  <1> QED BY <1>2, <1>3 DEF Sweep

\* The deterministic ids of the sweep never keep it from ending a reservation
\* that is still awaited: they are recorded by the transaction that ends it.
THEOREM SweepsAreNoReplays == Spec => []SweepIsNoReplay
  <1>1. Init => SweptIsPast
    BY DEF Init, SweptIsPast
  <1>2. TypeOK /\ PointerNamesHolder /\ SweptIsPast /\ [Next]_vars => SweptIsPast'
    <2> SUFFICES ASSUME TypeOK, PointerNamesHolder, SweptIsPast, [Next]_vars,
                        NEW r \in Reservations, SweptAs(r) \cap bayEvents' # {}
                 PROVE  status'[r] \notin {"none", "active", "pending_check_in"}
      BY DEF SweptIsPast, Awaited, SweptAs
    <2>1. CASE SweptAs(r) \cap bayEvents = {}
      <3>1. PICK q \in Reservations : Sweep(q)
        BY <2>1, OnlySweepsAreRecorded DEF NothingIsSwept
      <3>2. q = r
        BY <2>1, <3>1, SweepHitsItsOwn
      <3> QED BY <3>1, <3>2, SweepHitsItsOwn
    <2>2. CASE SweptAs(r) \cap bayEvents # {}
      <3>1. status[r] \notin {"none", "active", "pending_check_in"}
        BY <2>2 DEF SweptIsPast, Awaited
      <3>2. CASE AllCarryOn
        BY <3>1, <3>2 DEF AllCarryOn, CarriesOn, Awaited, LiveStatuses, OpenStatuses
      <3>3. ASSUME NEW q \in Reservations, TakesBay(q) \/ LeavesBay(q)
            PROVE  status'[r] \notin {"none", "active", "pending_check_in"}
        BY <3>1, <3>3 DEF TakesBay, LeavesBay, TerminalStatuses, TypeOK
      <3> QED BY <3>2, <3>3, HolderMoves DEF HolderMove
    <2> QED BY <2>1, <2>2
  <1>3. SweptIsPast => SweepIsNoReplay
    BY DEF SweptIsPast, SweptAs, SweepIsNoReplay
  <1> QED BY <1>1, <1>2, <1>3, TypeCorrect, HolderIsNamed, PTL DEF Spec

-----------------------------------------------------------------------------
\* No reservation ends without a command to the Pi that says so.
THEOREM EndsAreAnnounced == Spec => EndIsAnnounced
  <1> DEFINE Announced(r) ==
        status[r] \in LiveStatuses /\ status'[r] \in TerminalStatuses =>
          \E t \in Threads : /\ outbox[t] = NoCommand
                             /\ outbox'[t].action \in {"cancel", "release"}
                             /\ outbox'[t].res = r
  <1>1. TypeOK /\ [Next]_vars => [\A r \in Reservations : Announced(r)]_vars
    <2> SUFFICES ASSUME TypeOK, [Next]_vars,
                        NEW r \in Reservations,
                        status[r] \in LiveStatuses, status'[r] \in TerminalStatuses
                 PROVE  Announced(r)
      OBVIOUS
    <2>1. status'[r] # status[r] /\ status'[r] \notin LiveStatuses /\ status[r] # "none"
      BY DEF LiveStatuses, OpenStatuses, TerminalStatuses
    <2>2. LeavesBay(r)
      <3>1. ~ AllCarryOn
        BY <2>1 DEF AllCarryOn, CarriesOn
      <3>2. ASSUME NEW q \in Reservations, TakesBay(q) \/ LeavesBay(q)
            PROVE  q = r /\ ~ TakesBay(q)
        BY <2>1, <3>2 DEF TakesBay, LeavesBay, TypeOK
      <3> QED BY <3>1, <3>2, HolderMoves DEF HolderMove
    <2>3. PICK t \in Threads, a \in {"cancel", "release"} : Idle(t) /\ Sends(t, a, r)
      BY <2>2 DEF LeavesBay
    <2>4. outbox[t] = NoCommand /\ outbox'[t] = [action |-> a, res |-> r]
      BY <2>3 DEF Idle, Sends, TypeOK
    <2> QED BY <2>4
  <1> QED BY <1>1, TypeCorrect, PTL DEF Spec, EndIsAnnounced

\* Whoever is kept out by a strong conflict is not charged for it.
THEOREM VictimsKeepDeposits == Spec => VictimKeepsDeposit
  <1> DEFINE Kept(r) ==
        OpenConflictOf(r, "strong") /\ mirror[BayOf[r]] = "conflict" =>
          Captured(ledger'[r]) = Captured(ledger[r])
  <1>1. TypeOK /\ DepositFollowsStatus /\ [Next]_vars => [\A r \in Reservations : Kept(r)]_vars
    <2> SUFFICES ASSUME TypeOK, DepositFollowsStatus, [Next]_vars,
                        NEW r \in Reservations, Victim(r)
                 PROVE  Captured(ledger'[r]) = Captured(ledger[r])
      BY DEF Victim
    <2>1. ledger[r] \in Ledgers
      BY DEF TypeOK
    <2>2. CASE NoPayment
      BY <2>2 DEF NoPayment, moneyVars
    <2>3. ASSUME NEW q \in Reservations, Books(q)
          PROVE  Captured(ledger'[r]) = Captured(ledger[r])
      <3>1. Captured(Preauthorize(ledger[r])) = Captured(ledger[r])
        BY <2>1 DEF Preauthorize, Captured, Ledgers, Keys
      <3> QED BY <2>3, <3>1 DEF Books, TypeOK
    <2>4. ASSUME NEW q \in Reservations, EndsPaidBack(q)
          PROVE  Captured(ledger'[r]) = Captured(ledger[r])
      <3>1. \A key \in ReturnKeys : Captured(PayBack(ledger[r], key)) = Captured(ledger[r])
        BY <2>1, PayBackReturns
      <3> QED BY <2>4, <3>1 DEF EndsPaidBack, Pays, TypeOK
    <2>5. ASSUME NEW q \in Reservations, Breaks(q)
          PROVE  Captured(ledger'[r]) = Captured(ledger[r])
      BY <2>5 DEF Breaks, Pays, TypeOK
    <2> QED BY <2>2, <2>3, <2>4, <2>5, MoneyMoves DEF MoneyMove
  <1> QED BY <1>1, TypeCorrect, DepositIsAccounted, PTL DEF Spec, VictimKeepsDeposit

=============================================================================

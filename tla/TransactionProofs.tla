---------------------------- MODULE TransactionProofs ----------------------------
(***************************************************************************)
(* The money of Transactions.tla, for any cards, amounts, bookings and     *)
(* request workers: a handler that comes too late finds a settled ledger,  *)
(* and writes nothing to it.                                               *)
(***************************************************************************)
EXTENDS Transactions, PaymentProofs

Over == Terminal \cup {"in_conflict"}

\* Held or settled, and nothing in between.
Booked(l) == l["pre_auth"] = Deposit /\ Spent(l) \in {0, Deposit}

Accounted(st, l) ==
  /\ st = "none" => l = NoRows
  /\ st # "none" => Booked(l)
  /\ st \in Over => Spent(l) = Deposit

-----------------------------------------------------------------------------
LEMMA EmptyLedger ==
  /\ NoRows \in Ledgers
  /\ NoRows["pre_auth"] = 0 /\ Spent(NoRows) = 0 /\ Returned(NoRows) = 0 /\ Captured(NoRows) = 0
  /\ Phase(NoRows) = "none"
  BY AmountsPositive
     DEF NoRows, Ledgers, Keys, ReturnKeys, PenaltyKeys, Spent, Returned, Captured,
         Phase, Preauthorize, HasRow

LEMMA HeldLedger ==
  LET held == Preauthorize(NoRows) IN
  /\ held \in Ledgers /\ Booked(held)
  /\ Spent(held) = 0 /\ Returned(held) = 0 /\ Captured(held) = 0
  /\ Phase(held) = "held"
  <1> DEFINE held == Preauthorize(NoRows)
  <1>1. held \in Ledgers /\ \A k \in Keys : held[k] = IF k = "pre_auth" THEN Deposit ELSE 0
    BY AmountsPositive DEF NoRows, Ledgers, Preauthorize, HasRow, Keys
  <1> HIDE DEF held
  <1>2. Returned(held) = 0 /\ Captured(held) = 0
    BY <1>1 DEF Returned, Captured, Keys, ReturnKeys, PenaltyKeys
  <1>3. Spent(held) = 0 /\ held["pre_auth"] = Deposit
    BY <1>1, <1>2 DEF Spent, Keys
  <1>4. held # NoRows
    BY <1>3, EmptyLedger, AmountsPositive
  <1> QED BY <1>1, <1>2, <1>3, <1>4 DEF Booked, Phase, held

\* The phase of a booking is decided by what was spent of it.
LEMMA PhaseOfBooking ==
  ASSUME NEW l \in Ledgers, Booked(l)
  PROVE  Phase(l) = IF Spent(l) = 0 THEN "held" ELSE "settled"
  <1> DEFINE held == Preauthorize(NoRows)
  <1>1. held \in Ledgers /\ Booked(held) /\ Spent(held) = 0
    BY HeldLedger
  <1>2. l # NoRows
    BY EmptyLedger, AmountsPositive DEF Booked
  <1> HIDE DEF held
  <1>3. Spent(l) = 0 => l = held
    <2>1. \A m \in Ledgers : Spent(m) = 0 =>
            \A k \in Keys : m[k] = IF k = "pre_auth" THEN m["pre_auth"] ELSE 0
      BY NothingSpent DEF Keys
    <2>2. Spent(l) = 0 => \A k \in Keys : l[k] = held[k]
      BY <1>1, <2>1 DEF Booked
    <2> QED BY <1>1, <2>2 DEF Ledgers
  <1> QED BY <1>1, <1>2, <1>3 DEF Phase, held

\* What is settled is settled.
LEMMA SettledStays ==
  ASSUME NEW l \in Ledgers, Spent(l) = l["pre_auth"]
  PROVE  /\ \A key \in ReturnKeys : PayBack(l, key) = l
         /\ \A key \in PenaltyKeys : SettleBreach(l, key) = l
  <1>1. Remaining(l) = 0
    BY SumsAreAmounts DEF Remaining, Ledgers, Keys
  <1>2. \A key \in Keys : l[key] = 0 => [l EXCEPT ![key] = 0] = l
    BY DEF Ledgers
  <1>3. \A key \in ReturnKeys : PayBack(l, key) = l
    BY <1>1, <1>2 DEF PayBack, HasRow, Keys
  <1>4. Lesser(Penalty, 0) = 0
    BY AmountsPositive DEF Lesser
  <1>5. \A key \in PenaltyKeys : ChargePenalty(l, key) = l
    BY <1>1, <1>2, <1>4 DEF ChargePenalty, HasRow, Keys
  <1> QED BY <1>3, <1>5 DEF SettleBreach, ReturnKeys

-----------------------------------------------------------------------------
\* What every handler of an existing reservation has in common.
LEMMA HandlerFacts ==
  ASSUME NEW h \in Handlers \cup {AdminTerminate}, h # Create
  PROVE  /\ "none" \notin h.from /\ h.to \in Statuses \ {"none"}
         /\ h.penalty \in PenaltyKeys \cup {"none"}
         /\ h.return \in ReturnKeys \cup {"none"}
         /\ h.penalty # "none" => h.return = "none"
         /\ h.to \in Over => h.penalty # "none" \/ h.return # "none"
         /\ h.to \in h.from => h.penalty = "none" /\ h.return = "none"
  BY DEF Handlers, AdminTerminate, Requests, Messages, Sweeps, NoShow, ConflictWeak, Create,
         Moves, Handler, Awaited, Live, Terminal, Statuses, Over, PenaltyKeys, ReturnKeys

LEMMA CreateFacts ==
  /\ Create.from = {"none"} /\ Create.to = "active"
  /\ Create \in Handlers /\ NoWork.handler \notin Handlers
  /\ \A h \in Sweeps : SelectedBy(h) \in h.from /\ h # Create
  <1>1. Create.from = {"none"} /\ Create.to = "active" /\ Create \in Handlers
    BY DEF Create, Moves, Handler, Handlers
  <1>2. NoWork.handler.to = "none" /\ \A h \in Handlers : h.to # "none"
    BY DEF NoWork, Handlers, Requests, Messages, Sweeps, NoShow, ConflictWeak, Create,
           Moves, Handler
  <1>3. \A h \in Sweeps : SelectedBy(h) \in h.from /\ h # Create
    BY DEF Sweeps, SelectedBy, NoShow, ConflictWeak, Create, Moves, Handler, Awaited
  <1> QED BY <1>1, <1>2, <1>3

\* Whatever a handler finds, it settles the deposit in full or leaves it alone,
\* and one that ends the reservation leaves nothing in escrow.
LEMMA HandlersSettle ==
  ASSUME NEW h \in Handlers \cup {AdminTerminate}, h # Create, NEW r,
         ledger[r] \in Ledgers, Booked(ledger[r])
  PROVE  LET l == Settles(h, r) IN
         /\ l \in Ledgers /\ Booked(l)
         /\ h.to \in Over => Spent(l) = Deposit
         /\ h.penalty = "none" /\ h.return = "none" => l = ledger[r]
         /\ \/ l = ledger[r]
            \/ /\ Spent(ledger[r]) = 0 /\ Spent(l) = Deposit
               /\ Captured(l) \in {0, D!Agreed}
  <1> DEFINE old == ledger[r]
             l == Settles(h, r)
  <1>1. CASE h.penalty = "none" /\ h.return = "none"
    BY <1>1, HandlerFacts DEF Settles
  <1>2. CASE h.penalty # "none"
    <2>1. h.penalty \in PenaltyKeys /\ l = SettleBreach(old, h.penalty)
      BY <1>2, HandlerFacts DEF Settles
    <2>2. l \in Ledgers /\ l["pre_auth"] = Deposit
      BY <2>1, BreachSettles DEF Booked
    <2>3. CASE Spent(old) = 0
      <3>1. Spent(l) = Deposit /\ Captured(l) = D!Agreed
        BY <2>1, <2>3, BreachSettles DEF Booked, D!Agreed, Lesser
      <3> QED BY <1>2, <2>2, <2>3, <3>1 DEF Booked
    <2>4. CASE Spent(old) = Deposit
      BY <1>2, <2>1, <2>2, <2>4, SettledStays DEF Booked
    <2> QED BY <2>3, <2>4 DEF Booked
  <1>3. CASE h.penalty = "none" /\ h.return # "none"
    <2>1. h.return \in ReturnKeys /\ l = PayBack(old, h.return)
      BY <1>3, HandlerFacts DEF Settles
    <2>2. /\ l \in Ledgers /\ l["pre_auth"] = Deposit /\ Captured(l) = Captured(old)
      BY <2>1, PayBackReturns DEF Booked
    <2>3. CASE Spent(old) = 0
      <3>1. old[h.return] = 0 /\ Captured(old) = 0
        BY <2>1, <2>3, NothingSpent, SumsAreAmounts
      <3>2. Spent(l) = Deposit
        BY <2>1, <2>3, <3>1, PayBackSettles, AmountsPositive DEF Booked
      <3> QED BY <1>3, <2>2, <2>3, <3>1, <3>2 DEF Booked
    <2>4. CASE Spent(old) = Deposit
      BY <1>3, <2>1, <2>2, <2>4, SettledStays DEF Booked
    <2> QED BY <2>3, <2>4 DEF Booked
  <1> QED BY <1>1, <1>2, <1>3

-----------------------------------------------------------------------------
(***************************************************************************)
(* What a transaction has read is still true where it matters: the card    *)
(* that a booking has locked, and that a reservation exists.               *)
(***************************************************************************)
Creating(t) == work[t].handler = Create

ReadsHold(t) ==
  /\ ~ Idle(t) => work[t].handler \in Handlers /\ work[t].res \in Reservations
  /\ Creating(t) =>
       /\ t \in HttpThreads
       /\ cardLock[CardOf[work[t].res]] = t
       /\ status[work[t].res] = "none"
       /\ work[t].funds = balance[CardOf[work[t].res]]
       /\ work[t].funds >= Deposit
  /\ ~ Idle(t) /\ ~ Creating(t) =>
       /\ status[work[t].res] # "none"
       /\ ~ work[t].changes => work[t].handler.to \in work[t].handler.from

\* A locked row is as the sweeper has selected it.
LocksHold ==
  /\ \A r \in rowLocks : \E h \in Sweeps : <<h, r>> \in batch
  /\ \A h \in Sweeps, r \in rowLocks : <<h, r>> \in batch => status[r] = SelectedBy(h)

LedgersAccounted == \A r \in Reservations : Accounted(status[r], ledger[r])

Invariant ==
  /\ TypeOK
  /\ \A t \in Threads : ReadsHold(t)
  /\ LocksHold
  /\ LedgersAccounted

LEMMA InvariantHoldsAtFirst ==
  Init => Invariant
  <1> SUFFICES ASSUME Init PROVE Invariant
    OBVIOUS
  <1>1. TypeOK
    <2>1. work \in [Threads -> {NoWork}] /\ NoWork.res = "none"
            /\ NoWork = [handler |-> NoWork.handler, res |-> NoWork.res,
                         changes |-> NoWork.changes, funds |-> NoWork.funds]
            /\ NoWork.changes \in BOOLEAN /\ NoWork.funds \in Nat
      BY DEF Init, NoWork
    <2> QED BY <2>1, EmptyLedger, CardsTyped DEF Init, TypeOK, Statuses
  <1>2. \A t \in Threads : ReadsHold(t)
    BY CreateFacts DEF Init, ReadsHold, Creating, Idle
  <1>3. LocksHold
    BY DEF Init, LocksHold
  <1>4. LedgersAccounted
    BY DEF Init, LedgersAccounted, Accounted, Over, Terminal
  <1> QED BY <1>1, <1>2, <1>3, <1>4 DEF Invariant

-----------------------------------------------------------------------------
(***************************************************************************)
(* Every step moves money in one of three ways.                            *)
(***************************************************************************)
NoPayment == UNCHANGED <<status, ledger, balance>>

Books(r) ==
  /\ status[r] = "none"
  /\ balance[CardOf[r]] >= Deposit
  /\ status' = [status EXCEPT ![r] = "active"]
  /\ ledger' = [ledger EXCEPT ![r] = Preauthorize(@)]
  /\ balance' = [balance EXCEPT ![CardOf[r]] = @ - Deposit]

Writes(h, r) ==
  /\ h \in (Handlers \cup {AdminTerminate}) \ {Create}
  /\ status[r] # "none"
  /\ status' = [status EXCEPT ![r] = h.to]
  /\ Pays(r, Settles(h, r))

MoneyMove ==
  NoPayment \/ \E r \in Reservations : Books(r) \/ \E h : Writes(h, r)

\* A payment that changes nothing leaves the card alone.
LEMMA PayingNothing ==
  ASSUME TypeOK, NEW r \in Reservations, Pays(r, ledger[r])
  PROVE  ledger' = ledger /\ balance' = balance
  <1>1. Returned(ledger[r]) \in Nat /\ CardOf[r] \in Cards
    BY SumsAreAmounts, CardsTyped DEF TypeOK
  <1> QED BY <1>1 DEF Pays, TypeOK

LEMMA EndMoves ==
  ASSUME Invariant, NEW t \in Threads, Ends(t)
  PROVE  NoPayment \/ Writes(work[t].handler, work[t].res)
  <1> DEFINE h == work[t].handler
             r == work[t].res
  <1>1. /\ h \in Handlers /\ h # Create /\ r \in Reservations /\ status[r] # "none"
        /\ ~ work[t].changes => h.to \in h.from
    BY DEF Ends, Invariant, ReadsHold, Creating
  <1>2. CASE work[t].changes
    BY <1>1, <1>2 DEF Ends, Writes
  <1>3. CASE ~ work[t].changes
    <2>1. h.penalty = "none" /\ h.return = "none"
      BY <1>1, <1>3, HandlerFacts
    <2>2. Settles(h, r) = ledger[r]
      BY <2>1 DEF Settles
    <2>3. status' = status
      BY <1>3 DEF Ends, Invariant, TypeOK
    <2> QED BY <1>1, <2>2, <2>3, PayingNothing DEF Ends, NoPayment, Invariant, TypeOK
  <1> QED BY <1>2, <1>3

LEMMA MoneyMoves ==
  ASSUME Invariant, [Next]_vars
  PROVE  MoneyMove
  <1> USE DEF MoneyMove
  <1>1. ASSUME NEW t \in HttpThreads, NEW r \in Reservations, CreateBegins(t, r)
        PROVE  NoPayment
    BY <1>1 DEF CreateBegins, NoPayment
  <1>2. ASSUME NEW t \in Threads, NEW h, NEW r, Begins(t, h, r)
        PROVE  NoPayment
    BY <1>2 DEF Begins, NoPayment
  <1>3. ASSUME NEW t \in HttpThreads, NEW r \in Reservations, Terminates(t, r)
        PROVE  Writes(AdminTerminate, r)
    BY <1>3 DEF Terminates, Writes, AdminTerminate, Create, Moves, Handler, Live, Awaited
  <1>4. ASSUME NEW t \in Threads, CreateEnds(t)
        PROVE  work[t].res \in Reservations /\ Books(work[t].res)
    <2>1. ReadsHold(t) /\ Creating(t) /\ ~ Idle(t)
      BY <1>4, CreateFacts DEF Invariant, CreateEnds, Creating, Idle
    <2> QED BY <1>4, <2>1, CreateFacts DEF CreateEnds, ReadsHold, Books
  <1>5. ASSUME NEW t \in Threads, Ends(t)
        PROVE  MoneyMove
    <2>1. work[t].res \in Reservations
      BY <1>5 DEF Ends, Invariant, ReadsHold
    <2> QED BY <1>5, <2>1, EndMoves
  <1>6. ASSUME NEW t, Aborts(t)
        PROVE  NoPayment
    BY <1>6 DEF Aborts, NoPayment
  <1>7. ASSUME NEW h, NEW rows, SweepSelects(h, rows)
        PROVE  NoPayment
    BY <1>7 DEF SweepSelects, NoPayment
  <1>8. ASSUME NEW h, NEW r, SweepBegins(h, r) \/ SweepPasses(h, r)
        PROVE  NoPayment
    BY <1>8 DEF SweepBegins, SweepPasses, NoPayment
  <1>9. CASE UNCHANGED vars
    BY <1>9 DEF vars, NoPayment
  <1> QED BY <1>1, <1>2, <1>3, <1>4, <1>5, <1>6, <1>7, <1>8, <1>9 DEF Next, Threads

\* A booking takes the deposit, and what comes back is never less than before.
LEMMA TablesStayTyped ==
  ASSUME Invariant, MoneyMove
  PROVE  /\ status' \in [Reservations -> Statuses]
         /\ ledger' \in [Reservations -> Ledgers]
         /\ balance' \in [Cards -> Nat]
         /\ LedgersAccounted'
  <1>1. \A r \in Reservations : ledger[r] \in Ledgers /\ CardOf[r] \in Cards
    BY CardsTyped DEF Invariant, TypeOK
  <1>2. CASE NoPayment
    BY <1>2 DEF NoPayment, Invariant, TypeOK, LedgersAccounted
  <1>3. ASSUME NEW r \in Reservations, Books(r)
        PROVE  /\ status' \in [Reservations -> Statuses]
               /\ ledger' \in [Reservations -> Ledgers]
               /\ balance' \in [Cards -> Nat]
               /\ LedgersAccounted'
    <2>1. ledger[r] = NoRows
      BY <1>3 DEF Books, Invariant, LedgersAccounted, Accounted
    <2>2. ledger' = [ledger EXCEPT ![r] = Preauthorize(NoRows)]
      BY <1>3, <2>1 DEF Books, Invariant, TypeOK
    <2>3. status' \in [Reservations -> Statuses] /\ ledger' \in [Reservations -> Ledgers]
      BY <1>3, <2>2, HeldLedger DEF Books, Invariant, TypeOK, Statuses, Live, Awaited
    <2>4. balance' \in [Cards -> Nat]
      BY <1>1, <1>3, AmountsPositive DEF Books, Invariant, TypeOK
    <2>5. Accounted("active", Preauthorize(NoRows))
      BY HeldLedger DEF Accounted, Over, Terminal
    <2>6. LedgersAccounted'
      BY <1>3, <2>2, <2>5 DEF Books, Invariant, TypeOK, LedgersAccounted
    <2> QED BY <2>3, <2>4, <2>6
  <1>4. ASSUME NEW r \in Reservations, NEW h, Writes(h, r)
        PROVE  /\ status' \in [Reservations -> Statuses]
               /\ ledger' \in [Reservations -> Ledgers]
               /\ balance' \in [Cards -> Nat]
               /\ LedgersAccounted'
    <2> DEFINE l == Settles(h, r)
    <2>1. Booked(ledger[r]) /\ h \in Handlers \cup {AdminTerminate} /\ h # Create
      BY <1>4 DEF Writes, Invariant, LedgersAccounted, Accounted
    <2>2. /\ l \in Ledgers /\ Booked(l) /\ (h.to \in Over => Spent(l) = Deposit)
          /\ l = ledger[r] \/ Spent(ledger[r]) = 0
      BY <1>1, <2>1, HandlersSettle
    <2>3. h.to \in Statuses \ {"none"}
      BY <2>1, HandlerFacts
    <2> HIDE DEF l
    <2>4. ledger' = [ledger EXCEPT ![r] = l] /\ status' = [status EXCEPT ![r] = h.to]
      BY <1>4 DEF Writes, Pays, l
    <2>5. status' \in [Reservations -> Statuses] /\ ledger' \in [Reservations -> Ledgers]
      BY <2>2, <2>3, <2>4 DEF Invariant, TypeOK
    <2>6. balance' \in [Cards -> Nat]
      <3>1. Returned(l) - Returned(ledger[r]) \in Nat
        BY <1>1, <2>2, SumsAreAmounts
      <3>2. balance' = [balance EXCEPT ![CardOf[r]] = @ + (Returned(l) - Returned(ledger[r]))]
        BY <1>4 DEF Writes, Pays, l
      <3> QED BY <1>1, <3>1, <3>2 DEF Invariant, TypeOK
    <2>7. Accounted(h.to, l)
      BY <2>2, <2>3 DEF Accounted
    <2>8. LedgersAccounted'
      BY <2>4, <2>7 DEF Invariant, TypeOK, LedgersAccounted
    <2> QED BY <2>5, <2>6, <2>8
  <1> QED BY <1>2, <1>3, <1>4 DEF MoneyMove

-----------------------------------------------------------------------------
(***************************************************************************)
(* Who has locked a card finds it as it was, and what a step does not      *)
(* disturb stays as it was read.                                           *)
(***************************************************************************)
LEMMA BookedStaysBooked ==
  ASSUME Invariant, MoneyMove, NEW r \in Reservations, status[r] # "none"
  PROVE  status'[r] # "none"
  <1>1. ASSUME NEW q \in Reservations, NEW h, Writes(h, q)
        PROVE  status'[r] # "none"
    BY <1>1, HandlerFacts DEF Writes, Invariant, TypeOK
  <1> QED BY <1>1 DEF MoneyMove, NoPayment, Books, Invariant, TypeOK

LEMMA OnlyBookingTakes ==
  ASSUME Invariant, NoPayment \/ \E r \in Reservations : \E h : Writes(h, r)
  PROVE  /\ \A c \in Cards : cardLock[c] # "nobody" => balance'[c] = balance[c]
         /\ \A r \in Reservations : status[r] = "none" => status'[r] = "none"
  <1>1. ASSUME NEW r \in Reservations, NEW h, Writes(h, r)
        PROVE  /\ \A c \in Cards : cardLock[c] # "nobody" => balance'[c] = balance[c]
               /\ \A q \in Reservations : status[q] = "none" => status'[q] = "none"
    <2> DEFINE l == Settles(h, r)
    <2>1. ledger[r] \in Ledgers /\ Booked(ledger[r])
      BY <1>1 DEF Writes, Invariant, TypeOK, LedgersAccounted, Accounted
    <2>2. l \in Ledgers
      BY <1>1, <2>1, HandlersSettle DEF Writes
    <2> HIDE DEF l
    <2>3. Returned(l) \in Nat /\ Returned(ledger[r]) \in Nat
      BY <2>1, <2>2, SumsAreAmounts
    <2>4. Pays(r, l)
      BY <1>1 DEF Writes, l
    <2>5. \A c \in Cards : cardLock[c] # "nobody" => balance'[c] = balance[c]
      BY <2>3, <2>4 DEF Pays, Invariant, TypeOK
    <2> QED BY <1>1, <2>5 DEF Writes, Invariant, TypeOK
  <1> QED BY <1>1 DEF NoPayment

Works == [Threads -> [handler : Handlers \cup {NoWork.handler},
                      res : Reservations \cup {"none"}, changes : BOOLEAN, funds : Nat]]

Undisturbed(u) ==
  /\ work'[u] = work[u]
  /\ Creating(u) =>
       /\ cardLock'[CardOf[work[u].res]] = cardLock[CardOf[work[u].res]]
       /\ balance'[CardOf[work[u].res]] = balance[CardOf[work[u].res]]
       /\ status'[work[u].res] = status[work[u].res]

LEMMA UndisturbedHolds ==
  ASSUME Invariant, MoneyMove, NEW u \in Threads, Undisturbed(u)
  PROVE  ReadsHold(u)'
  <1>1. ReadsHold(u) /\ (~ Idle(u) => work[u].res \in Reservations)
    BY DEF Invariant, ReadsHold
  <1>2. ~ Idle(u) /\ status[work[u].res] # "none" => status'[work[u].res] # "none"
    BY <1>1, BookedStaysBooked
  <1> QED BY <1>1, <1>2, CreateFacts DEF Undisturbed, ReadsHold, Creating, Idle

\* What a transaction is about to do holds as soon as it has read.
LEMMA ReadingHolds ==
  ASSUME Invariant, UNCHANGED <<status, balance>>,
         NEW t \in Threads, NEW h \in Handlers, NEW r \in Reservations, NEW funds \in Nat,
         Reads(t, h, r, funds),
         h = Create => /\ t \in HttpThreads /\ cardLock'[CardOf[r]] = t
                       /\ funds = balance[CardOf[r]] /\ funds >= Deposit
  PROVE  /\ ReadsHold(t)'
         /\ \A u \in Threads \ {t} : work'[u] = work[u]
         /\ work' \in Works
  <1> DEFINE w == [handler |-> h, res |-> r, changes |-> h.to # status[r], funds |-> funds]
  <1>1. w.handler = h /\ w.res = r /\ w.funds = funds /\ w.changes = (h.to # status[r])
    OBVIOUS
  <1>2. w \in [handler : Handlers \cup {NoWork.handler}, res : Reservations \cup {"none"},
               changes : BOOLEAN, funds : Nat]
    OBVIOUS
  <1>3. work' = [work EXCEPT ![t] = w] /\ status[r] \in h.from
    BY DEF Reads
  <1> HIDE DEF w
  <1>4. work'[t] = w /\ \A u \in Threads \ {t} : work'[u] = work[u]
    BY <1>3 DEF Invariant, TypeOK
  <1>5. h # Create => status[r] # "none"
    BY <1>3, HandlerFacts
  <1>6. h = Create => status[r] = "none"
    BY <1>3, CreateFacts
  <1>7. ReadsHold(t)'
    BY <1>1, <1>3, <1>4, <1>5, <1>6 DEF ReadsHold, Creating, Idle
  <1> QED BY <1>2, <1>3, <1>4, <1>7 DEF Invariant, TypeOK, Works

-----------------------------------------------------------------------------
(***************************************************************************)
(* The invariant is inductive.                                             *)
(***************************************************************************)
WorkTyped ==
  /\ work \in Works
  /\ cardLock \in [Cards -> HttpThreads \cup {"nobody"}]
  /\ batch \subseteq Sweeps \X Reservations

Bookkeeping ==
  /\ WorkTyped
  /\ \A t \in Threads : ReadsHold(t)
  /\ LocksHold

\* A thread that rests has nothing to hold.
LEMMA RestingHolds ==
  ASSUME Invariant, NEW t \in Threads, Rest(t)
  PROVE  /\ ReadsHold(t)'
         /\ \A u \in Threads \ {t} : work'[u] = work[u]
         /\ work' \in Works
  <1>1. /\ NoWork.res = "none" /\ NoWork.changes \in BOOLEAN /\ NoWork.funds \in Nat
        /\ NoWork = [handler |-> NoWork.handler, res |-> NoWork.res,
                     changes |-> NoWork.changes, funds |-> NoWork.funds]
    BY DEF NoWork
  <1>2. work'[t] = NoWork /\ \A u \in Threads \ {t} : work'[u] = work[u]
    BY DEF Rest, Invariant, TypeOK
  <1>3. ReadsHold(t)'
    BY <1>2, CreateFacts DEF ReadsHold, Creating, Idle
  <1> QED BY <1>1, <1>2, <1>3 DEF Rest, Invariant, TypeOK, Works

\* Whoever is about to book holds the lock of the card, alone.
LEMMA CreatorsLock ==
  ASSUME Invariant, NEW u \in Threads, Creating(u)
  PROVE  /\ work[u].res \in Reservations /\ CardOf[work[u].res] \in Cards
         /\ u \in HttpThreads /\ u # "nobody" /\ cardLock[CardOf[work[u].res]] = u
         /\ status[work[u].res] = "none"
  <1>1. ~ Idle(u) /\ ReadsHold(u)
    BY CreateFacts DEF Invariant, Creating, Idle
  <1> QED BY <1>1, CardsTyped, ThreadsDiffer DEF ReadsHold

LEMMA CreateBeginsKeeps ==
  ASSUME Invariant, MoneyMove, NEW t \in HttpThreads, NEW r \in Reservations,
         CreateBegins(t, r)
  PROVE  Bookkeeping'
  <1>1. CardOf[r] \in Cards /\ balance[CardOf[r]] \in Nat /\ t \in Threads
    BY CardsTyped DEF Invariant, TypeOK, Threads
  <1>2. cardLock' = [cardLock EXCEPT ![CardOf[r]] = t]
    BY DEF CreateBegins
  <1>3. cardLock'[CardOf[r]] = t
    BY <1>1, <1>2 DEF Invariant, TypeOK
  <1>4. /\ ReadsHold(t)' /\ \A u \in Threads \ {t} : work'[u] = work[u]
        /\ work' \in Works
    BY <1>1, <1>3, CreateFacts, ReadingHolds DEF CreateBegins
  <1>5. ASSUME NEW u \in Threads \ {t} PROVE ReadsHold(u)'
    <2>1. Creating(u) => CardOf[work[u].res] \in Cards /\ CardOf[work[u].res] # CardOf[r]
      BY <1>5, CreatorsLock DEF CreateBegins
    <2>2. Undisturbed(u)
      BY <1>2, <1>4, <1>5, <2>1 DEF Undisturbed, CreateBegins, Invariant, TypeOK
    <2> QED BY <2>2, UndisturbedHolds
  <1>6. WorkTyped'
    <2>1. cardLock' \in [Cards -> HttpThreads \cup {"nobody"}]
      BY <1>2 DEF Invariant, TypeOK
    <2>2. batch' \subseteq Sweeps \X Reservations
      BY DEF CreateBegins, Invariant, TypeOK
    <2> QED BY <1>4, <2>1, <2>2 DEF WorkTyped
  <1>7. LocksHold'
    BY DEF LocksHold, CreateBegins, Invariant
  <1> QED BY <1>4, <1>5, <1>6, <1>7 DEF Bookkeeping

LEMMA ReadingKeeps ==
  ASSUME Invariant, MoneyMove, NEW t \in Threads, NEW h \in Handlers \ {Create},
         NEW r \in Reservations, Reads(t, h, r, 0),
         UNCHANGED <<status, ledger, balance, cardLock, batch, rowLocks>>
  PROVE  Bookkeeping'
  <1>1. /\ ReadsHold(t)' /\ \A u \in Threads \ {t} : work'[u] = work[u]
        /\ work' \in Works
    BY ReadingHolds
  <1>2. \A u \in Threads \ {t} : ReadsHold(u)'
    BY <1>1, UndisturbedHolds DEF Undisturbed
  <1>3. WorkTyped' /\ LocksHold'
    BY <1>1 DEF WorkTyped, Works, LocksHold, Invariant, TypeOK
  <1> QED BY <1>1, <1>2, <1>3 DEF Bookkeeping

LEMMA TerminatesKeeps ==
  ASSUME Invariant, MoneyMove, NEW t \in HttpThreads, NEW r \in Reservations,
         Terminates(t, r)
  PROVE  Bookkeeping'
  <1>1. Writes(AdminTerminate, r)
    BY DEF Terminates, Writes, AdminTerminate, Create, Moves, Handler, Live, Awaited
  <1>2. ASSUME NEW u \in Threads PROVE ReadsHold(u)'
    <2>1. Undisturbed(u)
      BY <1>1, CreatorsLock, OnlyBookingTakes DEF Terminates, Undisturbed
    <2> QED BY <2>1, UndisturbedHolds
  <1>3. WorkTyped'
    BY DEF WorkTyped, Works, Terminates, Invariant, TypeOK
  <1>4. LocksHold'
    <2>1. \A q \in rowLocks : q \in Reservations /\ status'[q] = status[q]
      BY DEF Terminates, Invariant, TypeOK
    <2> QED BY <2>1 DEF LocksHold, Terminates, Invariant
  <1> QED BY <1>2, <1>3, <1>4 DEF Bookkeeping

LEMMA SweepingKeeps ==
  ASSUME Invariant, MoneyMove, NEW h \in Sweeps, NEW rows, NEW r \in Reservations,
         \/ SweepSelects(h, rows) /\ rows \subseteq Reservations
         \/ SweepPasses(h, r)
  PROVE  Bookkeeping'
  <1>1. UNCHANGED <<status, balance, work, cardLock>>
    BY DEF SweepSelects, SweepPasses
  <1>2. \A u \in Threads : ReadsHold(u)'
    BY <1>1, UndisturbedHolds DEF Undisturbed
  <1>3. WorkTyped'
    BY <1>1 DEF WorkTyped, Works, SweepSelects, SweepPasses, Invariant, TypeOK
  <1>4. ASSUME SweepSelects(h, rows) PROVE LocksHold'
    BY <1>4 DEF SweepSelects, LocksHold
  <1>5. ASSUME SweepPasses(h, r) PROVE LocksHold'
    <2>1. \A g \in Sweeps : <<g, r>> \in batch /\ r \in rowLocks => status[r] = SelectedBy(g)
      BY DEF Invariant, LocksHold
    <2>2. r \notin rowLocks
      BY <1>5, <2>1, CreateFacts DEF SweepPasses
    <2> QED BY <1>5, <2>2 DEF SweepPasses, LocksHold, Invariant
  <1> QED BY <1>2, <1>3, <1>4, <1>5 DEF Bookkeeping

LEMMA EndsKeeps ==
  ASSUME Invariant, MoneyMove, NEW t \in Threads, Ends(t)
  PROVE  Bookkeeping'
  <1> DEFINE r == work[t].res
  <1>1. r \in Reservations
    BY DEF Ends, Invariant, ReadsHold
  <1>2. NoPayment \/ \E q \in Reservations : \E h : Writes(h, q)
    BY <1>1, EndMoves
  <1>3. /\ ReadsHold(t)' /\ \A u \in Threads \ {t} : work'[u] = work[u]
        /\ work' \in Works
    BY RestingHolds DEF Ends
  <1>4. ASSUME NEW u \in Threads \ {t} PROVE ReadsHold(u)'
    <2>1. Undisturbed(u)
      BY <1>2, <1>3, <1>4, CreatorsLock, OnlyBookingTakes DEF Ends, Undisturbed
    <2> QED BY <2>1, UndisturbedHolds
  <1>5. WorkTyped'
    BY <1>3 DEF WorkTyped, Works, Ends, Invariant, TypeOK
  <1>6. LocksHold'
    <2>1. CASE t = "sweeper"
      BY <2>1 DEF Ends, LocksHold
    <2>2. CASE t # "sweeper"
      <3>1. \A q \in rowLocks : status'[q] = status[q]
        BY <2>2 DEF Ends, Invariant, TypeOK
      <3> QED BY <2>2, <3>1 DEF Ends, LocksHold, Invariant
    <2> QED BY <2>1, <2>2
  <1> QED BY <1>3, <1>4, <1>5, <1>6 DEF Bookkeeping

LEMMA CreateEndsKeeps ==
  ASSUME Invariant, MoneyMove, NEW t \in Threads, CreateEnds(t)
  PROVE  Bookkeeping'
  <1> DEFINE r == work[t].res
             c == CardOf[r]
  <1>1. r \in Reservations /\ c \in Cards /\ cardLock[c] = t /\ status[r] = "none"
    BY CreatorsLock DEF CreateEnds, Creating
  <1>2. /\ ReadsHold(t)' /\ \A u \in Threads \ {t} : work'[u] = work[u]
        /\ work' \in Works
    BY RestingHolds DEF CreateEnds
  <1>3. ASSUME NEW u \in Threads \ {t} PROVE ReadsHold(u)'
    <2>1. Creating(u) => /\ work[u].res \in Reservations /\ work[u].res # r
                         /\ CardOf[work[u].res] \in Cards /\ CardOf[work[u].res] # c
      BY <1>1, <1>3, CreatorsLock
    <2>2. Undisturbed(u)
      BY <1>1, <1>2, <1>3, <2>1 DEF CreateEnds, Undisturbed, Invariant, TypeOK
    <2> QED BY <2>2, UndisturbedHolds
  <1>4. WorkTyped'
    BY <1>2 DEF WorkTyped, Works, CreateEnds, Invariant, TypeOK
  <1>5. LocksHold'
    <2>1. r \notin rowLocks
      <3>1. \A h \in Sweeps : SelectedBy(h) # "none"
        BY DEF SelectedBy
      <3> QED BY <1>1, <3>1 DEF Invariant, LocksHold
    <2>2. \A q \in rowLocks : status'[q] = status[q]
      BY <2>1 DEF CreateEnds, Invariant, TypeOK
    <2> QED BY <2>2 DEF CreateEnds, LocksHold, Invariant
  <1> QED BY <1>2, <1>3, <1>4, <1>5 DEF Bookkeeping

LEMMA AbortsKeeps ==
  ASSUME Invariant, MoneyMove, NEW t \in Threads, Aborts(t)
  PROVE  Bookkeeping'
  <1>1. /\ ReadsHold(t)' /\ \A u \in Threads \ {t} : work'[u] = work[u]
        /\ work' \in Works
    BY RestingHolds DEF Aborts
  <1>2. ASSUME NEW u \in Threads \ {t} PROVE ReadsHold(u)'
    <2>1. Undisturbed(u)
      BY <1>1, <1>2, CreatorsLock DEF Aborts, Undisturbed
    <2> QED BY <2>1, UndisturbedHolds
  <1>3. WorkTyped' /\ LocksHold'
    BY <1>1 DEF Aborts, WorkTyped, Works, LocksHold, Invariant, TypeOK
  <1> QED BY <1>1, <1>2, <1>3 DEF Bookkeeping

LEMMA BooksAreKept ==
  ASSUME Invariant, [Next]_vars
  PROVE  Bookkeeping'
  <1>1. MoneyMove
    BY MoneyMoves
  <1>2. /\ Requests \cup Messages \cup Sweeps \subseteq Handlers \ {Create}
        /\ HttpThreads \cup {"mqtt", "sweeper"} = Threads
    BY DEF Handlers, Requests, Messages, Sweeps, NoShow, ConflictWeak, Create, Moves, Handler,
           Awaited, Threads
  <1>3. ASSUME NEW t \in HttpThreads, NEW r \in Reservations,
               CreateBegins(t, r) \/ (\E h \in Requests : Begins(t, h, r)) \/ Terminates(t, r)
        PROVE  Bookkeeping'
    BY <1>1, <1>2, <1>3, CreateBeginsKeeps, ReadingKeeps, TerminatesKeeps DEF Begins
  <1>4. ASSUME NEW t \in Threads, CreateEnds(t) \/ Ends(t) \/ Aborts(t)
        PROVE  Bookkeeping'
    BY <1>1, <1>4, CreateEndsKeeps, EndsKeeps, AbortsKeeps
  <1>5. ASSUME NEW h \in Messages, NEW r \in Reservations, Begins("mqtt", h, r)
        PROVE  Bookkeeping'
    BY <1>1, <1>2, <1>5, ReadingKeeps DEF Begins
  <1>6. ASSUME NEW h \in Sweeps, NEW rows \in SUBSET Reservations, SweepSelects(h, rows)
        PROVE  Bookkeeping'
    <2>1. PICK r \in Reservations : r \in rows
      BY <1>6 DEF SweepSelects
    <2> QED BY <1>1, <1>6, SweepingKeeps
  <1>7. ASSUME NEW h \in Sweeps, NEW r \in Reservations, SweepBegins(h, r) \/ SweepPasses(h, r)
        PROVE  Bookkeeping'
    BY <1>1, <1>2, <1>7, ReadingKeeps, SweepingKeeps DEF SweepBegins
  <1>8. CASE UNCHANGED vars
    BY <1>8 DEF vars, Bookkeeping, WorkTyped, Works, Invariant, TypeOK, ReadsHold, Creating,
                Idle, LocksHold
  <1> QED BY <1>3, <1>4, <1>5, <1>6, <1>7, <1>8 DEF Next

LEMMA InvariantHolds == Spec => []Invariant
  <1>1. Invariant /\ [Next]_vars => Invariant'
    <2> SUFFICES ASSUME Invariant, [Next]_vars PROVE Invariant'
      OBVIOUS
    <2>1. /\ status' \in [Reservations -> Statuses]
          /\ ledger' \in [Reservations -> Ledgers]
          /\ balance' \in [Cards -> Nat]
          /\ LedgersAccounted'
      BY MoneyMoves, TablesStayTyped
    <2>2. Bookkeeping'
      BY BooksAreKept
    <2> QED BY <2>1, <2>2 DEF Invariant, Bookkeeping, WorkTyped, Works, LocksHold, TypeOK
  <1> QED BY <1>1, InvariantHoldsAtFirst, PTL DEF Spec

\* The tables hold values of their columns' types, and no card is overdrawn,
\* although create writes a balance that it has read earlier.
THEOREM TransactionsTyped == Spec => []TypeOK
  BY InvariantHolds, PTL DEF Invariant

\* Whichever handlers race for a reservation, once it is over, or in weak
\* conflict, its deposit is paid out in full.
THEOREM EndsAreSettled == Spec => []EndIsSettled
  <1>1. Invariant => EndIsSettled
    BY EmptyLedger
       DEF Invariant, LedgersAccounted, Accounted, Booked, Over, Terminal, EndIsSettled
  <1> QED BY <1>1, InvariantHolds, PTL

-----------------------------------------------------------------------------
\* Lost updates of the status do not reach the money: the payments and the
\* cards are the escrow of Deposit.tla under every interleaving of the
\* transactions.
THEOREM RacesKeepEscrow == Spec => EscrowUnderRaces
  <1>1. Init => D!Init
    BY EmptyLedger DEF Init, D!Init
  <1>2. Invariant /\ [Next]_vars => [D!Next]_(D!vars)
    <2> SUFFICES ASSUME Invariant, [Next]_vars
                 PROVE  D!Next \/ UNCHANGED D!vars
      OBVIOUS
    <2>1. CASE NoPayment
      BY <2>1 DEF NoPayment, D!vars
    <2>2. ASSUME NEW r \in Reservations, Books(r)
          PROVE  D!Next
      <3>1. ledger[r] = NoRows
        BY <2>2 DEF Books, Invariant, LedgersAccounted, Accounted
      <3>2. ledger' = [ledger EXCEPT ![r] = Preauthorize(NoRows)]
        BY <2>2, <3>1 DEF Books
      <3>3. /\ Phase(ledger[r]) = "none" /\ Phase(Preauthorize(NoRows)) = "held"
            /\ Captured(ledger[r]) = 0 /\ Captured(Preauthorize(NoRows)) = 0
        BY <3>1, EmptyLedger, HeldLedger
      <3>4. /\ [q \in Reservations |-> Phase(ledger[q])]'
                 = [[q \in Reservations |-> Phase(ledger[q])] EXCEPT ![r] = "held"]
            /\ [q \in Reservations |-> Captured(ledger[q])]'
                 = [q \in Reservations |-> Captured(ledger[q])]
        BY <3>2, <3>3 DEF Invariant, TypeOK
      <3>5. D!Hold(r)
        BY <2>2, <3>3, <3>4 DEF Books, D!Hold
      <3> QED BY <3>5 DEF D!Next
    <2>3. ASSUME NEW r \in Reservations, NEW h, Writes(h, r)
          PROVE  D!Next \/ UNCHANGED D!vars
      <3> DEFINE l == Settles(h, r)
      <3>1. ledger[r] \in Ledgers /\ Booked(ledger[r])
        BY <2>3 DEF Writes, Invariant, TypeOK, LedgersAccounted, Accounted
      <3>2. /\ l \in Ledgers /\ Booked(l)
            /\ \/ l = ledger[r]
               \/ /\ Spent(ledger[r]) = 0 /\ Spent(l) = Deposit
                  /\ Captured(l) \in {0, D!Agreed}
        BY <2>3, <3>1, HandlersSettle DEF Writes
      <3>3. Pays(r, l)
        BY <2>3 DEF Writes
      <3> HIDE DEF l
      <3>4. CASE l = ledger[r]
        <4>1. ledger' = ledger /\ balance' = balance
          BY <3>3, <3>4, PayingNothing DEF Invariant
        <4> QED BY <4>1 DEF D!vars
      <3>5. CASE l # ledger[r]
        <4>1. Phase(ledger[r]) = "held" /\ Phase(l) = "settled"
          BY <3>1, <3>2, <3>5, PhaseOfBooking, AmountsPositive
        <4>2. ledger' = [ledger EXCEPT ![r] = l]
          BY <3>3 DEF Pays
        <4>3. Returned(l) - Returned(ledger[r]) = Deposit - Captured(l)
          BY <3>1, <3>2, <3>5, SumsAreAmounts, AmountsPositive
        <4>4. balance' = [balance EXCEPT ![CardOf[r]] = @ + (Deposit - Captured(l))]
          BY <3>3, <4>3 DEF Pays
        <4>5. /\ [q \in Reservations |-> Phase(ledger[q])]'
                   = [[q \in Reservations |-> Phase(ledger[q])] EXCEPT ![r] = "settled"]
              /\ [q \in Reservations |-> Captured(ledger[q])]'
                   = [[q \in Reservations |-> Captured(ledger[q])] EXCEPT ![r] = Captured(l)]
          BY <4>1, <4>2 DEF Invariant, TypeOK
        <4>6. D!Settle(r, Captured(l))
          BY <4>1, <4>4, <4>5 DEF D!Settle
        <4> QED BY <3>2, <3>5, <4>6 DEF D!Next
      <3> QED BY <3>4, <3>5
    <2> QED BY <2>1, <2>2, <2>3, MoneyMoves DEF MoneyMove
  <1> QED BY <1>1, <1>2, InvariantHolds, PTL DEF Spec, EscrowUnderRaces, D!Spec

=============================================================================

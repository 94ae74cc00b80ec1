------------------------------ MODULE Transactions ------------------------------
(***************************************************************************)
(* The handlers of Backend as the READ COMMITTED transactions they are:    *)
(* each reads the status of a reservation, decides, and only then writes.  *)
(* The UPDATE that writes the status waits for the row; what the payments  *)
(* are computed from is read after it.  From there to the commit nobody    *)
(* else can come in between, so that the rest of a transaction is one step.*)
(* Two reads lock at once: the sweeper's, for as long as its first commit  *)
(* is not made, and create's of the card.                                  *)
(*                                                                         *)
(* Every reservation has a bay of its own here: what two reservations of a *)
(* bay do to each other, the mirror and the clocks are Backend's.          *)
(***************************************************************************)
EXTENDS Payments

CONSTANTS Reservations, Cards, CardOf, OpeningBalance,
          HttpThreads   \* request workers

Threads == HttpThreads \cup {"mqtt", "sweeper"}

ASSUME CardsTyped == CardOf \in [Reservations -> Cards] /\ OpeningBalance \in Nat
ASSUME ThreadsDiffer == HttpThreads \cap {"mqtt", "sweeper", "nobody"} = {}

VARIABLES
  status, ledger, balance,   \* committed
  work,      \* per thread: its transaction, and what it has read
  cardLock,  \* the thread that has a card for update, or "nobody"
  batch,     \* rows the sweeper has selected and not handled yet
  rowLocks   \* rows it has for update

vars == <<status, ledger, balance, work, cardLock, batch, rowLocks>>

-----------------------------------------------------------------------------
Awaited  == {"active", "pending_check_in"}
Live     == Awaited \cup {"checked_in", "in_conflict"}
Terminal == {"cancelled", "cancelled_late", "completed", "expired_no_show"}
Statuses == {"none"} \cup Live \cup Terminal

\* What each handler does to the reservation it has found in a status of from:
\* the status it writes, and the penalty (with what remains of the deposit
\* released) or the kind of return it enters.
Handler(from, to, penalty, return) ==
  [from |-> from, to |-> to, penalty |-> penalty, return |-> return]
Moves(from, to) == Handler(from, to, "none", "none")

Requests == {
  Handler(Awaited, "cancelled", "none", "release:clean_cancel"),
  Handler(Awaited, "cancelled_late", "penalty:late_cancel", "none"),
  Handler(Awaited, "cancelled", "none", "refund"),   \* under a strong conflict
  Moves({"pending_check_in", "in_conflict"}, "checked_in") }

Messages == {
  Moves(Awaited, "pending_check_in"),                \* pending_check_in
  Moves(Awaited, "checked_in"),                      \* auto_check_in, check_in_confirmed
  Moves({"pending_check_in"}, "active"),             \* conflict_strong, restore, rollback
  Handler({"pending_check_in", "checked_in", "in_conflict"},
          "completed", "none", "release:completed") }

NoShow       == Handler(Awaited, "expired_no_show", "penalty:no_show", "none")
ConflictWeak == Handler(Awaited, "in_conflict", "penalty:weak_conflict", "none")
Sweeps       == {NoShow, ConflictWeak}
SelectedBy(h) == IF h = NoShow THEN "active" ELSE "pending_check_in"
Create       == Moves({"none"}, "active")
AdminTerminate == Handler(Live, "cancelled", "none", "refund")

Handlers == Requests \cup Messages \cup Sweeps \cup {Create}

SettlesIfAsRead(h, r) ==   \* slip: who comes too late writes the status only
  LET l == ledger[r] IN
  IF status[r] \notin h.from THEN l
  ELSE CASE h.penalty # "none" -> SettleBreach(l, h.penalty)
         [] h.return # "none"  -> PayBack(l, h.return)
         [] OTHER              -> l

Settles(h, r) ==
  LET l == ledger[r] IN
  CASE h.penalty # "none" -> SettleBreach(l, h.penalty)
    [] h.return # "none"  -> PayBack(l, h.return)
    [] OTHER              -> l

-----------------------------------------------------------------------------
NoWork == [handler |-> Moves({}, "none"), res |-> "none", changes |-> FALSE, funds |-> 0]
Idle(t) == work[t] = NoWork
Rest(t) == work' = [work EXCEPT ![t] = NoWork]

\* The ORM updates the columns that differ from what it has read.
Reads(t, h, r, funds) ==
  /\ Idle(t)
  /\ status[r] \in h.from
  /\ work' = [work EXCEPT ![t] =
       [handler |-> h, res |-> r, changes |-> h.to # status[r], funds |-> funds]]

Pays(r, l) ==
  /\ ledger' = [ledger EXCEPT ![r] = l]
  /\ Returned(l) # Returned(ledger[r]) => cardLock[CardOf[r]] = "nobody"
  /\ balance' = [balance EXCEPT ![CardOf[r]] = @ + (Returned(l) - Returned(ledger[r]))]

-----------------------------------------------------------------------------
Init ==
  /\ status = [r \in Reservations |-> "none"]
  /\ ledger = [r \in Reservations |-> NoRows]
  /\ balance = [c \in Cards |-> OpeningBalance]
  /\ work = [t \in Threads |-> NoWork]
  /\ cardLock = [c \in Cards |-> "nobody"]
  /\ batch = {} /\ rowLocks = {}

-----------------------------------------------------------------------------
CreateReadsOnly(t, r) ==   \* slip: the card is read and not locked
  /\ \A u \in Threads : work[u].res # r
  /\ cardLock[CardOf[r]] = "nobody"
  /\ balance[CardOf[r]] >= Deposit
  /\ Reads(t, Create, r, balance[CardOf[r]])
  /\ UNCHANGED <<status, ledger, balance, cardLock, batch, rowLocks>>

CreateOnCredit(t, r) ==   \* slip: the balance is not looked at
  /\ \A u \in Threads : work[u].res # r
  /\ cardLock[CardOf[r]] = "nobody"
  /\ Reads(t, Create, r, balance[CardOf[r]])
  /\ cardLock' = [cardLock EXCEPT ![CardOf[r]] = t]
  /\ UNCHANGED <<status, ledger, balance, batch, rowLocks>>

\* validate_card locks the card and looks at its balance.
CreateBegins(t, r) ==
  /\ \A u \in Threads : work[u].res # r
  /\ cardLock[CardOf[r]] = "nobody"
  /\ balance[CardOf[r]] >= Deposit
  /\ Reads(t, Create, r, balance[CardOf[r]])
  /\ cardLock' = [cardLock EXCEPT ![CardOf[r]] = t]
  /\ UNCHANGED <<status, ledger, balance, batch, rowLocks>>

CreateEnds(t) ==
  LET r == work[t].res IN
  /\ work[t].handler = Create
  /\ status' = [status EXCEPT ![r] = Create.to]
  /\ ledger' = [ledger EXCEPT ![r] = Preauthorize(@)]
  /\ balance' = [balance EXCEPT ![CardOf[r]] = work[t].funds - Deposit]
  /\ cardLock' = [cardLock EXCEPT ![CardOf[r]] = "nobody"]
  /\ Rest(t)
  /\ UNCHANGED <<batch, rowLocks>>

-----------------------------------------------------------------------------
\* cancel, check_in, the handlers of the Pi's messages: a plain SELECT.
Begins(t, h, r) ==
  /\ Reads(t, h, r, 0)
  /\ UNCHANGED <<status, ledger, balance, cardLock, batch, rowLocks>>

\* admin_terminate selects for update: what it has read is what it overwrites.
Terminates(t, r) ==
  /\ Idle(t)
  /\ r \notin rowLocks
  /\ status[r] \in AdminTerminate.from
  /\ status' = [status EXCEPT ![r] = AdminTerminate.to]
  /\ Pays(r, Settles(AdminTerminate, r))
  /\ UNCHANGED <<work, cardLock, batch, rowLocks>>

\* run_once selects overdue rows, or pending ones past their grace, for update,
\* and hands one after the other to the event dispatcher.  Which ones the
\* clock lets it find is left open.
SweepSelects(h, rows) ==
  /\ Idle("sweeper") /\ batch = {} /\ rows # {}
  /\ \A r \in rows : status[r] = SelectedBy(h)
  /\ batch' = {<<h, r>> : r \in rows}
  /\ rowLocks' = rows
  /\ UNCHANGED <<status, ledger, balance, work, cardLock>>

\* The dispatcher's handler looks for itself, and after the first commit
\* without any lock.
SweepBegins(h, r) ==
  /\ <<h, r>> \in batch
  /\ Reads("sweeper", h, r, 0)
  /\ UNCHANGED <<status, ledger, balance, cardLock, batch, rowLocks>>

SweepPasses(h, r) ==
  /\ Idle("sweeper")
  /\ <<h, r>> \in batch
  /\ status[r] \notin h.from
  /\ batch' = batch \ {<<h, r>>}
  /\ UNCHANGED <<status, ledger, balance, work, cardLock, rowLocks>>

\* The UPDATE, the payments and the commit.
Ends(t) ==
  LET h == work[t].handler
      r == work[t].res
  IN
  /\ ~ Idle(t) /\ h # Create
  /\ t # "sweeper" => r \notin rowLocks
  /\ status' = [status EXCEPT ![r] = IF work[t].changes THEN h.to ELSE @]
  /\ Pays(r, Settles(h, r))
  /\ Rest(t)
  /\ batch' = IF t = "sweeper" THEN batch \ {<<h, r>>} ELSE batch
  /\ rowLocks' = IF t = "sweeper" THEN {} ELSE rowLocks
  /\ UNCHANGED cardLock

\* A constraint, the deadlock detector or the end of the process.
Aborts(t) ==
  /\ ~ Idle(t)
  /\ Rest(t)
  /\ cardLock' = [c \in Cards |-> IF cardLock[c] = t THEN "nobody" ELSE cardLock[c]]
  /\ batch' = IF t = "sweeper" THEN {} ELSE batch
  /\ rowLocks' = IF t = "sweeper" THEN {} ELSE rowLocks
  /\ UNCHANGED <<status, ledger, balance>>

-----------------------------------------------------------------------------
Next ==
  \/ \E t \in HttpThreads, r \in Reservations :
       \/ CreateBegins(t, r)
       \/ \E h \in Requests : Begins(t, h, r)
       \/ Terminates(t, r)
  \/ \E t \in Threads : CreateEnds(t) \/ Ends(t) \/ Aborts(t)
  \/ \E h \in Messages, r \in Reservations : Begins("mqtt", h, r)
  \/ \E h \in Sweeps :
       \/ \E rows \in SUBSET Reservations : SweepSelects(h, rows)
       \/ \E r \in Reservations : SweepBegins(h, r) \/ SweepPasses(h, r)

Spec == Init /\ [][Next]_vars

-----------------------------------------------------------------------------
(***************************************************************************)
(* Properties                                                              *)
(***************************************************************************)

\* The tables hold values of their columns' types; no card is overdrawn.
TypeOK ==
  /\ status \in [Reservations -> Statuses]
  /\ ledger \in [Reservations -> Ledgers]
  /\ balance \in [Cards -> Nat]
  /\ work \in [Threads -> [handler : Handlers \cup {NoWork.handler},
                           res : Reservations \cup {"none"}, changes : BOOLEAN, funds : Nat]]
  /\ cardLock \in [Cards -> HttpThreads \cup {"nobody"}]
  /\ batch \subseteq Sweeps \X Reservations
  /\ \A r \in rowLocks : \E h \in Sweeps : <<h, r>> \in batch

\* Whatever was decided on a status that is no longer true, a reservation that
\* is over has paid everything out, and one that is in weak conflict too.
EndIsSettled ==
  \A r \in Reservations :
    /\ status[r] \in Terminal \cup {"in_conflict"} => Spent(ledger[r]) = Deposit
    /\ ledger[r]["pre_auth"] = IF status[r] = "none" THEN 0 ELSE Deposit

\* And lost updates of the status lose no money: the payments and the cards
\* still are the escrow of Deposit.tla, settled once and with one penalty at
\* the most.
Phase(l) == CASE l = NoRows -> "none"
              [] l = Preauthorize(NoRows) -> "held"
              [] OTHER -> "settled"

D == INSTANCE Deposit WITH
       Bookings <- Reservations,
       phase <- [r \in Reservations |-> Phase(ledger[r])],
       captured <- [r \in Reservations |-> Captured(ledger[r])]

EscrowUnderRaces == D!Spec

=============================================================================

---------------------------- MODULE MCTransactions ----------------------------
\* Constants for TLC: one card, which can pay for one deposit at a time.
EXTENDS Transactions, TLC

CONSTANTS r1, r2, c1, http1, http2

OneCard == [r \in Reservations |-> c1]

\* Bookings are interchangeable, and so are request workers.
Symmetry == Permutations({r1, r2}) \cup Permutations({http1, http2})

\* No action or property asks how a reservation ended, nor under which keys a
\* settled deposit was paid out: with nothing left of it every writer is idle.
Seen ==
  <<[r \in Reservations |-> IF status[r] \in Terminal THEN "over" ELSE status[r]],
    [r \in Reservations |-> <<Phase(ledger[r]), Spent(ledger[r]), Captured(ledger[r])>>],
    balance, work, cardLock, batch, rowLocks>>

=============================================================================

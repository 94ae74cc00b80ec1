----------------------------- MODULE MCParkReserve -----------------------------
\* Constants for TLC: one card, and a vehicle for each holder.
EXTENDS ParkReserve

CONSTANTS v1, v2, c1

OneCard == [r \in Reservations |-> c1]
Holders == [r \in Reservations |-> IF r = 1 THEN v1 ELSE v2]

\* No action reads the money (the balance is enough), the bay's pointer, what
\* the Pi said last, how a reservation ended, or what concerns one that did.
Live(r) == status[r] \in B!LiveStatuses
Rest(r) == IF B!Awaited(r) THEN <<arrival[r], grace[r], \E id \in bayEvents : id[1] = r>> ELSE <<>>
Seen ==
  <<[r \in Reservations |-> IF status[r] \in B!TerminalStatuses THEN "over" ELSE status[r]],
    [r \in Reservations |-> Rest(r)], {c \in unheard : Live(c.res)},
    mirror, conflict, outbox, state, cached, graceOver, present, timer, waiting,
    vehicle, down, up, linkVars, mishap>>

=============================================================================

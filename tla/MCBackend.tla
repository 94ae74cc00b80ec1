------------------------------- MODULE MCBackend -------------------------------
\* Constants for TLC: one card pays for everything; a penalty that leaves a
\* remainder; a balance that cannot pay for two deposits at once.
EXTENDS Backend

CONSTANTS b1, c1

OneBay      == [r \in Reservations |-> b1]
OneCard     == [r \in Reservations |-> c1]
NoMessage   == {}
Confirmation == {<<b1, "event", "check_in_confirmed">>}

\* No action reads the times of a reservation that is not awaited (any more, or
\* ever again): states that differ in them alone are the same state.  Used by
\* the safety runs only.
Times(r) == IF Awaited(r) THEN <<arrival[r], windowOver[r], grace[r]>> ELSE <<>>
WithoutPastTimes ==
  <<status, [r \in Reservations |-> Times(r)], bayVars, conflict, moneyVars, bayEvents, outbox>>

=============================================================================

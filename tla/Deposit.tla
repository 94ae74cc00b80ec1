-------------------------------- MODULE Deposit --------------------------------
(***************************************************************************)
(* What a deposit promises to the holder of a card, with no word of rows,  *)
(* keys, statuses or bays: a booking moves the whole deposit from the card *)
(* into escrow; one single settlement, whose captured part is the agreed   *)
(* penalty or nothing, moves all the rest back; then nothing moves again.  *)
(***************************************************************************)
EXTENDS Integers

CONSTANTS Bookings, Cards, CardOf, OpeningBalance, Deposit, Penalty

VARIABLES phase,    \* of the escrow of each booking
          captured, \* what the facility kept of it
          balance   \* of each card

vars == <<phase, captured, balance>>

Agreed == IF Penalty <= Deposit THEN Penalty ELSE Deposit

Init ==
  /\ phase = [r \in Bookings |-> "none"]
  /\ captured = [r \in Bookings |-> 0]
  /\ balance = [c \in Cards |-> OpeningBalance]

Hold(r) ==
  /\ phase[r] = "none"
  /\ balance[CardOf[r]] >= Deposit
  /\ phase' = [phase EXCEPT ![r] = "held"]
  /\ balance' = [balance EXCEPT ![CardOf[r]] = @ - Deposit]
  /\ UNCHANGED captured

Settle(r, kept) ==
  /\ phase[r] = "held"
  /\ phase' = [phase EXCEPT ![r] = "settled"]
  /\ captured' = [captured EXCEPT ![r] = kept]
  /\ balance' = [balance EXCEPT ![CardOf[r]] = @ + (Deposit - kept)]

Next == \E r \in Bookings : Hold(r) \/ \E kept \in {0, Agreed} : Settle(r, kept)

Spec == Init /\ [][Next]_vars

=============================================================================

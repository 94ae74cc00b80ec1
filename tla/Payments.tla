------------------------------- MODULE Payments -------------------------------
(***************************************************************************)
(* The deposit arithmetic of payment_service.py.                           *)
(*                                                                         *)
(* The payments of one reservation are a function from idempotency key to  *)
(* the amount of the row stored under that key.  Every key occurs at most  *)
(* once (payments.idempotency_key is unique) and an amount of 0 stands for *)
(* "no row": preauthorize, release, charge_penalty and refund never insert *)
(* a zero amount as long as deposit and penalty are positive.              *)
(***************************************************************************)
EXTENDS Naturals

CONSTANTS Deposit,   \* settings.deposit_cents
          Penalty    \* settings.penalty_cents

ASSUME AmountsPositive == Deposit \in Nat \ {0} /\ Penalty \in Nat \ {0}

-----------------------------------------------------------------------------
ReturnKeys  == {"release:clean_cancel", "release:completed",
                "release:remainder", "refund"}
PenaltyKeys == {"penalty:late_cancel", "penalty:no_show",
                "penalty:weak_conflict"}
Keys        == {"pre_auth"} \cup ReturnKeys \cup PenaltyKeys

Ledgers == [Keys -> Nat]

NoRows == [k \in Keys |-> 0]

\* What went back to the card, and what the facility kept.
Returned(l) == l["release:clean_cancel"] + l["release:completed"]
                 + l["release:remainder"] + l["refund"]

Captured(l) == l["penalty:late_cancel"] + l["penalty:no_show"]
                 + l["penalty:weak_conflict"]

Spent(l) == Returned(l) + Captured(l)

RemainingOfReturns(l) ==   \* slip: penalties are left out of the sum
  IF Returned(l) >= l["pre_auth"] THEN 0 ELSE l["pre_auth"] - Returned(l)

\* The remaining deposit, clamped at zero as the code clamps it.
Remaining(l) == IF Spent(l) >= l["pre_auth"] THEN 0 ELSE l["pre_auth"] - Spent(l)

HasRow(l, key) == l[key] # 0

Lesser(m, n) == IF m <= n THEN m ELSE n

-----------------------------------------------------------------------------
(***************************************************************************)
(* The four writers.  Each is the identity when its row already exists,    *)
(* and the last three also when nothing remains of the deposit (or there   *)
(* was none): the row they would write has amount 0.                       *)
(***************************************************************************)
Preauthorize(l) ==
  IF HasRow(l, "pre_auth") THEN l ELSE [l EXCEPT !["pre_auth"] = Deposit]

\* release(reason) and refund() both hand the whole remainder back.
PayBack(l, key) ==
  IF HasRow(l, key) THEN l ELSE [l EXCEPT ![key] = Remaining(l)]

ChargePenalty(l, key) ==
  IF HasRow(l, key) THEN l ELSE [l EXCEPT ![key] = Lesser(Penalty, Remaining(l))]

SettleBreachHalfway(l, key) == ChargePenalty(l, key)   \* slip: no release

\* charge_penalty followed by release("remainder"), as every breach does.
SettleBreach(l, key) == PayBack(ChargePenalty(l, key), "release:remainder")

=============================================================================

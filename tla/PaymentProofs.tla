----------------------------- MODULE PaymentProofs -----------------------------
(***************************************************************************)
(* What the writers of Payments.tla do to a ledger, for every deposit and  *)
(* every penalty.                                                          *)
(***************************************************************************)
EXTENDS Payments, TLAPS

\* The sums over a ledger, and what remains of it, are amounts.
LEMMA SumsAreAmounts ==
  ASSUME NEW l \in Ledgers
  PROVE  /\ Returned(l) \in Nat
         /\ Captured(l) \in Nat
         /\ Spent(l) = Returned(l) + Captured(l)
         /\ Remaining(l) \in Nat
         /\ Spent(l) <= l["pre_auth"] => Remaining(l) = l["pre_auth"] - Spent(l)
  BY DEF Ledgers, Keys, ReturnKeys, PenaltyKeys, Returned, Captured, Spent, Remaining

\* While nothing is spent there is no row but the pre-authorisation.
LEMMA NothingSpent ==
  ASSUME NEW l \in Ledgers
  PROVE  Spent(l) = 0 <=> \A k \in ReturnKeys \cup PenaltyKeys : l[k] = 0
  <1>1. \A k \in Keys : l[k] \in Nat
    BY DEF Ledgers
  <1>2. ASSUME Spent(l) = 0 PROVE \A k \in ReturnKeys \cup PenaltyKeys : l[k] = 0
    <2>1. Returned(l) = 0 /\ Captured(l) = 0
      BY <1>2, SumsAreAmounts
    <2>2. \A k \in ReturnKeys : l[k] = 0
      <3>1. /\ l["release:clean_cancel"] \in Nat /\ l["release:completed"] \in Nat
            /\ l["release:remainder"] \in Nat /\ l["refund"] \in Nat
        BY <1>1 DEF Keys, ReturnKeys
      <3>2. /\ l["release:clean_cancel"] = 0 /\ l["release:completed"] = 0
            /\ l["release:remainder"] = 0 /\ l["refund"] = 0
        <4>1. \A a, b, c, d \in Nat : a + b + c + d = 0 => a = 0 /\ b = 0 /\ c = 0 /\ d = 0
          OBVIOUS
        <4>2. l["release:clean_cancel"] + l["release:completed"]
                + l["release:remainder"] + l["refund"] = 0
          BY <2>1 DEF Returned
        <4> QED BY <3>1, <4>1, <4>2
      <3> QED BY <3>2 DEF ReturnKeys
    <2>3. \A k \in PenaltyKeys : l[k] = 0
      <3>1. /\ l["penalty:late_cancel"] \in Nat /\ l["penalty:no_show"] \in Nat
            /\ l["penalty:weak_conflict"] \in Nat
        BY <1>1 DEF Keys, PenaltyKeys
      <3>2. /\ l["penalty:late_cancel"] = 0 /\ l["penalty:no_show"] = 0
            /\ l["penalty:weak_conflict"] = 0
        BY <2>1, <3>1 DEF Captured
      <3> QED BY <3>2 DEF PenaltyKeys
    <2> QED BY <2>2, <2>3
  <1>3. ASSUME \A k \in ReturnKeys \cup PenaltyKeys : l[k] = 0 PROVE Spent(l) = 0
    BY <1>3 DEF Spent, Returned, Captured, ReturnKeys, PenaltyKeys
  <1> QED BY <1>2, <1>3

\* One row more of a return key raises what was returned by its amount.
LEMMA ReturnRow ==
  ASSUME NEW l \in Ledgers, NEW key \in ReturnKeys, ~ HasRow(l, key), NEW n \in Nat
  PROVE  LET m == [l EXCEPT ![key] = n] IN
         /\ m \in Ledgers
         /\ \A k \in PenaltyKeys \cup {"pre_auth"} : m[k] = l[k]
         /\ Returned(m) = Returned(l) + n
         /\ Captured(m) = Captured(l)
  <1> DEFINE m == [l EXCEPT ![key] = n]
  <1>1. m \in Ledgers /\ \A k \in Keys : m[k] = IF k = key THEN n ELSE l[k]
    BY DEF Ledgers, Keys
  <1>2. l[key] = 0 /\ \A k \in Keys : l[k] \in Nat
    BY DEF HasRow, Ledgers, Keys
  <1>3. \A k \in PenaltyKeys \cup {"pre_auth"} : m[k] = l[k]
    BY <1>1 DEF Keys, ReturnKeys, PenaltyKeys
  <1>4. Captured(m) = Captured(l)
    BY <1>3 DEF Captured, PenaltyKeys
  <1>5. Returned(m) = Returned(l) + n
    <2> HIDE DEF m
    <2> QED BY <1>1, <1>2 DEF Returned, ReturnKeys, Keys
  <1> QED BY <1>1, <1>3, <1>4, <1>5

\* One row more of a penalty key raises what was captured by its amount.
LEMMA PenaltyRow ==
  ASSUME NEW l \in Ledgers, NEW key \in PenaltyKeys, ~ HasRow(l, key), NEW n \in Nat
  PROVE  LET m == [l EXCEPT ![key] = n] IN
         /\ m \in Ledgers
         /\ \A k \in Keys \ {key} : m[k] = l[k]
         /\ m[key] = n
         /\ Captured(m) = Captured(l) + n
         /\ Returned(m) = Returned(l)
  <1> DEFINE m == [l EXCEPT ![key] = n]
  <1>1. m \in Ledgers /\ \A k \in Keys : m[k] = IF k = key THEN n ELSE l[k]
    BY DEF Ledgers, Keys
  <1>2. l[key] = 0 /\ \A k \in Keys : l[k] \in Nat
    BY DEF HasRow, Ledgers, Keys
  <1>3. \A k \in ReturnKeys : m[k] = l[k]
    BY <1>1 DEF Keys, ReturnKeys, PenaltyKeys
  <1>4. Returned(m) = Returned(l)
    BY <1>3 DEF Returned, ReturnKeys
  <1>5. Captured(m) = Captured(l) + n
    <2> HIDE DEF m
    <2> QED BY <1>1, <1>2 DEF Captured, PenaltyKeys, Keys
  <1>6. key \in Keys
    BY DEF Keys
  <1> QED BY <1>1, <1>4, <1>5, <1>6

\* PayBack never takes money from the card and touches no penalty.
LEMMA PayBackReturns ==
  ASSUME NEW l \in Ledgers, NEW key \in ReturnKeys
  PROVE  /\ PayBack(l, key) \in Ledgers
         /\ \A k \in PenaltyKeys \cup {"pre_auth"} : PayBack(l, key)[k] = l[k]
         /\ Captured(PayBack(l, key)) = Captured(l)
         /\ Returned(PayBack(l, key)) >= Returned(l)
  <1>1. CASE HasRow(l, key)
    BY <1>1, SumsAreAmounts DEF PayBack
  <1>2. CASE ~ HasRow(l, key)
    <2> DEFINE m == [l EXCEPT ![key] = Remaining(l)]
    <2>1. /\ m \in Ledgers
          /\ \A k \in PenaltyKeys \cup {"pre_auth"} : m[k] = l[k]
          /\ Returned(m) = Returned(l) + Remaining(l)
          /\ Captured(m) = Captured(l)
      BY <1>2, SumsAreAmounts, ReturnRow
    <2>2. PayBack(l, key) = m
      BY <1>2 DEF PayBack
    <2> HIDE DEF m
    <2> QED BY <2>1, <2>2, SumsAreAmounts
  <1> QED BY <1>1, <1>2

\* An untouched deposit goes back whole, and one already spent stays so.
LEMMA PayBackSettles ==
  ASSUME NEW l \in Ledgers, NEW key \in ReturnKeys,
         Spent(l) <= l["pre_auth"], Spent(l) # l["pre_auth"] => l[key] = 0
  PROVE  Spent(PayBack(l, key)) = l["pre_auth"]
  <1>0. l["pre_auth"] \in Nat
    BY DEF Ledgers, Keys
  <1>1. CASE HasRow(l, key)
    BY <1>1 DEF PayBack, HasRow
  <1>2. CASE ~ HasRow(l, key)
    <2> DEFINE m == [l EXCEPT ![key] = Remaining(l)]
    <2>1. /\ m \in Ledgers
          /\ Returned(m) = Returned(l) + Remaining(l)
          /\ Captured(m) = Captured(l)
      BY <1>2, SumsAreAmounts, ReturnRow
    <2>2. PayBack(l, key) = m
      BY <1>2 DEF PayBack
    <2> HIDE DEF m
    <2> QED BY <1>0, <2>1, <2>2, SumsAreAmounts
  <1> QED BY <1>1, <1>2

\* charge_penalty writes its own row and no other, of at most what remains.
LEMMA PenaltyCharges ==
  ASSUME NEW l \in Ledgers, NEW key \in PenaltyKeys
  PROVE  /\ ChargePenalty(l, key) \in Ledgers
         /\ \A k \in Keys \ {key} : ChargePenalty(l, key)[k] = l[k]
         /\ Returned(ChargePenalty(l, key)) = Returned(l)
         /\ Spent(l) = 0 => /\ ChargePenalty(l, key)[key] = Lesser(Penalty, l["pre_auth"])
                           /\ Captured(ChargePenalty(l, key)) = Lesser(Penalty, l["pre_auth"])
  <1>0. l["pre_auth"] \in Nat /\ l[key] \in Nat
    BY DEF Ledgers, Keys
  <1>1. CASE HasRow(l, key)
    <2>1. ChargePenalty(l, key) = l
      BY <1>1 DEF ChargePenalty
    <2>2. Spent(l) # 0
      BY <1>1, NothingSpent DEF HasRow
    <2> QED BY <2>1, <2>2
  <1>2. CASE ~ HasRow(l, key)
    <2> DEFINE n == Lesser(Penalty, Remaining(l))
               m == [l EXCEPT ![key] = n]
    <2>1. n \in Nat
      BY SumsAreAmounts, AmountsPositive DEF Lesser
    <2>2. /\ m \in Ledgers
          /\ \A k \in Keys \ {key} : m[k] = l[k]
          /\ m[key] = n
          /\ Captured(m) = Captured(l) + n
          /\ Returned(m) = Returned(l)
      <3> HIDE DEF n
      <3> QED BY <1>2, <2>1, PenaltyRow
    <2>3. ChargePenalty(l, key) = m
      BY <1>2 DEF ChargePenalty
    <2>4. Spent(l) = 0 => n = Lesser(Penalty, l["pre_auth"]) /\ Captured(l) = 0
      BY <1>0, SumsAreAmounts
    <2> HIDE DEF n, m
    <2> QED BY <2>1, <2>2, <2>3, <2>4
  <1> QED BY <1>1, <1>2

\* A breach never takes money from the card; out of an untouched deposit it
\* keeps the agreed penalty under its own key, and pays back all the rest.
LEMMA BreachSettles ==
  ASSUME NEW l \in Ledgers, NEW key \in PenaltyKeys
  PROVE  /\ SettleBreach(l, key) \in Ledgers
         /\ SettleBreach(l, key)["pre_auth"] = l["pre_auth"]
         /\ \A k \in PenaltyKeys \ {key} : SettleBreach(l, key)[k] = l[k]
         /\ Returned(SettleBreach(l, key)) >= Returned(l)
         /\ Spent(l) = 0 =>
              /\ Spent(SettleBreach(l, key)) = l["pre_auth"]
              /\ Captured(SettleBreach(l, key)) = Lesser(Penalty, l["pre_auth"])
              /\ SettleBreach(l, key)[key] = Lesser(Penalty, l["pre_auth"])
  <1> DEFINE m == ChargePenalty(l, key)
  <1>0. "release:remainder" \in ReturnKeys /\ key \in Keys /\ key # "pre_auth"
        /\ PenaltyKeys \subseteq Keys /\ "pre_auth" \in Keys /\ l["pre_auth"] \in Nat
        /\ key # "release:remainder" /\ "release:remainder" \in Keys
    BY DEF ReturnKeys, PenaltyKeys, Keys, Ledgers
  <1>1. /\ m \in Ledgers
        /\ \A k \in Keys \ {key} : m[k] = l[k]
        /\ Returned(m) = Returned(l)
        /\ Spent(l) = 0 => /\ m[key] = Lesser(Penalty, l["pre_auth"])
                          /\ Captured(m) = Lesser(Penalty, l["pre_auth"])
    BY PenaltyCharges
  <1> HIDE DEF m
  <1>2. SettleBreach(l, key) = PayBack(m, "release:remainder")
    BY DEF SettleBreach, m
  <1>3. /\ PayBack(m, "release:remainder") \in Ledgers
        /\ \A k \in PenaltyKeys \cup {"pre_auth"} : PayBack(m, "release:remainder")[k] = m[k]
        /\ Captured(PayBack(m, "release:remainder")) = Captured(m)
        /\ Returned(PayBack(m, "release:remainder")) >= Returned(m)
    BY <1>0, <1>1, PayBackReturns
  <1>4. Spent(l) = 0 => Spent(PayBack(m, "release:remainder")) = l["pre_auth"]
    <2> SUFFICES ASSUME Spent(l) = 0
                 PROVE  Spent(PayBack(m, "release:remainder")) = l["pre_auth"]
      OBVIOUS
    <2>1. l["release:remainder"] = 0 /\ Returned(l) = 0
      BY <1>0, NothingSpent, SumsAreAmounts
    <2>2. Spent(m) <= m["pre_auth"]
      BY <1>0, <1>1, <2>1, SumsAreAmounts, AmountsPositive DEF Lesser
    <2>3. m["release:remainder"] = 0 /\ m["pre_auth"] = l["pre_auth"]
      BY <1>0, <1>1, <2>1
    <2> QED BY <1>0, <1>1, <2>2, <2>3, PayBackSettles
  <1> QED BY <1>0, <1>1, <1>2, <1>3, <1>4

=============================================================================

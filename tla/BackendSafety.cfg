CONSTANTS
  b1 = b1
  c1 = c1
  Bays = {b1}
  Reservations = {1, 2, 3}
  BayOf <- OneBay
  Cards = {c1}
  CardOf <- OneCard
  Deposit = 3
  Penalty = 2
  OpeningBalance = 5
  HttpThreads = {"http"}
  Redelivered <- Confirmation
SPECIFICATION Spec
VIEW WithoutPastTimes
INVARIANTS
  TypeOK
  DepositFollowsStatus
  OnePenaltyPerBreach
  PointerNamesHolder
  SweepIsNoReplay
PROPERTIES
  TerminalIsFinal
  EndIsAnnounced
  VictimKeepsDeposit
  ImplementsDeposit

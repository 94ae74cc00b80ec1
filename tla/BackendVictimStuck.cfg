CONSTANTS
  b1 = b1
  c1 = c1
  Bays = {b1}
  Reservations = {1}
  BayOf <- OneBay
  Cards = {c1}
  CardOf <- OneCard
  Deposit = 3
  Penalty = 2
  OpeningBalance = 5
  HttpThreads = {"http"}
  Redelivered <- NoMessage
SPECIFICATION Spec
INVARIANTS
  EmptyBayResumesVictim

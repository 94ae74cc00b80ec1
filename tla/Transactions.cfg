CONSTANTS
  r1 = r1
  r2 = r2
  c1 = c1
  http1 = http1
  http2 = http2
  Reservations = {r1, r2}
  Cards = {c1}
  CardOf <- OneCard
  Deposit = 3
  Penalty = 2
  OpeningBalance = 5
  HttpThreads = {http1, http2}
SPECIFICATION Spec
SYMMETRY Symmetry
VIEW Seen
CHECK_DEADLOCK FALSE
INVARIANTS
  TypeOK
  EndIsSettled
PROPERTY
  EscrowUnderRaces

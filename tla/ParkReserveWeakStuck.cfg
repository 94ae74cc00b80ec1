CONSTANTS
  Bay = b1
  c1 = c1
  v1 = v1
  v2 = v2
  NoVehicle = nobody
  Reservations = {1}
  Cards = {c1}
  CardOf <- OneCard
  Deposit = 3
  Penalty = 2
  OpeningBalance = 6
  HttpThreads = {"http"}
  Vehicles = {v1, v2}
  VehicleOf <- Holders
  MaxInFlight = 2
  MayFail = {}
SPECIFICATION Spec
VIEW Seen
CHECK_DEADLOCK FALSE
INVARIANT WeakConflictCompletes

CONSTANTS
  Limit = 2
  MaxVisits = 2
  Builds = {32, 64}
  NtpMayFail = TRUE
  Year = 2026
  Month = 4
  Day = 21
SPECIFICATION FairSpec
INVARIANTS
  TypeOK
  PictureWasAsked
  NoLampLies
  
PROPERTIES
  StatusIsConfirmed
  PictureIsKept
  QueueDrains

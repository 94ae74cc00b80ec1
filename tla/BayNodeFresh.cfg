CONSTANTS
  Limit = 2
  MaxVisits = 2
  Builds = {64}
  NtpMayFail = FALSE
  Year = 2026
  Month = 4
  Day = 21
SPECIFICATION FairSpec
PROPERTY
  FreshPictureIsKept

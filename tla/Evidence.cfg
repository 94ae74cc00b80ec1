CONSTANTS
  b1 = b1
  Strong = {"s1", "s2"}
  Weak = {"w1"}
  Bays = {b1}
  BayOf <- OneBay
  Uploaders = {"http1", "http2"}
SPECIFICATION FairSpec
CHECK_DEADLOCK FALSE
INVARIANTS
  TypeOK
  AcceptedImageIsKept
  EventIsRecorded
PROPERTY
  NamedImageIsPurged

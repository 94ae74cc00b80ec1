CONSTANTS
  PlateStrings = {"p1", "p2", "p3"}
  MaxPlates = 2
  Workers = {"http1", "http2"}
SPECIFICATION Spec
INVARIANT PiHasFreshestSet

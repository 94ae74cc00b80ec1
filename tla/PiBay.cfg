CONSTANTS
  p1 = p1
  Reservations = {1, 2}
  Plates = {p1}
SPECIFICATION FairSpec
INVARIANTS
  TypeOK
  StateTracksPresence
  HolderIsCached
  PendingIsTimed
  OutputsAgree
PROPERTIES
  PendingEnds

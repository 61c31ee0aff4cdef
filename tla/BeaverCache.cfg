CONSTANTS
  Field = {"FM32", "FM64"}
  OleSize = 4
  MaxNumel = 3
  MaxTakes = 5
SPECIFICATION Spec
INVARIANTS
  TypeOK
  TriplesMatch
  TriplesFresh
  OlesAgree
  CacheBounded

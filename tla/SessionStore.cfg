SPECIFICATION Spec
CHECK_DEADLOCK FALSE
CONSTANTS
  Clients = {c1, c2}
  Essay = Essay
  Review = Review
  Ops = {Essay, Review}
  Effect <- MCEffect
  KeyWindow = 1
  MaxRevision = 3
  MaxFaults = 1
  MaxHands = 1
  AnyRevision = AnyRevision
  NoFile = NoFile
  NoRow = NoRow
  Nobody = Nobody
SYMMETRY ClientSymmetry
INVARIANTS
  TypeOK
  AckedHeld
  MirrorsAgree
  AppliedOncePerKey
PROPERTIES
  CommitExtends
  AppliedToWhatWasSeen
  ForksKept

SPECIFICATION Spec
CHECK_DEADLOCK FALSE
CONSTANTS
  Pages = {1, 2}
  Scanned = {1}
  Requests = {r1, r2, r3}
  prep = prep
  ocr = ocr
  build = build
  Jobs = {prep, ocr, build}
  Work <- OneOfEach
  Recovery = Recovery
  Stages = {"new", "packaged"}
  MaxFaults = 1
  Nil = Nil
SYMMETRY OneRequestLikeAnother
INVARIANTS
  TypeOK
  RecordedIsThere
PROPERTIES
  DeletedStays
  WorkKept

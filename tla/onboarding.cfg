SPECIFICATION Spec
CONSTANTS
  RequiredTypes = {PAN, GST_CERTIFICATE}
  Procs = {p1, p2}
  MaxDocuments = 3
  NoType = NoType
SYMMETRY Symmetry
CHECK_DEADLOCK FALSE
INVARIANTS StageIsBacked
PROPERTIES LegalMoves OneDocumentPerType RecordsMatchStatus

SPECIFICATION Spec
CONSTANTS
  Folders = {f1, f2}
  Names = {n1, n2}
  Archives = {}
  Requeued = {}
  UploadIds = {u1, u2}
  Sizes = {1, 2}
  Quota = 3
  Requests = {r1}
  Workers = {}
  None = None
  Allowed = {"upload", "abort", "delete", "rename", "fault", "lostReply", "diskFull"}
SYMMETRY FileSymmetry
CHECK_DEADLOCK FALSE
INVARIANTS
  ReservationLedger
PROPERTIES
  ContentKept

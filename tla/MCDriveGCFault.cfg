SPECIFICATION Spec
CONSTANTS
  Folders = {f1}
  Names = {n1}
  Archives = {}
  Requeued = {}
  UploadIds = {u1}
  Sizes = {1}
  Quota = 3
  Requests = {r1}
  Workers = {}
  None = None
  Allowed = {"upload", "fault", "expiry"}
SYMMETRY FileSymmetry
CHECK_DEADLOCK FALSE
INVARIANT
  UploadsTracked

SPECIFICATION Spec
CONSTANTS
  Folders = {f1}
  Names = {n1, n2}
  Archives = {}
  Requeued = {}
  UploadIds = {u1, u2}
  Sizes = {2}
  Quota = 3
  Requests = {r1, r2}
  Workers = {}
  None = None
  Allowed = {"upload"}
SYMMETRY FileSymmetry
CHECK_DEADLOCK FALSE
INVARIANT
  UsedWithinQuota

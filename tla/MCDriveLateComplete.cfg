SPECIFICATION Spec
CONSTANTS
  Folders = {f1, f2}
  Names = {n1}
  Archives = {}
  Requeued = {}
  UploadIds = {u1, u2}
  Sizes = {1}
  Quota = 3
  Requests = {r1, r2}
  Workers = {}
  None = None
  Allowed = {"upload", "rename", "lateComplete"}
SYMMETRY FileSymmetry
CHECK_DEADLOCK FALSE
PROPERTY
  ContentKept

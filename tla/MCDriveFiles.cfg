SPECIFICATION Spec
CONSTANTS
  Folders = {f1, f2}
  Names = {n1, n2}
  Archives = {}
  Requeued = {}
  UploadIds = {u1, u2}
  Sizes = {1, 2}
  Quota = 4
  Requests = {r1, r2}
  Workers = {}
  None = None
  Allowed = {"upload", "abort", "delete", "recompute", "rename", "jobs"}
ACTION_CONSTRAINT NoStaleRename
SYMMETRY FileSymmetry
CHECK_DEADLOCK FALSE
INVARIANTS
  TypeOK
  UsageLedger
  UploadsTracked
  ChangesPublished
  JobsApart
PROPERTIES
  FileStoreImplemented

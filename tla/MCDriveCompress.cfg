SPECIFICATION Spec
CONSTANTS
  Folders = {f1}
  Names = {zip, jpg}
  Archives = {zip, jpg}
  Requeued = {zip}
  UploadIds = {u1, u2, u3}
  Sizes = {1, 2}
  Quota = 3
  Requests = {r1}
  Workers = {w1}
  None = None
  Allowed = {"upload", "abort", "delete", "recompute", "jobs", "lateComplete",
             "diskFull"}
ACTION_CONSTRAINT NoUploadInWindow
SYMMETRY Symmetry
CHECK_DEADLOCK FALSE
INVARIANTS
  QuotaRespected
  UsageLedger
PROPERTIES
  PackKeepsContent
  FileStoreImplemented

SPECIFICATION FairSpec
CONSTANTS
  Folders = {f1, f2}
  Names = {zip}
  Archives = {zip}
  Requeued = {zip}
  UploadIds = {u1}
  Sizes = {2}
  Quota = 3
  Requests = {r1, r2}
  Workers = {w1}
  None = None
  Allowed = {"upload", "abort", "rename", "jobs", "fault", "checkFails", "lostReply", "saveFails",
             "expiry", "restart"}
CHECK_DEADLOCK FALSE
INVARIANTS
  ReservedWithinQuota
  MarksOwned
PROPERTIES
  ExpiredReclaimed
  MarksReleased

SPECIFICATION Spec
CONSTANTS
  Folders = {f1}
  Names = {zip}
  Archives = {zip}
  Requeued = {zip}
  UploadIds = {u1, u2}
  Sizes = {1, 2}
  Quota = 3
  Requests = {r1}
  Workers = {w1}
  None = None
  Allowed = {"upload", "lateComplete"}
CHECK_DEADLOCK FALSE
PROPERTY
  PackKeepsContent

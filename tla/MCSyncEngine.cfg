SPECIFICATION Spec
CONSTANTS
  f1 = f1
  f2 = f2
  l1 = l1
  l2 = l2
  Files = {f1, f2}
  Sizes = {2, 3}
  Loops = {l1, l2}
  MaxEdits = 2
  MaxChanges = 1
  None = None
CHECK_DEADLOCK FALSE
INVARIANT TypeOK
INVARIANT LoopsOwned
INVARIANT LateTransfers
PROPERTY Converges
PROPERTY Settles

CONSTANTS
  MaxKeys = 1
  MaxChanges = 1
SPECIFICATION Spec
INVARIANT MismatchTold

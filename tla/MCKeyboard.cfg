CONSTANTS
  MaxKeys = 2
  MaxChanges = 2
SPECIFICATION Spec
INVARIANTS
  TypeOK
  KeysLandChecked
  EnvelopeTells

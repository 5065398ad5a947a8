CONSTANTS
  Plans <- MCPlans
  MaxTime = 1
SPECIFICATION Spec
INVARIANT NoImageInReceipts

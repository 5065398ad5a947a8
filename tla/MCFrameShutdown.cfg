CONSTANTS
  w1 = w1
  w2 = w2
  one = one
  two = two
  p = p
  q = q
  Windows <- MCWindows
  Layouts <- MCLayouts
  Points <- MCPoints
  Bounds <- MCBounds
  Shown <- MCShown
  MaxFrames = 1
  MaxChanges = 0
SPECIFICATION Spec
INVARIANT RemovedAtShutdown

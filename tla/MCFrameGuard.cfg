CONSTANTS
  w1 = w1
  w2 = w2
  one = one
  two = two
  p = p
  q = q
  Windows <- MCWindows
  Layouts <- MCLayouts
  Points <- MCPoints
  Bounds <- MCBounds
  Shown <- MCShown
  MaxFrames = 2
  MaxChanges = 2
SPECIFICATION Spec
INVARIANTS
  TypeOK
  PictureShowsWindow
  UndisturbedInputLands
  StaleOnlyByRace
  FileTracksFrame

CONSTANTS
  a = a
  null = null
  none = none
  Ids <- MCIds
  NullId = null
  NoId = none
  Gens <- MCGens
  MaxLines = 3
  MaxSteps = 2
SPECIFICATION Spec
INVARIANTS
  TypeOK
  CancelScoped
  CancelPrompt
  AnsweredInOrder
  NothingOwedAtExit
PROPERTY ImplementsLifecycle

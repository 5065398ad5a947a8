CONSTANTS
  a = a
  b = b
  none = none
  Ids <- MCIds
  NoId = none
  Gens <- MCGens
  Capacity = 1
  MaxLines = 3
  MaxSteps = 2
SPECIFICATION FairSpec
INVARIANTS
  TypeOK
  HandleExact
  CancelScoped
  CancelPrompt
  AnsweredInOrder
PROPERTIES
  ImplementsLifecycle
  EveryCallAnswered
  ShutsDown


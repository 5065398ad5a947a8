CONSTANTS
  Plans <- MCPlans
  MaxTime = 3
SPECIFICATION FairSpec
INVARIANTS
  TypeOK
  DeadlineIsEarliest
  AtMostOneLate
  DispatchedFresh
  AnswerTrue
PROPERTY BatchEnds

CONSTANT MaxTotal = 3
SPECIFICATION FairSpec
INVARIANTS
  TypeOK
  ReceiptTells
  StopsPrompt
  ReturnsClean
PROPERTY InputReturns

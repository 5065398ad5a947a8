CONSTANT MaxTotal = 1
SPECIFICATION Spec
INVARIANT HeldReleased

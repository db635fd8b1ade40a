SPECIFICATION Spec
CONSTANT Messages <- MCMessages
CHECK_DEADLOCK FALSE
INVARIANTS KnownVectors UndoesEachRound RoundTrip
PROPERTY FieldArithmetic

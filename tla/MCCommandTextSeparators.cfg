CONSTANT MaxPieces = 8
SPECIFICATION TextSpec
INVARIANT SeparatorsAsDocumented
CHECK_DEADLOCK FALSE

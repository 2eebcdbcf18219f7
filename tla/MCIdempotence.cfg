SPECIFICATION TextSpec
CONSTANT MaxLength = 3
INVARIANT ScreenMatchesFile
CHECK_DEADLOCK FALSE

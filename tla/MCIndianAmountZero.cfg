SPECIFICATION Spec
CONSTANT MaxTokens = 4
CHECK_DEADLOCK FALSE
INVARIANT NeverSilentZero

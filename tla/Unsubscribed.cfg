SPECIFICATION Spec
CONSTANTS
    MaxLetters = 2
CHECK_DEADLOCK FALSE
INVARIANT NoMoreLetters

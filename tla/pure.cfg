SPECIFICATION Spec
CONSTANTS
    Base = 32
    Width <- MCWidth
INVARIANTS RoundTrip ParsersSafe AclCorrect
\* A call is over when it has returned.
CHECK_DEADLOCK FALSE

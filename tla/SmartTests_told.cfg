CONSTANTS
    None = None
    Callers = {"c1", "c2"}
    Expected = 3
    MaxTests = 2
    MaxFailures = 2
SPECIFICATION Spec
INVARIANTS ToldWhenOver
CHECK_DEADLOCK FALSE

\* The gate alone: one place and three calls are enough for a newcomer to
\* overtake a woken waiter.
SPECIFICATION GateSpec
CONSTANTS
    Calls = {c1, c2, c3}
    MaxActive = 1
INVARIANT SimultaneousBound
CHECK_DEADLOCK FALSE

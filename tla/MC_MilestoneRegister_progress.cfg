\* What the progress file is cross-checked for: an identifier that is a prefix of
\* another one is taken for it.
SPECIFICATION MCSpec
CHECK_DEADLOCK FALSE
CONSTANTS
    Running = Running
INVARIANTS
    ProgressNamesState

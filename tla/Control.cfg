SPECIFICATION Spec
CONSTANTS
    None = None
    Commands <- MCCommands
    MaxSent = 3
    MaxStarts = 5
INVARIANTS NothingOrphaned
PROPERTIES DecisionSurvives
CHECK_DEADLOCK FALSE

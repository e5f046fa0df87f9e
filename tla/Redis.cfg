CONSTANTS
    Cmd = {"c1", "c2"}
    MaxLosses = 2
    MaxCalls = 2
    MaxMsgs = 1
    MaxUses = 2
    Auth = TRUE
SPECIFICATION Spec
CHECK_DEADLOCK FALSE
INVARIANTS
    EngineSound
PROPERTIES
    CommandIsAnswered

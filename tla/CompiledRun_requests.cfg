SPECIFICATION Spec
CONSTANTS
    Sources <- MCSources
    Modes = {"auto", "strict"}
    MaxRequest = 2
    MaxLen = 2
INVARIANTS
    EffectOnce
    RefusedIsClean
    BlockedByOwnEffect
    BindingsLikeInterpreter
CHECK_DEADLOCK FALSE

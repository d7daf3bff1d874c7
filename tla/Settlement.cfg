CONSTANTS
    c1 = c1
    c2 = c2
    Cases = {c1, c2}
    MaxEpoch = 1
    Faults = {"prove", "commit"}
SPECIFICATION Spec
SYMMETRY AnyCase
INVARIANT OneAnswer
INVARIANT SummaryStands
INVARIANT NeverStranded
PROPERTY FirstTerminalWins
PROPERTY NoRework
PROPERTY KeepsBatchContract
CHECK_DEADLOCK FALSE

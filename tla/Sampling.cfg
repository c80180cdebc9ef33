SPECIFICATION Spec
CONSTANTS
    db = db
    http = http
    Traces = {"a", "b", "c"}
    Children = {db, http}
    Remote = {"c"}
    Late = {"b"}
    Modes = {"all", "errors_only", "percentage"}
    Coins = {TRUE, FALSE}
    MaxTraces = 2
INVARIANT BufferBounded ErrorsKept TracesAreWhole
SYMMETRY ChildSymmetry
CHECK_DEADLOCK FALSE

SPECIFICATION Spec
CONSTANTS
    MCInputs = {"chained"}
    Inputs <- TheInputs
    Name = "second"
    PathNames = {"a", "b", "t"}
    Blobs = {"b0", "bx"}
    Modes = {"exec"}
    MetaParts = {"author"}
    MetaValues = {"m1"}
    Annotations = {"n0", "n1"}
    RefNames = {"main", "x"}
    MaxEdits = 1
INVARIANT
    NoOpFinishes
CHECK_DEADLOCK FALSE

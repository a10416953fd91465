SPECIFICATION Spec
CONSTANTS
    MCInputs = {"fresh"}
    Inputs <- TheInputs
    Name = "second"
    PathNames = {"a", "b", "t"}
    Blobs = {"b0", "bx"}
    Modes = {"exec"}
    MetaParts = {"author"}
    MetaValues = {"m1"}
    Annotations = {"n0", "n1"}
    RefNames = {"main", "x"}
    MaxEdits = 3
INVARIANT
    DropsNameWhatWasRemoved
CHECK_DEADLOCK FALSE

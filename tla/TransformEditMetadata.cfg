SPECIFICATION Spec
CONSTANTS
    MCInputs = {"fresh"}
    Inputs <- TheInputs
    Name = "second"
    PathNames = {"a", "b", "t"}
    Blobs = {"b0", "bx"}
    Modes = {"exec"}
    MetaParts = {"author"}
    MetaValues = {"m1"}
    Annotations = {"n0", "n1"}
    RefNames = {"main", "x"}
    MaxEdits = 1
INVARIANT
    MetadataEditsFinish
CHECK_DEADLOCK FALSE

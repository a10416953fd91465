SPECIFICATION Spec
CONSTANTS
    MCInputs = {"fresh", "chained"}
    Inputs <- TheInputs
    Name = "second"
    PathNames = {"a", "b", "t"}
    Blobs = {"b0", "bx"}
    Modes = {"exec"}
    MetaParts = {"author"}
    MetaValues = {"m1"}
    Annotations = {"n0", "n1"}
    RefNames = {"main", "x"}
    MaxEdits = 4
INVARIANTS
    TypeOK
    OpLineage
    DoneIsHonest
    DoneKeepsAncestry
    MarksStayLocal
    FinishExact
CHECK_DEADLOCK FALSE

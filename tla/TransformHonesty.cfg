SPECIFICATION PluginSpec
CONSTANTS
    InDrafts <- SomeDrafts
    Name = "second"
    MetaValues = {"m1"}
    PathNames = {"a", "t"}
    Blobs = {"b1"}
    Modes = {"exec"}
    AtomMarks <- AllAtomMarks
    OpMarks <- AllOpMarks
    RefMarks <- AllRefMarks
    RefNames = {"x"}
    Annotations = {"n1"}
    MaxChanges = 3
INVARIANTS
    AcceptedMarksChanges
    AcceptedNamesLosses
    AcceptedHasOrigins
    AcceptedKeepsHistory
    AcceptedKeepsAncestry
CHECK_DEADLOCK FALSE

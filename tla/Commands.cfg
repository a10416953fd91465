SPECIFICATION Spec
CONSTANTS
    Jobs = {1, 2, 3}
    CommandLines <- TheCommandLines
    Files = {"a", "b"}
    Stamps = {"s"}
    MaxAttempts = 2
    PluginCodes = {3}
    Library = {2}
    Artifacts <- TheArtifacts
    Decoded = {new}
    Sound = {old, new, fromOld, fromNew}
    Twins = {}
    Accepts <- TheAccepts
    LossClass <- TheLossClass
    FirstFiles <- TheFirstFiles
    MaxPowerLoss = 1
    Nothing = Nothing
    Partial = Partial
    old = old
    new = new
    fromOld = fromOld
    fromNew = fromNew
    unsound = unsound
INVARIANTS
    TypeOK
    AcceptedFromWhatWasRead
    TempsAreApart
    OnlyCrashesLeaveTemps
    ExitTellsWhatLanded
PROPERTIES
    OutputIsAtomic
    InvocationsEnd
CHECK_DEADLOCK FALSE

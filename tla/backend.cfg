SPECIFICATION MCSpec
CONSTANTS
    p1 = p1
    p2 = p2
    None = None
    NoID = NoID
    Unread = Unread
    Processes = {p1, p2}
    Seeds <- LabelSeeds
    MaxNow = 3
    Networks <- EVMAndSolana
    MaxBlock = 2
    Migrators = {p1, p2}
    Releases <- AllReleases
    IntegrityVersion = 3
    History <- KnownHistory
    Legacy <- LegacyLedgers
SYMMETRY Symmetry
CHECK_DEADLOCK FALSE
INVARIANTS SchemaSound LabelsHold AnswersHeld
PROPERTY CommitsOwnSchema

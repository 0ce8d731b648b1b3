CONSTANTS
    Message <- MessagesAtBoundary
    Own <- OwnMessages
    SetTopics = {"Blocks", "Attestations"}
    SLOTS_PER_EPOCH = 2
    MaxLog = 3
    MaxTasks = 2
    MaxFailures = 1
SPECIFICATION Spec
INVARIANTS
    TypeOK
    EpochCounts
    DuplicatesExact
    SeriesMonotone
    NothingOverwritten
    SeriesInitialised
CHECK_DEADLOCK FALSE

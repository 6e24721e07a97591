SPECIFICATION FairSpec
CONSTANTS
    Dirs = {"src", "dst"}
    Bases = {"f", "g"}
    MaxNumber = 3
    Budget = 1
    Jobs = {1, 2}
    Specs <- MCSpecs
    Files <- MCFiles
    MaxErrors = 1
    MaxQuestions = 2
INVARIANTS FilesKept CompletedAsAsked  AwaitBudget
PROPERTIES CancelStops FollowsLifecycle JobsEnd
CHECK_DEADLOCK FALSE

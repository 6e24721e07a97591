SPECIFICATION ServicesSpec
CONSTANTS
    Workspaces = {"v", "w"}
    Tabs = {"s", "t"}
    FirstTabs <- MCFirstTabs
    MaxTabOps = 3
    MaxMoves = 1
    MaxFailures = 1
    MaxCrashes = 1
    maxTabsPerWorkspace = 2
    StoreProcesses = {1, 2}
    PreserveBackup = TRUE
    RenameRetries = 1
    MaxPublishes = 2
    MaxBusy = 2
    MaxFaults = 1
    MaxKills = 1
    Viewers = {a}
    Clears = {}
    MaxOutput = 4
    MaxPending = 2
    MaxHeld = 2
    MaxResizes = 1
    MaxBreaks = 1
    MaxRepairs = 1
    MaxReplays = 1
    MaxLeaves = 1
    FailsInRepair = FALSE
    GitSessions = {1, 2}
    Folder <- MCFolder
    MaxChanges = 3
    MaxWatches = 2
    Loops = {"a", "b"}
    Steps = 1
    Ends = {"b"}
    KeepTabs = 1
    TabCap = 2
    SpaceCap = 1
    MaxRuns = 3
    MaxUpsets = 1
    MaxTyped = 3
    MaxRefused = 1
    MaxDisturbed = 1
    MAX_INPUT_SEQUENCE_SPAN = 2
    inputQueueMaxBytes = 2
    transportOutboxMaxBytes = 2
CONSTRAINT OneTrouble
INVARIANTS
    AnswersStand FolderIsFit NothingLostOrTwice KeptIsRight
    TabsAndHistory HeldInPlace SentInItsGeneration
PROPERTIES
    PublishesWhole QuietWhileApplying CancelledSendsNoMore
CHECK_DEADLOCK FALSE

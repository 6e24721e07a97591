SPECIFICATION Spec
CONSTANTS
    Dirs = {"src", "dst", "ext"}
    Bases = {"f"}
    MaxNumber = 2
    Budget = 1
    Jobs = {1, 2}
    Specs <- MCSpecsMet
    Files <- MCFilesMet
    MaxErrors = 0
    MaxQuestions = 2
INVARIANT NothingLost
CHECK_DEADLOCK FALSE

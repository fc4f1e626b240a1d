SPECIFICATION Spec
CONSTANTS
    Dirs = 2
    MaxFaults = 3
INVARIANTS DiskIsSafe SuccessIsComplete FailureIsHonest
PROPERTIES OthersKept

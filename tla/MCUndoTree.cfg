SPECIFICATION Spec
CONSTANTS
    Levels <- MCLevels
    MaxEdits = 3
    MaxWrites = 1
    MaxCount = 2
    Stops = 1
    ReadOnly = TRUE
    Careless = FALSE
INVARIANTS TreeIsWhole PlaceIsTrue TextsAreReached PreviewForgets

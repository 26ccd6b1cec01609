SPECIFICATION Session
CONSTANTS
    Unmerged = Unmerged
    MaxLines = 3
    Bases <- BaseTexts
    Edits <- EditedTexts
INVARIANT DiffsReproduce
INVARIANT ApartChangesLand
INVARIANT OursSurvives
CHECK_DEADLOCK FALSE

SPECIFICATION SceneSpec
CONSTANTS
    InitText <- Abc
    Texts <- EditTexts
    MaxSnaps = 6
    MaxBackups = 1
    MaxLosses = 1
INVARIANT BackupsReadBack
INVARIANT FilesAddressedUntilLoss
PROPERTY RestoresOntoBase
CHECK_DEADLOCK FALSE

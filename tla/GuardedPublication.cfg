SPECIFICATION PublicationFairSpec
CONSTANTS
    table = table overlay = overlay
    Widgets <- MCWidgets
    Natives <- MCNatives
    MaxRevision = 2
    MaxReads = 2
PROPERTIES
    OnlyCurrentComesUp
    ForgetsOldSignIn
CHECK_DEADLOCK FALSE

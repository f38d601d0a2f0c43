\* Three screens, four uploads.
SPECIFICATION Spec
CONSTANTS
    MaxScreens = 3
    MaxUploads = 4
INVARIANTS
    TypeOK
    PostHasPoint
    OnePostPerScreen
PROPERTIES
    UploadAnswered
    WaitingIsSafe
CHECK_DEADLOCK FALSE

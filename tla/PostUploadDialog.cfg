\* One screen against what its dialog says.
SPECIFICATION Spec
CONSTANTS
    MaxScreens = 1
    MaxUploads = 1
INVARIANTS
    UploadingWhileShown
CHECK_DEADLOCK FALSE

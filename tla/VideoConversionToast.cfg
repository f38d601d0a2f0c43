\* One recording against what the user is told about it.
SPECIFICATION Spec
CONSTANTS
    MaxRecordings = 1
    MaxSeconds = 2
INVARIANTS
    CompressedMeansWhole

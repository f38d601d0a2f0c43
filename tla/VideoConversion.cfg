\* Two recordings, four conversions that name their files within two seconds.
SPECIFICATION Spec
CONSTANTS
    MaxRecordings = 2
    MaxSeconds = 2
INVARIANTS
    TypeOK
    FilesFinished
PROPERTIES
    RecordingAnswered
    RecordingRemoved

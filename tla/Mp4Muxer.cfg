\* At most five samples on at most two tracks; clocks scaled by 1000.
CONSTANTS
  Second = 1000
  VideoTimeScale = 90
  AudioTimeScale = 48
  VideoLastDuration = 3
  AudioLastDuration = 1
  FtypSize = 24
  HeaderSize = 16
  PrefixSize = 4
  ChunkLimit = 32768
  UnsetContent = 1073741824
  MoovSize = 600
  VideoSizes = {5, 70000}
  AudioSizes = {12720}
  PtsSteps = {0, 17, 33}
  MaxSamples = 5
SPECIFICATION Spec
INVARIANTS
  TypeOK
  OffsetIsPosition
  SamplesReadable
  BoxesTile
  ChunksBounded
  TablesLocateSamples
  DriftBounded
  DurationsAgree
PROPERTY
  FlushedSamplesKept
CHECK_DEADLOCK FALSE

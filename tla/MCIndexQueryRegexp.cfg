CONSTANTS
  Err = Err
  ExcCost = 1
  BaseUnit = 2
  AdaptiveDf = 8
  AdaptiveDocs = 4
  GroupSize = 2
  AutoZstdMinBytes = 8
  AnchorInterval = 2
  BsbfLanes = 2
  BsbfBitsPerTerm = 8
  BsbfMaxBytes = 64
  SlimDfThreshold = 3
  InlineThreshold = 7
  CopyChunk = 40
  MaxFaults = 1
  kMaxConcurrent = 2
  MeterBlock = 32
  MaxPosition = 7
  SameTermGap = 4
  Builds <- MCOpenBuilds
  Queries <- MCOpenRegexps
  RotQueries <- MCRotQueries
  CodecInputs <- MCCodecInputs
  RawFetches <- MCRawFetches
SPECIFICATION Spec
INVARIANT
  RegexpExact

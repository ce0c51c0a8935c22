SPECIFICATION BenchmarkSpec
CONSTANTS
  stone = stone
  log = log
  moss = moss
  Names <- MCNames
  BiomeKeys <- MCBiomeKeys
  Cells <- MCCells
  MaxU16 = 3
  Threads <- MCThreads
  Chunks <- MCChunks
  NumSections = 2
  From <- MCFrom
  To <- MCTo
  Blocks <- MCBlocks
  Biomes <- MCBiomes
  Workers = 2
  Side = 3
INVARIANTS
  ServedIsGenerated
  PositionsOnce
  AssertHolds
  TrialSound
  ResultNotLost
PROPERTY TrialEnds
CHECK_DEADLOCK FALSE

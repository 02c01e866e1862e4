SPECIFICATION Spec
CONSTANTS
  HeadLen = 2
  Boots <- MCBoots
  RamOf <- MCRamOf
  DefaultRam = 1
  Readers <- MCReaders
  Files <- MCFiles
  Clients = {"other"}
  MaxMaps = 1
  Bufs <- MCBufs
  b1 = b1
  b2 = b2
  NoBuf = NoBuf
  Page = 3
  Word = 9
SYMMETRY BufPermutations
INVARIANTS RunsCompleteSnapshot BenchHoldsBuffer BufferOwned MapWithinBuffer
CHECK_DEADLOCK FALSE

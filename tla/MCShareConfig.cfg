SPECIFICATION ShareSpec
CONSTANTS
  N = 2
  Docs <- MCDocs
  MaxEnv = 3
  BufLines = 8
  MaxOctet = 255
  Inherited = {"HOME", "TERM"}
INVARIANTS ConfigIsOwn EntrypointIsConfigured HaltsOnlyWithoutEntrypoint AllClonesFinished
CHECK_DEADLOCK FALSE

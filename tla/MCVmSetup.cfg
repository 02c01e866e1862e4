SPECIFICATION Spec
CONSTANTS
  Offered <- MCRing
  RingFeatures <- MCRing
  MinUs = 50
  MaxUs = 300
  BootShare = TRUE
  Images <- MCImages
  MaxRetry = 1
INVARIANTS EnabledIsComplete WiredAsConfigured FirstRequestIsIndexZero LayoutDisjoint
PROPERTIES ConnectsWhenListening MountCompletes CleanupEnds
CHECK_DEADLOCK FALSE

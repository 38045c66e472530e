SPECIFICATION FairSpec
CONSTANTS
  cece = cece
  Phones = {cece}
  Nobody = Nobody
  MaxStarts <- Starts
  MaxTroubles = 2
INVARIANTS TypeOK HotIsClaimed
PROPERTIES HotIsHeld SilenceReleases
\* Every microphone cold for good and the floor free, nothing is left to do.
CHECK_DEADLOCK FALSE

SPECIFICATION FairSpec
CONSTANTS
  Clips = 2
  Jumps = {0}
  MaxFrames = 2
  MaxClips = 3
  MaxReports = 1
  MaxStreams = 2
  MaxBreaks = 1
  MaxRuns = 2
CHECK_DEADLOCK FALSE
INVARIANTS TypeOK
PROPERTIES OldNewsStays EveryFrameOnce ComesToAgree

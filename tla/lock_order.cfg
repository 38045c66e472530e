\* Two replies of one conversation and another's thinking; holds, and renders that outlive their TTL.
SPECIFICATION Spec
CONSTANTS
  A = A
  B = B
  a1 = a1
  a2 = a2
  a3 = a3
  b1 = b1
  t = t
  r = r
  Clips = {a1, a2, t}
  NoClip = NoClip
  Sessions = {A, B}
  NoSession = NoSession
  SessionOf <- MCSessionOf
  BaseRank <- QuestionRanks
  Kind <- MCKind
  Superseders = {}
  Sentences = 2
  Playlist = {}
  MayPause = {}
  MayWedge = {}
  MayCrash = {}
  MayHold = TRUE
  MayFlush = FALSE
  MayAge = "always"
INVARIANTS TypeOK TokenInUse NoGhostWaiter
PROPERTIES HeardInOrder
CHECK_DEADLOCK FALSE

\* Nobody stalls: every reply ends, whoever crashes, and the one voice is kept in order.
SPECIFICATION FairSpec
CONSTANTS
  A = A
  B = B
  a1 = a1
  a2 = a2
  a3 = a3
  b1 = b1
  t = t
  r = r
  Clips = {a1, a2, b1}
  NoClip = NoClip
  Sessions = {A, B}
  NoSession = NoSession
  SessionOf <- MCSessionOf
  BaseRank <- QuestionRanks
  Kind <- MCKind
  Superseders = {}
  Sentences = 2
  Playlist = {}
  MayPause = {}
  MayWedge = {}
  MayCrash = {a2}
  MayHold = FALSE
  MayFlush = FALSE
  MayAge = "never"
PROPERTIES EveryReplyEnds ImplementsVoiceQueue
CHECK_DEADLOCK FALSE

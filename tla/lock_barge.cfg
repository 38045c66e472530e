\* A superseding URGENT, a replay, a flush; the reply may be paused or wedge.
SPECIFICATION Spec
CONSTANTS
  A = A
  B = B
  a1 = a1
  a2 = a2
  a3 = a3
  b1 = b1
  t = t
  r = r
  Clips = {a1, a3, r}
  NoClip = NoClip
  Sessions = {A, B}
  NoSession = NoSession
  SessionOf <- MCSessionOf
  BaseRank <- QuestionRanks
  Kind <- MCKind
  Superseders = {a3}
  Sentences = 2
  Playlist = {a1}
  MayPause = {a1}
  MayWedge = {a1}
  MayCrash = {}
  MayHold = FALSE
  MayFlush = TRUE
  MayAge = "never"
INVARIANTS OneVoice
PROPERTIES DroppedNeverStarts
CHECK_DEADLOCK FALSE

SPECIFICATION Spec
CONSTANTS
  a = a
  b = b
  m1 = m1
  m2 = m2
  m3 = m3
  Sessions = {a}
  Msgs = {m1,m2}
  To <- ToOne
  Mail = {m2}
  Note = Note
  Release = Release
  NoSession = NoSession
  MaxLive = 1
  MaxDeaths = 1
  MaxStops = 1
  MaxDrains = 1
  MayCrash = TRUE
  Linger = FALSE
  MayPark = {a}
  MayTask = {a}
CHECK_DEADLOCK FALSE
INVARIANTS TypeOK  ResumedOnce 
PROPERTIES SoleReader

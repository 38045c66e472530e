SPECIFICATION FairSpec
CONSTANTS
  a = a
  b = b
  m1 = m1
  m2 = m2
  m3 = m3
  Sessions = {a,b}
  Msgs = {m1,m3}
  To <- ToOne
  Mail = {}
  Note = Note
  Release = Release
  NoSession = NoSession
  MaxLive = 1
  MaxDeaths = 0
  MaxStops = 1
  MaxDrains = 1
  MayCrash = TRUE
  Linger = TRUE
  MayPark = {}
  MayTask = {}
CHECK_DEADLOCK FALSE
PROPERTIES HeldGoesOut

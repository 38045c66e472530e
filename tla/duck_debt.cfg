\* A local reply and one of the phone's lane; crashes, refusals, a deleted room and the listener's dial.
SPECIFICATION Spec
CONSTANTS
  r1 = r1
  r2 = r2
  p = p
  c1 = c1
  c2 = c2
  NoReply = NoReply
  Replies = {r1, p}
  OnPhone = {p}
  Rooms = {c1, c2}
  Volumes = {0, 2}
  Level = 1
  Nominal = 2
  Strategies = {"duck", "pause"}
  MayCrash = {r1, p}
  MayGo = {c2}
  MaxFails = 1
  MaxDials = 1
  Races = {}
INVARIANTS TypeOK  
 
CHECK_DEADLOCK FALSE

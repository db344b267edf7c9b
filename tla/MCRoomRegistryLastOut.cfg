SPECIFICATION Spec
CONSTANTS
  u1 = u1
  u2 = u2
  r1 = r1
  r2 = r2
  k1 = k1
  NoRoom = NoRoom
  NotLoaded = NotLoaded
  NoUid = NoUid
  User = {u1, u2}
  Kicker = {}
  Room = {r1}
  BotUid = {0}
CONSTRAINT NothingBroken
SYMMETRY Symmetry
PROPERTIES
  CycleClearsFlags

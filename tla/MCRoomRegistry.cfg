SPECIFICATION Spec
CONSTANTS
  u1 = u1
  u2 = u2
  r1 = r1
  r2 = r2
  k1 = k1
  NoRoom = NoRoom
  NotLoaded = NotLoaded
  NoUid = NoUid
  User = {u1, u2}
  Kicker = {k1}
  Room = {r1, r2}
  BotUid = {0}
CONSTRAINT OnePart
SYMMETRY Symmetry
INVARIANTS
  TypeOK
  VisitorsAgree
  CycleRuns
  
  UidsDistinct

  

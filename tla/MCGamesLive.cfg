SPECIFICATION Spec
CONSTANTS
  a = a
  b = b
  User = {a}
  RoomUid <- Uids
  Tickets = 3
  TeamAmounts = {2}
  Arena <- Square
  Wall <- NoWall
  Goal <- Goals
  Spawn <- Spawns
  Aside <- Asides
  Length = 1
  Countdown = 1
  MaxId = 0
  MaxStarts = 2
CONSTRAINT Bounded
PROPERTIES
  GameEnds

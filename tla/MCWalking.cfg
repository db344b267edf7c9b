SPECIFICATION Spec
CONSTANTS
  u1 = u1
  u2 = u2
  waiter = waiter
  User = {u1, u2}
  Bot = {waiter}
  Item = {1, 2, 3, 4}
  Shape <- Shapes
  Sips = 1
  MaxTimers = 2
  MaxStack = 80
  Plans <- Rooms
SYMMETRY Alike
CONSTRAINT Bounded
INVARIANTS
  TilesTaken
  Seated
  
  Swims
  
  BotOnTheWay

SPECIFICATION Spec
CONSTANTS
  u1 = u1
  u2 = u2
  u3 = u3
  i1 = i1
  i2 = i2
  NoTrade = NoTrade
  NoUid = NoUid
  User = {u1, u2, u3}
  Item = {i1, i2}
  MaxOffer = 1
CONSTRAINT TwoOrThree
SYMMETRY Symmetry
INVARIANTS
  TypeOK
  CanAbort
  Paired
PROPERTIES
  AcceptanceStands
  SwapsBetweenParties
CHECK_DEADLOCK FALSE

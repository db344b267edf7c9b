SPECIFICATION Spec
CONSTANTS
  s1 = s1
  s2 = s2
  u1 = u1
  NoSession = NoSession
  NoUser = NoUser
  Session = {s1, s2}
  User = {u1}
  MaxConnections = 3
  MaxClones = 1
SYMMETRY Symmetry
INVARIANTS
  IdsExclusive
  EntryOwned
  Displaced
  BannedOut

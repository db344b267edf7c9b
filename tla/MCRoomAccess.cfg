SPECIFICATION Spec
CONSTANTS
  host = host
  guest = guest
  staff = staff
  r1 = r1
  r2 = r2
  r3 = r3
  Cycle = Cycle
  NoRoom = NoRoom
  User = {host, guest}
  Room = {r1, r2}
  Public = {}
  Owner <- OwnerByHost
  Staff = {}
CONSTRAINT Bounded
INVARIANTS
  
  RightsOfThisRoom
  MarkersOfThisVisit

SPECIFICATION Spec
CONSTANTS
  a = a
  b = b
  s1 = s1
  s2 = s2
  s3 = s3
  v1 = v1
  User = {a, b}
  Session = {s1, s2}
  Account <- OneEach
  Offer <- Offers
  Worth <- Worths
  TicketPrice = 1
  Voucher = {v1}
  Amount <- Amounts
  MaxItems = 3
  Endowment = 2
CONSTRAINT Bounded
INVARIANTS
  TypeOK
  NothingForFree
  GoodsComplete
  GiftsArrive
  RecyclerHolds
CHECK_DEADLOCK FALSE

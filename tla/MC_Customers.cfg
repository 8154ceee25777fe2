SPECIFICATION MCSpec
CONSTANTS
  c1 = c1
  c2 = c2
  Call <- TwoCalls
  Browser = {b1}
  None = None
  Drift = 0
  FreshFor = 1
  ResendAfter = 1
  CodeLife = 1
  CodeTries = 1
  MaxSessions = 3
  MaxResets = 1
  MaxSecrets = 2
  MaxStep = 1
  MaxLost = 1
  p1 = p1
  p2 = p2
  a1 = a1
  a2 = a2
  a3 = a3
  Person <- TwoPersons
  Address <- ThreeAddresses
  NoAddress = NoAddress
  ReaderOf <- MailReaders
  ChangeTries = 1
  ChangeLife = 2
  MaxCodes = 2
  MaxTime = 2
  Field = {first, last}
  Value = {v1, v2}
  Editor = {d1, d2}
  MaxSubmissions = 2
  r1 = r1
  r2 = r2
  x1 = x1
  x2 = x2
  Investment = investment
  Kind = {personal, investment}
  Row <- TwoWallets
  Bank = {m1, m2}
  Opener <- TwoOpeners
  Claim = {h1}
  NoOne = NoOne
  MaxBanks = 1
  MaxNumbers = 2
  Writing = {t1, t2}
  RowId = {1, 2, 3}
  NoRowRead = NoRowRead
  PageSize = 1
  Filter = {"settled", "open", "overdue", "unread"}
  MostRows = 2
  MostMoney = 2
  Alert = {n1, n2}
  Tab = {g1, g2}
  MaxSockets = 1
  MaxEvents = 3
CHECK_DEADLOCK FALSE
SYMMETRY AnyName
INVARIANTS
  ResetSignsOut
  FullMeansProved
  AddressProved
  NameIsVerified
  OneOfEach
  ClosedIsFree
  PagesComplete
  BadgeIsRight
PROPERTIES
  NoCodeTwice

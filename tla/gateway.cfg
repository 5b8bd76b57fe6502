SPECIFICATION Spec
CONSTANTS
  fas = fas
  gen = gen
  tok = tok
  root = root
  none = none
  all = all
  Secrets = {fas, gen}
  Chosen = {fas}
  Tokens = {tok}
  ValidTokens = {tok}
  OAuthEnabled = TRUE
  RequiredRoles = {"admin"}
  AdminSecret = root
  Users = {"admin", "bootstrap", "alice"}
  Nobody = none
  Encrypted = FALSE
  GlobalKey = all
  Clients = {c1, c2}
  c1 = c1
  c2 = c2
  MaxRequests = 3
  Suffix <- OwnSuffix
  Subject <- TokenSubject
  Claims <- AdminClaims
  IamUser <- NoIam
  Trackable <- AllIds
  DefaultQuota = standard
  Quotas = {standard, own}
  standard = standard
  own = own
SYMMETRY ClientSymmetry
INVARIANTS
  RevokedKeysOpenNothing
PROPERTIES
  ConfiguredKeyIsStored
  RevocationIsFinal
  OwnersDecide

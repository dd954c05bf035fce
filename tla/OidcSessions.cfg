CONSTANTS
  s1 = s1
  s2 = s2
  web = web
  staff = staff
  Ref = {s1, s2}
  Login = {web, staff}
  LoginOf <- OneLogin
  Call = {c1, c2}
  Browser = {b1}
  Nobody = Nobody
  MaxRefresh = 2
SPECIFICATION LoginSpec
SYMMETRY Alike
INVARIANTS
  RefreshTokenUsedOnce
  SignedOutStaysOut
  OwnLoginEndsPrevious
PROPERTIES
  SessionsOnlyGoForward
CHECK_DEADLOCK FALSE

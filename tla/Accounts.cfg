\* More workers than connections; the same names.
CONSTANTS
  Worker = {w1, w2, w3}
  Sql = {s1, s2}
  NoSql = NoSql
  Name = {ann, bob}
  Password = {empty, secret}
  NoPassword = empty
  MaxLogins = 2
SPECIFICATION Spec
INVARIANTS
  HandlesAccountedFor
  NoHandleIdle
  CookieNamesItsUser
  SuccessMeansOwned
SYMMETRY Symmetric

SPECIFICATION Spec
CONSTANTS
  server = server
  batch = batch
  t1 = t1
  t2 = t2
  t3 = t3
  Process = {server, batch}
  Thread = {t1, t2, t3}
  ProcessOf <- MCProcessOf
  Lazy = {server}
  Command = {"serve"}
  CommandOf <- MCCommandOf
  Asks <- MCAsks
  Nobody = Nobody
  Hook = Hook
  MaxGrants = 1
  MaxCalls = 1
SYMMETRY Symmetry

PROPERTIES RevokeEndsWindow

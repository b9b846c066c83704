SPECIFICATION PartSpec
CONSTANTS
  p1 = p1
  p2 = p2
  s1 = s1
  s2 = s2
  Server = {p1, p2}
  Session = {s1, s2}
  HostOf <- MCHostOf
  Token = {c1, c2}
  Ttl = 2
  SupersedeGrace = 1
  StaleTemp = 0
  MaxFiles = 1
  LockWait = 1
  WriteTime = 1
  Nobody = Nobody
  asker = asker
  Sender = {asker, other}
  Call = {k1, k2}
  Lock = {l1, l2, l3}
  MaxSessions = 1
  SessionTtl = 2
  MaxPage = 3
  Request <- MCRequest
  None = None
  Watchdog = {w1, w2}
  Operator = {o}
  NoOne = NoOne
  Agent = agent
  MaxReruns = 1
  MaxLines = 1
CONSTRAINTS OneAside FaultsAlone
SYMMETRY Symmetry
INVARIANTS PartTypeOK FilesCapped NoStrayFile ExpiryArmed OneAtATime NoPageSkipped RollsBackOnce StaysOff RecordIsTrue
PROPERTIES RemovedForAReason

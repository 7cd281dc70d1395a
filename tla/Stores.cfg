\* Two cards and two settings; two instances of the proxy that write four records into three
\* files; two transactions on two accounts; two requests and two entries of the cache.
SPECIFICATION StoresSpec
CONSTANTS
  Cards = {u1, u2}
  Fields = {f1, f2}
  Values = {"short", "cut", "bad"}
  Accepted = {"short", "cut"}
  Normal <- NormalOf
  Defaults <- DefaultsOf
  MaxVersion = 3
  Instances = {p1, p2}
  MaxFiles = 3
  PerFile = 1
  MaxRecords = 4
  MaxExtras = 2
  MaxTime = 2
  Accounts = {a, b}
  SessionKeys = {k}
  FailAfter = 2
  MaxCount = 2
  Retained = 1
  MaxStats = 2
  Clients = {u1, u2}
  Connections = 2
  Readers = {u1, u2}
  Ttl = 2
  StaleMax = 2
  Recheck = 0
  MaxEntries = 2
  MaxNow = 4
SYMMETRY Interchangeable
INVARIANTS StoresTypeOK KeepsNewest NothingMissed ClearedStaysCleared AnswersAreCurrent NewestAreKept SomeoneProceeds
PROPERTIES NoLostUpdate ImplementsContract
CHECK_DEADLOCK FALSE

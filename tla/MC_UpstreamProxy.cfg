SPECIFICATION ProxySpec
CONSTANTS
  a = a
  b = b
  Calls = {c1, c2, c3}
  Registrars = {w1}
  ServerIds = {a, b}
  Offered <- MCOffered
  NoEntry = NoEntry
  Limit = 2
  Silent = {b}
INVARIANTS ProxyTypeOK DefaultServerIsKnown
PROPERTIES ImplementsSlots TasksEnd

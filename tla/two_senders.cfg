SPECIFICATION Spec
CONSTANTS
  a = a
  b = b
  f = f
  g = g
  title = title
  Sender = {a, b}
  File = {f, g}
  Size <- TwoShort
  Name <- SameName
  None = None
  MaxTransfers = 2
  MaxFaults = 0
INVARIANTS StoredIsSent
CHECK_DEADLOCK FALSE

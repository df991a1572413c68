SPECIFICATION FairSpec
CONSTANTS
  a = a
  b = b
  f = f
  g = g
  title = title
  Sender = {a}
  File = {f, g}
  Size <- LongAndShort
  Name <- SameName
  None = None
  MaxTransfers = 2
  MaxFaults = 2
INVARIANTS TypeOK StoredIsSent ManifestTellsStored AcknowledgedIsSaved
PROPERTIES SentArrives
CHECK_DEADLOCK FALSE

SPECIFICATION FairSpec
CONSTANTS
  f = f
  e = e
  bad = bad
  Files <- MCFiles
  Size <- MCSize
  Tampered <- MCTampered
  Programs <- MCPrograms
  MaxAttempts = 3
  MaxFaults = 2
INVARIANTS TypeOK CompletedIsWhole Concludes SendsOnlyMissing
PROPERTIES KeepsProgress AttemptsEnd Delivers
CHECK_DEADLOCK FALSE

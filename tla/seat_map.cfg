CONSTANTS
  a1 = a1  a2 = a2  b1 = b1  procA = procA  procB = procB
  Readers = {a1, a2, b1}
  Processes = {procA, procB}
  Home <- MCHome
  TTL = 2
  MaxSlow = 1
  MaxVersion = 2
  MaxFaults = 1
SPECIFICATION FairSpec
INVARIANTS
  TypeOK
  StaleBounded
  OneReadPerProcess
PROPERTY EveryReaderAnswered

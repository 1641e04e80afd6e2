SPECIFICATION Spec
CONSTANTS
  WordBits = 8
  Keys <- MCKeys
  IVs <- MCIVs
  Counters <- MCCounters
  KeyLengths = {128, 192, 256}
  Rounds = {1, 3}
  Messages <- MCMessages
  Lengths = {6, 64, 65}
  MaxCalls = 2
INVARIANTS
  ReaderRecovers
  CounterCountsCalls
CHECK_DEADLOCK FALSE

SPECIFICATION FairSpec
CONSTANTS
  Registers = 2
  sessionResetAfter = 3
  reconnectBackoffBase = 1
  reconnectBackoffMax = 3
  MaxResets = 4
  Byte = 4
INVARIANT TypeOK
INVARIANT NoMissedUpdate
INVARIANT DecodesPower
INVARIANT LoginsBackedOff
PROPERTY RunRecovers

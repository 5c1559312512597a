SPECIFICATION FairSpec
CONSTANTS
  PacketSize = 2
  PipePackets = 2
  MaxBuffers = 2
  DecodeSizes = {2, 3}
  SongLengths = {5}
  Lengths = {8, UnknownLength}
  Crossfade = 4
  SeekPoints = {0, 4}
  MaxSeeks = 2
  MaxStarts = 1
  UnknownLength = UnknownLength
INVARIANTS TypeOK AudioIntact StaleBounded NoBlockingWrite SlotFree NotifyProtocol EndIsEmpty EndAfterAllHeard SafeTeardown FailureExplained
PROPERTIES KeepsPromise EndNotified DestroyCompletes

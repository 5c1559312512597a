SPECIFICATION Spec
CONSTANTS
  PacketSize = 2
  PipePackets = 2
  MaxBuffers = 1
  DecodeSizes = {3}
  SongLengths = {9}
  Lengths = {9}
  Crossfade = 3
  SeekPoints = {7}
  MaxSeeks = 1
  MaxStarts = 1
  UnknownLength = UnknownLength
INVARIANT FailedIsUnexpected

SPECIFICATION FairSpec
CONSTANTS
  PacketSize = 3
  PipePackets = 2
  MaxBuffers = 2
  DecodeSizes = {5}
  SongLengths = {20}
  Lengths = {20}
  Crossfade = 4
  SeekPoints = {0}
  MaxSeeks = 0
  MaxStarts = 1
  UnknownLength = UnknownLength
PROPERTY RoomWaitEnds

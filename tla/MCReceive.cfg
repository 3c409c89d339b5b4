CONSTANTS
  MaxLen = 5
  ChunkSize = 3
  SmallObject = 2
  FrameSize = 2
  Hows <- AnyWay
SPECIFICATION Spec
INVARIANTS TypeOK ShortIsLast GrowsForMore StoresWhatArrived

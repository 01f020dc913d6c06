CONSTANTS
  x = x
  y = y
  Name = {x, y}
  NoName = NoName
  Awaited = {x}
  Size = {2, 12}
  Room = {4, 9}
  Overhead = 2
  MinSize = 2
  NumNodes = {2, 10}
  TransmitScale = 1
  MaxMessages = 3
SPECIFICATION QueueFairSpec
INVARIANTS ExistsMatchesQueue NoBroadcastLost NotifiedMeansGone
PROPERTY BroadcastGoesOut
CHECK_DEADLOCK FALSE

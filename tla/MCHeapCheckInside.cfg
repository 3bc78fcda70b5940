SPECIFICATION MCSpec
CONSTANTS
  Word = 16
  dataStart = 4
  dataEnd = 8
  HeaderSize = 1
  Blocks <- MCBlocks
  Outside <- MCOutside
  UserHeaps <- IntactHeaps
  TornHeaps <- MCTornHeaps
INVARIANTS
  AcceptedBlocksInside
CHECK_DEADLOCK FALSE

CONSTANTS
  MaxInt = 7
  MaxLargestInt = 127
  StackLimit = 9
  RightMargin = 9
  Samples <- MCSamples
  Edges <- MCEdges
  Names <- MCNames
  MaxNodes = 4
  MaxSize = 3
  PieceValue <- MCPieceValue
  Comments <- MCComments
  MaxPieces = 6
  Behind <- MCBehind
  MaxWrong = 2
SPECIFICATION Spec
CHECK_DEADLOCK FALSE
INVARIANT RoundTrip
INVARIANT ReadsJson
INVARIANT CommentsKept
INVARIANT ConversionsAgree
INVARIANT OrderTotal
PROPERTY ImplementsList

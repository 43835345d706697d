CONSTANTS
  t1 = t1
  t2 = t2
  Nobody = Nobody
  Threads <- TwoThreads
  Loggers <- TwoLoggers
  Root = "root"
  Files <- OneFile
  Stdout = "stdout"
  LoggerLevel <- LevelsOfLoggers
  AppenderLevel <- LevelsOfAppenders
  Levels <- TwoLevels
  Patterns <- OnePattern
  Default <- MessageLine
  Interval = 1
  MaxTime = 2
  Lines = 2
  Setups <- TwoSetups
  Configs = 1
  Rotations = 1
  Chars <- MCChars
  Letters <- MCLetters
  Pieces <- MCPieces
  Items <- MCItems
SPECIFICATION FairSpec
CHECK_DEADLOCK FALSE
INVARIANTS
  LinesWhole
  RotationNoticed
  PatternsParsed
PROPERTY CallsReturn

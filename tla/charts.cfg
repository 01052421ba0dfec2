SPECIFICATION Spec
CHECK_DEADLOCK FALSE
CONSTANTS
  Shapes <- MCShapes
  EarlyShapes <- MCEarlyShapes
  EarlyBars = 4
  MaxBars = 8
  SwingLength = 2
  InternalLength = 1
  EqualLength = 1
  AtrPeriod = 2
  EqualTenths = 5
  Confluence = FALSE
  MitigateOnClose = FALSE
  Filter <- MCFilter
  BlockCount = 2
  SwingBars = 1
  LiqMargin = 2
  Inverted = FALSE
  PoolReach = 50
  Sessions <- MCSessions
  Bullets <- MCBullets
  FirstHour = 20
  Interval = 6
  MonthDays = 30
  StatsWindow <- MCStatsWindow
  Zigzag = 2
  FibHundredths = 33
INVARIANTS GapsAsDefined BlocksAsDefined StructureAsDefined ZonesAsDefined LinesAsDefined SessionsAsDefined MsbZonesAsDefined SessionLineFits

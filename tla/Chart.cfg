SPECIFICATION ChartSpec
CONSTANTS
  Births <- SomeBirths
  Starts <- Clocks
  TICK = 8
  MaxTicks = 6
  Longitude <- EphemerisLongitude
  Horizon <- HorizonOf
CHECK_DEADLOCK FALSE
INVARIANTS GeometryIsExact PeersNameTheSame WindowDatesAreRight

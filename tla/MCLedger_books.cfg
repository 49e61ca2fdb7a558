SPECIFICATION Spec
CONSTANTS
  Hour = 6
  Day = 24
  IstOffset = 3
  MaxKw = 60
  MinWindow = 5
  PerHour = 6
  GapLimit = 4
  MaxRows = 2
  Scenes <- MCScenes
INVARIANTS TypeOK HourlyIsExact BookedWasMade BookedWasUsed NothingForgotten MetersAsObserved AlarmsMatch EventsAreRises BatteryKept
CHECK_DEADLOCK FALSE

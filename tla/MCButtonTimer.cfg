\* The timer's description, checked on the debouncer's timer.
SPECIFICATION ButtonSpec
CONSTANTS
  DebounceMax = 5
  HoldMax = 8
PROPERTIES
  TimerResetWhenLow

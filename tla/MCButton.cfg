\* A button whose timers run for five and for eight cycles, under every sequence of
\* input levels.
SPECIFICATION ButtonSpec
CONSTANTS
  DebounceMax = 5
  HoldMax = 8
INVARIANTS
  ButtonTypeOK
  HeldIsReported
PROPERTIES
  DebounceHolds
  Settles

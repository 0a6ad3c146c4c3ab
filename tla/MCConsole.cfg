CONSTANTS
  SINK_MAX = 3
  Chars = 1
  MaxCalls = 2
  MaxInterrupts = 2
SPECIFICATION Spec
INVARIANTS
  SinkDiscipline
  RightReceiver
PROPERTIES
  IdsStayTheirs
  PanicHalts

CONSTANTS
  Vectors <- MCVectors
  CpuErrorVectors <- MCCpuErrorVectors
  Handled <- MCHandled
  StackWords = 70
  MaxInterrupts = 2
  HALF = 4
  StubAddr <- MCStubAddr
SPECIFICATION Spec
INVARIANTS
  HandlerSeesRegisters
PROPERTIES
  ResumesExactly
  InterruptsEnd

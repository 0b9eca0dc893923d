CONSTANTS
  TIMER_CALLBACK_MAX_HANDLERS = 3
  f1 = f1
  f2 = f2
  NULL = NULL
  Callbacks <- MCCallbacks
  KernelRegisters <- FromKernel
  CallbackRegisters <- FromCallback
  Frequencies <- MCFrequencies
  MaxTicks = 3
SPECIFICATION Spec
CHECK_DEADLOCK FALSE
INVARIANTS
  TypeOK
PROPERTIES
  RegisteredStays
  EveryCallbackCalled
  TickEnds

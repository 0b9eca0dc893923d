CONSTANTS
  ISR_IST = 0
  ISR_FLAGS = 142
  SYSCALL_IST = 0
  SYSCALL_FLAGS = 142
  CODE_SELECTORS = {8}
  IF_SET = TRUE
  Exceptions <- MCExceptions
  Lines <- MCLines
  Numbers <- MCNumbers
  Registered <- MCRegistered
SPECIFICATION Spec
INVARIANTS
  ExceptionReported

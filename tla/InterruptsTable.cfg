CONSTANTS
  ISR_IST = 14
  ISR_FLAGS = 0
  SYSCALL_IST = 0
  SYSCALL_FLAGS = 14
  CODE_SELECTORS = {8}
  IF_SET = FALSE
  Exceptions <- MCExceptions
  Lines <- MCLines
  Numbers <- MCNumbers
  Registered <- MCRegistered
SPECIFICATION Spec
INVARIANTS
  TableInstalled

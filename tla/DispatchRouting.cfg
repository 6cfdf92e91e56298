SPECIFICATION Spec
CONSTANTS
  a = a
  b = b
  c = c
  Threads = {a, b}
  ModuleOf <- OwnModule
  MODULE_ID_MAIN_CONSOLE = 1
  MODULE_ID_ALL = 3
  SendTo = {0, 1, 2, 3}
  Fds = {f1, f2, f3, f4}
  DISPATCH_INVALID_FD = zero
  NoFd = NoFd
  Deleters = {}
  MayInterrupt = TRUE
  Recycle = FALSE
  Capacity = 1
  MaxSends = 2
SYMMETRY FdSymmetry
INVARIANTS
  TypeOK
  OnlyAddressed
  FifoPerSender

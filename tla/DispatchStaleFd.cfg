SPECIFICATION Spec
CONSTANTS
  a = a
  b = b
  c = c
  Threads = {a, b}
  ModuleOf <- OwnModule
  MODULE_ID_MAIN_CONSOLE = 1
  MODULE_ID_ALL = 3
  SendTo = {1, 2}
  Fds = {f1, f2, f3, f4}
  DISPATCH_INVALID_FD = zero
  NoFd = NoFd
  Deleters = {a, b}
  MayInterrupt = FALSE
  Recycle = FALSE
  Capacity = 2
  MaxSends = 1
SYMMETRY FdSymmetry
INVARIANTS
  OnlyAddressed

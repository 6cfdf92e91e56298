SPECIFICATION FairSpec
CONSTANTS
  a = a
  b = b
  c = c
  Threads = {a, b}
  ModuleOf <- OwnModule
  MODULE_ID_MAIN_CONSOLE = 1
  MODULE_ID_ALL = 3
  SendTo = {2}
  Fds = {f1, f2, f3, f4}
  DISPATCH_INVALID_FD = zero
  NoFd = NoFd
  Deleters = {}
  MayInterrupt = FALSE
  Recycle = TRUE
  Capacity = 1
  MaxSends = 0
PROPERTIES
  FullChannelDrains

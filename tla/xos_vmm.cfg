SPECIFICATION Spec
CONSTANTS
  T = 8
  KpaBase = 24
  KvaBase = 32
  FbVa = 8
  UserStart = 0
  UserStack = 8
  MmioBase = 56
  UserPages = 3
  FbPages = 3
  Layouts <- MCLayouts
INVARIANTS KernelStaysMapped TablesIntact UserIsolated UserReady

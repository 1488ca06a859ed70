SPECIFICATION ServeSpec
CONSTANTS
  Clients = {g1, g2}
  g1 = g1
  g2 = g2
  Packages <- MCPackages
  Paths <- MCPaths
  MaxDepth = 3
  MaxLoads = 2
  MaxOpens = 1
INVARIANTS
  FileHoldsItsData
SYMMETRY ClientSymmetry
CHECK_DEADLOCK FALSE

\* Three loads and one opened file, or one load and three opened files.
SPECIFICATION ServeSpec
CONSTANTS
  Clients = {g1, g2}
  g1 = g1
  g2 = g2
  Packages <- MCPackages
  Paths <- MCPaths
  MaxDepth = 3
  MaxLoads = 3
  MaxOpens = 3
INVARIANTS
  OneRomFs
PROPERTIES
  ProgramsRomFs
  HandlesKept
SYMMETRY ClientSymmetry
CHECK_DEADLOCK FALSE

\* One program: an if.
SPECIFICATION ShaderSpec
CONSTANTS
    Regions <- If
    MaxSize = 8
INVARIANT BranchesLand
CHECK_DEADLOCK FALSE

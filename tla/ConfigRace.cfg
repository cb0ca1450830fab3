SPECIFICATION MCSpec
CONSTANTS
    Procs = {p1, p2}
    Projects = {a}
    NoProject = none
    NoKey = nokey
    Seed = seed
    Absent = absent
    EnvironmentKey = FALSE
SYMMETRY Processes
PROPERTIES
    LogoutPreservesTheProject
CHECK_DEADLOCK FALSE

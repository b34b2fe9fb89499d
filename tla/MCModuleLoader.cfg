CONSTANTS
    m1 = m1
    m2 = m2
    m3 = m3
    Missing = Missing
    Modules <- MCModules
    MaxRuns = 2
SPECIFICATION Spec
SYMMETRY MCSymmetry
INVARIANTS LoadingIsStack LoadedCompleted AtMostOnce CircularIsReal
CHECK_DEADLOCK FALSE

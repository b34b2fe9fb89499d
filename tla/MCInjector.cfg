CONSTANTS
    first = first
    second = second
    Runs <- MCRuns
SPECIFICATION Spec
SYMMETRY MCSymmetry
INVARIANTS InjectDllReturns PathFault ExportsMapped UiAsAsked
CHECK_DEADLOCK FALSE

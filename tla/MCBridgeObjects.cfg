CONSTANTS
    list = list
    dict = dict
    x = x
    w1 = w1
    w2 = w2
    i1 = i1
    None = None
    Objs <- MCObjs
    Lists = {list}
    Dicts = {dict}
    Wrappers <- MCWrappers
    Iters = {i1}
    MaxItems = 2
    MaxTaken = 1
    MaxStolen = 2
SYMMETRY MCSymmetry
SPECIFICATION Spec
INVARIANTS RefsAccounted OwnedSafe PythonSafe
CHECK_DEADLOCK FALSE

SPECIFICATION Spec
CONSTANTS
    Dir = {d1}
    Id = {1, 2}
    Proc = {p1, p2}
    None = None
    StickyTTL = 0
    Grace = 1
    MaxTime = 2
    Removable = {1}
    MaxRemoves = 1
    MaxSelects = 2
    MaxBusy = 2
SYMMETRY Symmetry
INVARIANTS
    NothingInherited
PROPERTIES
    ManualPinsStay
    ReapTruth

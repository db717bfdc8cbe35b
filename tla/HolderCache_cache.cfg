\* A directory, a refresh beside the supervisor's, a worker, one failure.
SPECIFICATION Spec
CONSTANTS
    Dir = {d1}
    Proc = {p1, p2}
    Reader = {r1}
    Worker = {w1}
    Sup = Sup
    Cache = Cache
    Plan = Plan
    None = None
    MaxFaults = 1
SYMMETRY Symmetry
INVARIANTS
    NoFalseVouch
    NoLostMount
PROPERTIES
    KillsOnlyRetired
    SparesAdds
    NoResurrection

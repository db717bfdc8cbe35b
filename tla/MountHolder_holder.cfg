\* Two connections and two holder processes around one directory, with three
\* failures anywhere.
SPECIFICATION Spec
CONSTANTS
    Dir = {d1}
    Proc = {h1, h2}
    Req = {r1, r2}
    None = None
    MaxFaults = 3
SYMMETRY Symmetry
INVARIANTS
    SocketReaches
    NeverStacked
    RegistersAgree
    NoneLeftBehind
    CondemnedRightly
PROPERTIES
    RepliesHonest

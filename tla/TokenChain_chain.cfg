\* The poll, a preflight of the daemon, a ccp process and two claudes, with one
\* failure anywhere and two refreshes.
SPECIFICATION Spec
CONSTANTS
    Preflight = {p1}
    Cli = {c1}
    Claude = {k1, k2}
    Poll = Poll
    None = None
    MaxIssued = 2
    MaxFaults = 1
SYMMETRY Symmetry
INVARIANTS
    ChainKept
    NoDoubleSpend
    RefreshUnseenOnly
PROPERTIES
    RefreshesAtomic

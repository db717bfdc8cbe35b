\* Everyone contends for one directory: two selects, two migrates, the loop
\* and the supervisor, with one failure anywhere.
SPECIFICATION Spec
CONSTANTS
    Account = {a1}
    Client = {c1, c2}
    Migrator = {m1, m2}
    None = None
    MaxRestarts = 0
    MaxFaults = 1
    Daemonless = FALSE
SYMMETRY Symmetry
INVARIANTS
    ClaimsMatchOwners
    SoleMutator
    NoRemakeUnderClient
    ReplaceFenced
PROPERTIES
    SessionKeepsMirror
    ImplementsLease

\* Goroutines that keep running, and a client that never asks the daemon, with
\* one failure anywhere and one restart. No symmetry: liveness.
SPECIFICATION HealSpec
CONSTANTS
    Account = {a1}
    Client = {c1}
    Migrator = {m1}
    None = None
    MaxRestarts = 1
    MaxFaults = 1
    Daemonless = TRUE
INVARIANT
    NoRemakeUnderClient
PROPERTIES
    ClaimsReleased
    MirrorRestored

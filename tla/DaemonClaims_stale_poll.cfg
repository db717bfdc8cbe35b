\* A poll heals a row listed before a migrate changed it.
SPECIFICATION Spec
CONSTANTS
    Account = {a1}
    Client = {c1}
    Migrator = {m1}
    None = None
    MaxRestarts = 0
    MaxFaults = 0
    Daemonless = FALSE
SYMMETRY Symmetry
PROPERTIES
    PollSparesSymlinkRows

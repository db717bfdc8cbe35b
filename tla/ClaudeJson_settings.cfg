\* Two sessions of one account, with a mirror or without, beside a claude that
\* has none; two preferences are set, and one thing fails.
SPECIFICATION Spec
CONSTANTS
    a1 = a1
    Account = {a1}
    Session = {s1, s2}
    Home <- Homes
    Vanilla = Vanilla
    PrivateKey = {identity}
    SharedKey = {theme, trust}
    NoVal = NoVal
    Absent = Absent
    Corrupt = Corrupt
    None = None
    MaxStamp = 2
    MaxFaults = 1
SYMMETRY Symmetry
INVARIANTS
    IdentityStaysHome
    ViewFresh
    NoCommitForgotten
PROPERTIES
    PushKeepsOthers

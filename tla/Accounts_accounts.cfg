SPECIFICATION AccountsSpec
CONSTANTS
    Index = {1, 2}
    User = {u1, u2}
    Adder = {a1, a2}
    Remover = {r1, r2}
    Main = Main
    Nil = Nil
    Backend = {"item", "file"}
    MaxAdds = 3
    MaxLoose = 1
    MaxFaults = 1
SYMMETRY Symmetry
INVARIANTS
    OwnLogin
PROPERTIES
    AccountsStay
CHECK_DEADLOCK FALSE

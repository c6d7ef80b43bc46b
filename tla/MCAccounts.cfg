\* Two users, two clients, three accounts, and a lookup of each user that fails.
SPECIFICATION Spec
CONSTANTS
    Users = {u1, u2}
    Clients = {c1, c2}
    AccountIds = {a1, a2, a3}
    None = None
    MaxMisled = 1
SYMMETRY MCSymmetry
INVARIANTS TypeOK AccountsBound Reachable NobodyElse

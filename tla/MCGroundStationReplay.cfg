CONSTANTS
    p1 = p1
    alice = alice
    root = root
    h1 = h1
    h2 = h2
    NoUser = NoUser
    NoPass = NoPass
    NoSet = NoSet
    Passes = {p1}
    Users = {root}
    Role <- MCRole
    Handlers = {h1, h2}
    Aos <- MCAos
    Los <- MCLos
    PrePassBuffer = 0
    PostPassBuffer = 1
    MinimumLeadTime = 1
    Lead = 0
    PostRoll = 0
    MaxTime = 1
    MaxEdits = 1
    MaxCrashes = 1
SPECIFICATION Spec
INVARIANTS NeverReplayed
SYMMETRY HandlerSymmetry

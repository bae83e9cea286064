CONSTANTS
    p1 = p1
    p2 = p2
    alice = alice
    root = root
    h1 = h1
    h2 = h2
    NoUser = NoUser
    NoPass = NoPass
    Passes = {p1, p2}
    Users = {alice, root}
    Handlers = {h1, h2}
    Role <- MCRole
    Aos <- MCAos
    Los <- MCLos
    PrePassBuffer = 1
    PostPassBuffer = 1
    MinimumLeadTime = 2
    MaxTime = 1
    MaxEdits = 1
SPECIFICATION Spec
INVARIANTS TypeOK NoDoubleBooking OverrideExplained
PROPERTIES TerminalIsFinal PlanBeforeApproval BookingRefined
SYMMETRY HandlerSymmetry

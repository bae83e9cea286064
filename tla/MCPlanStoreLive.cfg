CONSTANTS
    p1 = p1
    p2 = p2
    g1 = g1
    g2 = g2
    NoPass = NoPass
    NoPlan = NoPlan
    Withdrawn = Withdrawn
    NoSet = NoSet
    Passes = {p1, p2}
    Generations = {g1}
    Aos <- MCAos
    Los <- MCLos
    Lead = 0
    PostRoll = 0
    MaxTime = 2
    MaxCrashes = 1
    MaxChanges = 2
SPECIFICATION FairSpec
INVARIANTS NeverReplayed
PROPERTIES EveryPlanIsClosed EverythingIsReported

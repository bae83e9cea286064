CONSTANTS
    p1 = p1
    p2 = p2
    g1 = g1
    g2 = g2
    NoPass = NoPass
    NoPlan = NoPlan
    Withdrawn = Withdrawn
    NoSet = NoSet
    Passes = {p1, p2}
    Generations = {g1, g2}
    Aos <- MCAos
    Los <- MCLos
    Lead = 0
    PostRoll = 1
    MaxTime = 3
    MaxCrashes = 1
    MaxChanges = 2
SPECIFICATION Spec
INVARIANTS TypeOK HistoryAgrees SyncedWasDelivered
PROPERTIES OutcomeIsFinal CancelledNeverStarts

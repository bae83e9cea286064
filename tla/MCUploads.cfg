CONSTANTS
    r1 = r1
    r2 = r2
    r3 = r3
    alice = alice
    root = root
    Recordings = {r1, r2}
    Unsettled = {r2}
    Undeletable = {}
    Handlers = {h1, h2}
    Users = {alice, root}
    Role <- MCRole
    Owner <- MCOwner
    Public = {r2}
    NoRecording = NoRecording
    NoHandler = NoHandler
    MaxFaults = 1
SPECIFICATION FairSpec
INVARIANTS TypeOK RowsAreIntact ConfirmedIsStored ListedIsServed
PROPERTIES UnconfirmedGoesLast Arrives StaysInTouch

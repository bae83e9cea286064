CONSTANTS
    r1 = r1
    r2 = r2
    r3 = r3
    alice = alice
    root = root
    Recordings = {r1}
    Unsettled = {}
    Undeletable = {}
    Handlers = {h1, h2}
    Users = {alice, root}
    Role <- MCRole
    Owner <- MCOwner
    Public = {}
    NoRecording = NoRecording
    NoHandler = NoHandler
    MaxFaults = 2
SPECIFICATION Spec
INVARIANT FailedUploadCostsNothing

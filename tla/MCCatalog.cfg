CONSTANTS
    SatIds = {1, 2}
    Norads = {1, 2}
    Epochs = {1, 2}
    Providers = 2
    PipelineIds = {1}
    PipelineNames = {n1}
    Handlers = {h1}
    Loop = loop
    MaxPasses = 1
    None = None
SPECIFICATION FairSpec
INVARIANTS TypeOK RecordsHangTogether
PROPERTIES CurrentNeverGoesBack ElementsArrive

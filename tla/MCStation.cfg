CONSTANTS
    Requests = {q1, q2}
    Names = {n1, n2}
    Bands = {vhf, uhf}
    Fields = {center_frequency_hz, sample_rate_hz}
    Leads = {1, 2, 3}
    None = None
    MaxTime = 2
    MaxRequests = 3
SPECIFICATION Spec
INVARIANTS TypeOK
PROPERTIES EffectiveNeverReturns PendingIsWhatComes ShorteningIsDelayed BandIsAskedFor PlannableStays
SYMMETRY StationSymmetry
CHECK_DEADLOCK FALSE

CONSTANTS
    MaxUploads = 1
    Payloads <- FixturePayloads
SPECIFICATION Spec
CHECK_DEADLOCK FALSE
INVARIANTS
    OneSeriesPerChannel

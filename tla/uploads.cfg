CONSTANTS
    MaxUploads = 2
    Payloads <- SmallPayloads
SPECIFICATION Spec
CHECK_DEADLOCK FALSE
INVARIANTS
    TypeOK
    SampleFaithful
    ErrorsTolerated
    MappedChannelIsLast

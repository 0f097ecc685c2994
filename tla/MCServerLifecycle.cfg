SPECIFICATION Spec
CONSTANTS
    Tracing = TRUE
    JWT = TRUE
    MaxRequests = 2
INVARIANTS
    ReadyMeansUp
    DatabaseOutlivesRequests
PROPERTIES
    StopsWhenAsked
    BecomesReady

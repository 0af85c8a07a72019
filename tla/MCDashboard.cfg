SPECIFICATION Spec
CONSTANTS
    s1 = s1
    Whole = Whole
    NoService = NoService
    AnyType = AnyType
    Pages = {"metrics", "events", "history"}
    EventTypes = {"REQUEST_STARTED", "RETRY_ATTEMPT"}
    Capacity = 2
    Interval <- MCInterval
    Filters <- MCFilters
    Timeout = 2
    HistoryCap = 2
    MaxChanges = 3
INVARIANTS
    ShownWithin
    ListIsNewestMatching
PROPERTIES
    NeverBackInTime
    SeriesFollowsTheGateway

SPECIFICATION FairGallerySpec
CONSTANTS
    Clients = {c, d}
    Viewers = {c}
    MaxEvents = 2
    Limit = 1
    CreatedAt <- InOrder
CHECK_DEADLOCK FALSE
INVARIANTS
    BrokerTypeOK
    RegistryIsExact
    EveryEventAccountedFor
    GalleryTypeOK
    PagingLeavesNoGap
    RepeatsNeedArrivals
    NothingElseIsLost
PROPERTIES
    EventsGetThrough
    GoneLeaves
    OpenPagesAreStreamed
    ImplementsFeed

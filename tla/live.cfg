SPECIFICATION FairSpec
CONSTANTS
    None = None
    r1 = r1
    s1 = s1
    Events = {e1}
    Stores = {s1}
    Kind <- AllFresh
    Names = {"a.jpg", "thumb_a.webp"}
    UploadNames = {"a.jpg"}
    ThumbName <- Webp
    MediaTypes = {"image"}
    FreshIds = {i1, i2, i3, i4}
    Uploads = {u1, u2}
    Requests = {r1}
    RequestOf <- OneRequest
    Workers = {w1}
    Readers = {w1}
    Embedded = FALSE
    Faults = {"cache"}
CHECK_DEADLOCK FALSE
PROPERTIES
    RequestsAreAnswered
    QueuedIsShown
    JourneysGoOn

SPECIFICATION Spec
CONSTANTS
    None = None
    r1 = r1
    s1 = s1
    Events = {e1}
    Stores = {s1}
    Kind <- AllNamed
    Names = {"a.jpg", "thumb_a.webp"}
    UploadNames = {"a.jpg"}
    ThumbName <- Webp
    MediaTypes = {"image"}
    FreshIds = {}
    Uploads = {u1, u2}
    Requests = {u1, u2}
    RequestOf <- OwnRequest
    Workers = {w1}
    Readers = {w1}
    Embedded = FALSE
    Faults = {}
SYMMETRY Interchangeable
CHECK_DEADLOCK FALSE
INVARIANTS
    AcceptedIsKeptOnEveryStore

SPECIFICATION Spec
CONSTANTS
    None = None
    r1 = r1
    s1 = s1
    Events = {e1}
    Stores = {s1}
    Kind <- AllFresh
    Names = {"a.jpg", "thumb_a.webp"}
    UploadNames = {"a.jpg"}
    ThumbName <- Webp
    MediaTypes = {"image", "video"}
    FreshIds = {i1, i2, i3, i4}
    Uploads = {u1, u2}
    Requests = {r1}
    RequestOf <- OneRequest
    Workers = {w1, w2}
    Readers = {w1, w2}
    Embedded = FALSE
    Faults = {"crash"}
SYMMETRY Interchangeable
CHECK_DEADLOCK FALSE
INVARIANTS
    OneThumbnailPerFile
    ThumbnailsDepictTheirFiles
    MessagesFollowRows

SPECIFICATION Spec
CONSTANTS
    None = None
    Operator = p2
    People = {p1, p2}
    Admin = "admin"
    Names = {"admin", "ann"}
    Wanted <- GuestNames
    Requests = {r1, r2}
    Server = "server"
    Processes = {"server", "thumbnailer"}
    UserIds = {1, 2}
    TokenIds = {1, 2}
    EventIds = {1}
    Filled <- TwoForms
    Drivers = {"mysql"}
    Faults = {"db"}
SYMMETRY Interchangeable
INVARIANTS
    OrganisersTypeOK
    NamesAreUnique
    SessionsKeepTheirUser
    OnlyUnlinkingPanics
    UnlinkingIsComplete
    StoredAsIntended
PROPERTIES
    NamesAreStable
    OwnersDecide

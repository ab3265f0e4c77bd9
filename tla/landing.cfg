SPECIFICATION Spec
CONSTANTS
    None = None
    Ids = {1, 2, 3}
    Sessions = {p, q}
    Drivers = {"sqlite", "mysql"}
    Faults = {"db"}
SYMMETRY Alike
INVARIANTS
    EventTableTypeOK
    ReadsStayCurrent
PROPERTIES
    LandingNeverLost
    KeepsRegister

SPECIFICATION Spec
CONSTANTS
    None = None
    Ids = {1, 2, 3}
    Sessions = {p, q}
    Drivers = {"mysql"}
    Faults = {}
SYMMETRY Alike
INVARIANTS
    AtMostOneActive

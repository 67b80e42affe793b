\* An office is created, updated by two requests at a time, and removed.
SPECIFICATION OfficeSpec
CONSTANTS
    NONE = NONE
    GONE = GONE
    s1 = s1  s2 = s2
    l1 = l1  l2 = l2  l3 = l3
    w1 = w1  w2 = w2  w3 = w3
    u1 = u1  u2 = u2  u3 = u3
    States = {s1, s2}
    Lgas = {l1, l2, l3}
    Wards = {w1, w2, w3}
    PollingUnits = {u1, u2, u3}
    StateOf <- MCStateOf
    LgaOf <- MCLgaOf
    WardOf <- MCWardOf
    Bodies <- MCBodies
    Updates = {a, b}
INVARIANTS
    OfficeTypeOK
    LevelsAgree
PROPERTIES
    UncontestedSavesFit
    UncontestedAreasInState
SYMMETRY MCAnyUpdate
CHECK_DEADLOCK FALSE

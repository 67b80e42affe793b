\* One member, two requests at a time, which may move it to campaign ca.
SPECIFICATION TeamsSpec
CONSTANTS
    NONE = NONE
    KEEP = KEEP
    s1 = s1
    l1 = l1  l2 = l2
    w1 = w1  w2 = w2  w3 = w3
    u1 = u1  u3 = u3
    ca = ca  cb = cb
    States = {s1}
    Lgas = {l1, l2}
    Wards = {w1, w2, w3}
    PollingUnits = {u1, u3}
    StateOf <- MCStateOf
    LgaOf <- MCLgaOf
    WardOf <- MCWardOf
    Members = {m}
    Campaigns = {ca, cb}
    OfficeOf <- MCOfficeOf
    Actors <- MCActors
    Requests = {r, q}
    Bodies <- MCBodies
INVARIANTS
    TeamsTypeOK
    AreasWithinOffice
PROPERTIES
    ActorsStayInScope
    UndisturbedUpdatesFit
SYMMETRY MCAnyRequest
CHECK_DEADLOCK FALSE

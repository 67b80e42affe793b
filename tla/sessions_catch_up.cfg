\* A guarded request, a sign-in and two changes at a time.
SPECIFICATION SessionSpec
CONSTANTS
    NONE = NONE
    Guards = {g, h}
    SignIns = {s}
    Writers = {w, x}
    Roles = {r1, r2}
INVARIANTS
    SessionTypeOK
PROPERTIES
    ChangesReachSessions

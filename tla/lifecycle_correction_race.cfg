\* A correction and a review of the same result race.
SPECIFICATION Spec
CONSTANTS
    NONE = NONE
    Users = {u1}
    Mobile = {}
    Aspirants = {a1}
    Stations = {st}
    ResultIds = {r1, r2}
    Submits = {s1, s2}
    Reviews = {v1}
PROPERTIES
    OnlyOpenResultsCorrected
CHECK_DEADLOCK FALSE

\* Two campaigns whose teams do not change; three submissions at one station
\* race with each other and with a review.
SPECIFICATION Spec
CONSTANTS
    NONE = NONE
    Users = {u1, u2}
    Mobile = {}
    Aspirants = {a1, a2}
    Stations = {st}
    ResultIds = {r1, r2, r3}
    Submits = {s1, s2, s3}
    Reviews = {v1}
SYMMETRY Symmetry
INVARIANTS
    TypeOK
    OneResultPerCampaign
    BreakdownIsOneSubmission
    CampaignOwnsFigures
CHECK_DEADLOCK FALSE

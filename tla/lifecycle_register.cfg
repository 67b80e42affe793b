\* An agent moves between the two campaigns, or out of any, while two
\* submissions race with a review: the refinement, and progress.
SPECIFICATION FairSpec
CONSTANTS
    NONE = NONE
    Users = {u1}
    Mobile = {u1}
    Aspirants = {a1, a2}
    Stations = {st}
    ResultIds = {r1, r2}
    Submits = {s1, s2}
    Reviews = {v1}
INVARIANTS
    VerifiedFlagAgrees
    VerifiedByRight
PROPERTIES
    ImplementsRegister
    EverySubmitAnswered
CHECK_DEADLOCK FALSE

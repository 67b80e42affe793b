\* Two campaigns at one polling unit, one submission, a polling client of
\* the party summary and of the situation room, until the results rest.
SPECIFICATION DashboardFairSpec
CONSTANTS
    NONE = NONE
    ALL = ALL
    Stations = {st}
    Aspirants = {a1, a2}
    Submits = {s1}
    Readers = {r1}
    Kinds = {"summary", "situation-room"}
    Followed = {"progress", "standings"}
INVARIANTS
    AnswersStayInScope
PROPERTIES
    DashboardCatchesUp
CHECK_DEADLOCK FALSE

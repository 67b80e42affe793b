\* A report, a change of status or a removal, two at a time, while the office of
\* a campaign changes; the entry of one of them in the trail.
SPECIFICATION IncidentsSpec
CONSTANTS
    NONE = NONE
    ABSENT = ABSENT
    n = n
    l1 = l1
    l2 = l2
    w1 = w1
    w2 = w2
    u1 = u1
    u2 = u2
    a = a
    States = {n}
    Lgas = {l1, l2}
    Wards = {w1, w2}
    PollingUnits = {u1, u2}
    StateOf <- MCStateOf
    LgaOf <- MCLgaOf
    WardOf <- MCWardOf
    Campaigns = {a}
    Offices <- MCOffices
    Profiles <- MCProfiles
    Actors <- MCActors
    Old = {i}
    Earlier <- MCEarlier
    Statuses = {"RESOLVED"}
    Dtos <- MCDtos
    Requests = {x, y}
    Followed = {x}
INVARIANTS
    IncidentsTypeOK
    SuccessesHold
    EntriesSurviveAFault
PROPERTIES
    ReportsFit
    EntriesSettle
CHECK_DEADLOCK FALSE

\* Two submissions race with an upload of a report and with reviews.
SPECIFICATION FiguresSpec
CONSTANTS
    NONE = NONE
    Submits = {s1, s2}
    Uploads = {w1}
    Casts = {1, 2}
    Counts = {0, 1}
INVARIANTS
    FiguresTypeOK
PROPERTIES
    ScreenedAsStored
    LinkIsKept
CHECK_DEADLOCK FALSE

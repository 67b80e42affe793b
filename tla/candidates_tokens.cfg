\* Two creations and another request for a token, one use at a time, and two
\* addresses; requests are made once, so that all may come to an end.
SPECIFICATION CandidatesSpec
CONSTANTS
    NONE = NONE
    c = c
    d = d
    x = x
    Addresses = {a, b}
    Issues <- MCIssues
    Creations <- MCCreations
    Tickets = {t}
    Uses = {u}
SYMMETRY MCSymmetry
INVARIANTS
    CandidatesTypeOK
PROPERTIES
    UncontestedCandidatesUnique
    UncontestedIssueLeavesOne
CHECK_DEADLOCK FALSE

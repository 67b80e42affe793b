\* A file, a creation and a request to the states at a time, and every other
\* change of the two levels at any moment.
SPECIFICATION UploadSpec
CONSTANTS
    NONE = NONE
    EMPTY = EMPTY
    p = p
    q = q
    c = c
    d = d
    n = n
    m = m
    Parents = {p, q}
    Codes = {c, d}
    Names = {n, m}
    Creates = {x}
    StateWrites = {w}
    Jobs = {j}
    Files <- MCFiles
    Batches <- MCBatches
    Wanted <- MCWanted
INVARIANTS
    UploadTypeOK
    EachRowAccounted
    ReportedRowsAreThere
PROPERTIES
    UploadsOnlyAdd
    UncontestedCreatesUnique
    EveryUploadReported
    ListCatchesUp

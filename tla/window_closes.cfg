\* One request after the other asks for admission while two updates may cross.
SPECIFICATION WindowSpec
CONSTANTS
    NONE = NONE
    Guards = {g}
    Updates = {u, v}
    Bodies <- MCBodies
INVARIANTS
    WindowTypeOK
PROPERTIES
    ClosedInTheEnd

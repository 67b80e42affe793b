-------------------------- MODULE OfficeBoundaries --------------------------
(***************************************************************************)
(* An electoral office through its life: created once, updated by          *)
(* requests that load it, validate and change their copy, and save it, and *)
(* removed.  A save selects the office again, row, LGAs and wards, and     *)
(* writes what differs from the copy; two saves that overlap may leave a   *)
(* mixture of both copies.                                                 *)
(***************************************************************************)
EXTENDS Places, Saves

CONSTANTS
    Updates,   \* update requests that may be under way at a time
    Bodies,    \* the bodies they may carry
    GONE       \* the office after its removal

VARIABLES
    office,    \* NONE before create, GONE after remove
    updates    \* the local state of each update

officeVars == <<office, updates>>

\* A field that a body leaves out is NONE here.
Body == [category : Category \cup {NONE}, state : States \cup {NONE},
         lgas : (SUBSET Lgas) \cup {NONE}, wards : (SUBSET Wards) \cup {NONE}]

ASSUME BodiesAssumption == Bodies \subseteq Body

ASSUME NoOfficeAssumption == NONE \notin Office /\ GONE \notin Office /\ NONE # GONE

Idle == [pc |-> "idle"]

Areas == {"lgas", "wards"}

\* What a save has found of the office is known from its first select on.
UpdateRequest ==
    {Idle}
      \cup [pc : {"save"}, copy : Office, named : SUBSET Areas]
      \cup [pc : {"lgas", "wards"}, copy : Office, named : SUBSET Areas, found : Office]
      \cup [pc : {"write"}, copy : Office, named : SUBSET Areas, found : Office \cup {GONE}]

OrKept(new, old) == IF new # NONE THEN new ELSE old
----------------------------------------------------------------------------
\* What create accepts.
Creatable(b) ==
    /\ b.category # NONE
    /\ b.category # "PRESIDENTIAL" => b.state # NONE
    /\ b.category = "SENATORIAL" => b.lgas \notin {NONE, {}}
    /\ b.category \in Legislative => b.lgas \notin {NONE, {}} \/ b.wards \notin {NONE, {}}
    /\ b.category \in Legislative \cup {"SENATORIAL"} =>
           OrKept(b.lgas, {}) \subseteq LgasIn(b.state)
    /\ b.category \in Legislative => OrKept(b.wards, {}) \subseteq WardsOfState(b.state)

\* ... and what it stores: areas that the category does not have are dropped.
Created(b) ==
    [category |-> b.category,
     state    |-> IF b.category = "PRESIDENTIAL" THEN NONE ELSE b.state,
     lgas     |-> IF b.category \in Legislative \cup {"SENATORIAL"}
                  THEN OrKept(b.lgas, {}) ELSE {},
     wards    |-> IF b.category \in Legislative THEN OrKept(b.wards, {}) ELSE {}]

AcceptableInOldState(o, b) ==
    LET category == OrKept(b.category, o.category)
    IN category # "PRESIDENTIAL" =>
         /\ OrKept(b.state, o.state) # NONE
         /\ category \in Legislative \cup {"SENATORIAL"} /\ b.lgas # NONE =>
                b.lgas \subseteq LgasIn(OrKept(o.state, b.state))
         /\ category \in Legislative /\ b.wards # NONE =>
                b.wards \subseteq WardsOfState(OrKept(o.state, b.state))

\* What update accepts: the areas that the body names must be in the state
\* the office will have; the areas it keeps are not looked at.
Acceptable(o, b) ==
    LET category == OrKept(b.category, o.category)
        state    == OrKept(b.state, o.state)
    IN category # "PRESIDENTIAL" =>
         /\ state # NONE
         /\ category \in Legislative \cup {"SENATORIAL"} /\ b.lgas # NONE =>
                b.lgas \subseteq LgasIn(state)
         /\ category \in Legislative /\ b.wards # NONE =>
                b.wards \subseteq WardsOfState(state)

UpdatedAsNamed(o, b) ==
    [category |-> b.category,
     state    |-> IF b.category = "PRESIDENTIAL" THEN NONE ELSE OrKept(b.state, o.state),
     lgas     |-> OrKept(b.lgas, o.lgas),
     wards    |-> OrKept(b.wards, o.wards)]

UpdatedKeepingWards(o, b) ==
    LET category == OrKept(b.category, o.category)
    IN [category |-> category,
        state    |-> IF category = "PRESIDENTIAL" THEN NONE ELSE OrKept(b.state, o.state),
        lgas     |-> IF category \in Legislative \cup {"SENATORIAL"}
                     THEN OrKept(b.lgas, o.lgas) ELSE {},
        wards    |-> IF category # "PRESIDENTIAL" THEN OrKept(b.wards, o.wards) ELSE {}]

\* ... and what it makes of its copy.
Updated(o, b) ==
    LET category == OrKept(b.category, o.category)
    IN [category |-> category,
        state    |-> IF category = "PRESIDENTIAL" THEN NONE ELSE OrKept(b.state, o.state),
        lgas     |-> IF category \in Legislative \cup {"SENATORIAL"}
                     THEN OrKept(b.lgas, o.lgas) ELSE {},
        wards    |-> IF category \in Legislative THEN OrKept(b.wards, o.wards) ELSE {}]
----------------------------------------------------------------------------
OfficeInit ==
    /\ office = NONE
    /\ updates = [u \in Updates |-> Idle]

Create ==
    /\ office = NONE
    /\ \E b \in Bodies : Creatable(b) /\ office' = Created(b)
    /\ UNCHANGED updates

\* findOne, validation and the changes to the copy.
Load(u) ==
    /\ updates[u].pc = "idle"
    /\ office \notin {NONE, GONE}
    /\ \E b \in Bodies :
         /\ Acceptable(office, b)
         /\ updates' = [updates EXCEPT ![u] =
                           [pc |-> "save", copy |-> Updated(office, b),
                            named |-> {f \in Areas : b[f] # NONE}]]
    /\ UNCHANGED office

\* save() selects the row by its id, ...
SelectOffice(u) ==
    /\ updates[u].pc = "save"
    /\ updates' = [updates EXCEPT ![u] =
          [pc |-> IF office = GONE THEN "write" ELSE "lgas", copy |-> updates[u].copy,
           named |-> updates[u].named, found |-> office]]
    /\ UNCHANGED office

\* ... then the ids in each join table, ...
SelectAreas(u) ==
    /\ updates[u].pc \in Areas
    /\ LET f == updates[u].pc
       IN updates' = [updates EXCEPT ![u] =
             [pc |-> IF f = "lgas" THEN "wards" ELSE "write", copy |-> updates[u].copy,
              named |-> updates[u].named,
              found |-> [updates[u].found EXCEPT ![f] =
                            IF office = GONE THEN {} ELSE office[f]]]]
    /\ UNCHANGED office

\* ... and writes what differs.  An office that it did not find is inserted,
\* unless it is there again; of one that is gone by now nothing is written.
Written(copy, found) ==
    IF GONE \in {found, office} THEN IF found = office THEN copy ELSE office
    ELSE IF \E f \in Areas : Clash(office[f], copy[f], found[f]) THEN office
    ELSE [category |-> Column(office.category, copy.category, found.category),
          state    |-> Column(office.state, copy.state, found.state),
          lgas     |-> List(office.lgas, copy.lgas, found.lgas),
          wards    |-> List(office.wards, copy.wards, found.wards)]

WriteOffice(u) ==
    /\ updates[u].pc = "write"
    /\ office' = Written(updates[u].copy, updates[u].found)
    /\ updates' = [updates EXCEPT ![u] = Idle]

\* The update fails or its process ends.
UpdateDies(u) ==
    /\ updates[u].pc # "idle"
    /\ updates' = [updates EXCEPT ![u] = Idle]
    /\ UNCHANGED office

Remove ==
    /\ office \notin {NONE, GONE}
    /\ office' = GONE
    /\ UNCHANGED updates

UpdateStep(u) == SelectOffice(u) \/ SelectAreas(u) \/ WriteOffice(u) \/ UpdateDies(u)

OfficeNext ==
    \/ Create
    \/ Remove
    \/ \E u \in Updates : Load(u) \/ UpdateStep(u)

OfficeSpec == OfficeInit /\ [][OfficeNext]_officeVars
----------------------------------------------------------------------------
Stored == office \notin {NONE, GONE}

\* Type correctness of the office and of the updates under way.
OfficeTypeOK ==
    /\ office \in Office \cup {NONE, GONE}
    /\ updates \in [Updates -> UpdateRequest]

\* A presidential office has neither state nor areas, a gubernatorial one a
\* state alone, the others a state, and wards are the legislative ones'.
ScopeFits(o) ==
    /\ o.category = "PRESIDENTIAL" <=> o.state = NONE
    /\ o.category \in {"PRESIDENTIAL", "GUBERNATORIAL"} => o.lgas = {}
    /\ o.category \notin Legislative => o.wards = {}

\* A step that changes the office by the write of u, whose save has found the
\* office as it still is: no other write came between its selects and it.
Uncontested(u) ==
    /\ updates[u].pc = "write" /\ updates[u].found = office
    /\ updates'[u] = Idle /\ office' # office

\* Saves that overlap may leave an office that is part of one copy and part of
\* another.  Whatever they have left, and however often the office has changed
\* since the update loaded it, an update whose save is not overlapped leaves an
\* office whose scope is of the kind its category has (update, save).
UncontestedSavesFit ==
    [][\A u \in Updates : Uncontested(u) => ScopeFits(office')]_officeVars

\* ... and the areas that such an update names, and was allowed to name in an
\* earlier state of the office, are in the state the office has then.
UncontestedAreasInState ==
    [][\A u \in Updates : Uncontested(u) =>
         /\ "lgas" \in updates[u].named => office'.lgas \subseteq LgasIn(office'.state)
         /\ "wards" \in updates[u].named => office'.wards \subseteq WardsOfState(office'.state)
      ]_officeVars

\* An agent's station is checked with a boundary at three levels, and they
\* agree: a unit is covered when its ward is, and a covered ward's LGA is
\* covered.  Offices that name both LGAs and wards are the exception: a named
\* ward in another LGA is covered and its LGA is not (getOfficeBoundaries,
\* lines 347-380).
LevelsAgree ==
    (Stored /\ (office.lgas = {} \/ office.wards = {})) =>
      LET b == Boundary(office)
      IN /\ \A u \in PollingUnits : u \in b.units <=> WardOf[u] \in b.wards
         /\ \A w \in b.wards : LgaOf[w] \in b.lgas
=============================================================================

------------------------------- MODULE Places -------------------------------
(***************************************************************************)
(* The registry of locations, and the part of it that an electoral office  *)
(* covers: ElectoralOfficeService.getOfficeBoundaries.  The places stay    *)
(* what they are here; offices and teams change in the modules that extend *)
(* this one.                                                               *)
(***************************************************************************)
CONSTANTS
    States, Lgas, Wards, PollingUnits,
    StateOf,   \* lgas.state_id
    LgaOf,     \* wards.lga_id
    WardOf,    \* polling_units.ward_id
    NONE       \* SQL NULL

ASSUME PlacesAssumption ==
    /\ StateOf \in [Lgas -> States]
    /\ LgaOf \in [Wards -> Lgas]
    /\ WardOf \in [PollingUnits -> Wards]

Category == {"PRESIDENTIAL", "GUBERNATORIAL", "SENATORIAL", "REPS", "STATE_HOUSE"}

\* The categories whose areas may be LGAs, wards or both.
Legislative == {"REPS", "STATE_HOUSE"}

Office == [category : Category, state : States \cup {NONE},
           lgas : SUBSET Lgas, wards : SUBSET Wards]
----------------------------------------------------------------------------
LgasIn(state) == {l \in Lgas : StateOf[l] = state}
WardsIn(lgas) == {w \in Wards : LgaOf[w] \in lgas}
UnitsIn(wards) == {u \in PollingUnits : WardOf[u] \in wards}

\* The areas that may be named for an office of a state.
WardsOfState(state) == WardsIn(LgasIn(state))

\* Definitions without a comment, here and in the modules that extend this
\* one, are faulty variants of the one that follows: the model checker must
\* reject each of them.

NamedLgas(o) ==
    CASE o.category = "PRESIDENTIAL"  -> Lgas
      [] o.category = "GUBERNATORIAL" -> LgasIn(o.state)
      [] OTHER                        -> o.lgas

\* The LGAs of the wards count only when the office names no LGA.
CoveredLgas(o) ==
    CASE o.category = "PRESIDENTIAL"  -> Lgas
      [] o.category = "GUBERNATORIAL" -> LgasIn(o.state)
      [] o.category = "SENATORIAL"    -> o.lgas
      [] o.category \in Legislative   ->
            IF o.lgas # {} THEN o.lgas ELSE {LgaOf[w] : w \in o.wards}

CoveredWards(o) ==
    IF o.category \in Legislative THEN o.wards \cup WardsIn(o.lgas)
    ELSE WardsIn(CoveredLgas(o))

\* A presidential office covers every ward, whatever its LGA: as every ward
\* has one, CoveredWards says the same.
Boundary(o) ==
    [lgas  |-> CoveredLgas(o),
     wards |-> CoveredWards(o),
     units |-> UnitsIn(CoveredWards(o))]
=============================================================================

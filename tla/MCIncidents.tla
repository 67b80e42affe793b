----------------------------- MODULE MCIncidents -----------------------------
(* Small instances of Incidents for TLC.                                   *)
EXTENDS Incidents

CONSTANTS n, l1, l2, w1, w2, u1, u2, a

MCStateOf == [l \in {l1, l2} |-> n]
MCLgaOf == [w \in {w1, w2} |-> IF w = w1 THEN l1 ELSE l2]
MCWardOf == [u \in {u1, u2} |-> IF u = u1 THEN w1 ELSE w2]

\* An office of one LGA, and one of the other's ward.
MCOffices == {[category |-> "REPS", state |-> n, lgas |-> {l1}, wards |-> {}],
              [category |-> "REPS", state |-> n, lgas |-> {}, wards |-> {w2}]}

MCProfiles == {[role |-> "PU_AGENT", campaign |-> a, area |-> u1],
               [role |-> "WARD_COORDINATOR", campaign |-> a, area |-> w2],
               [role |-> "LGA_COORDINATOR", campaign |-> a, area |-> l1],
               [role |-> "LGA_COORDINATOR", campaign |-> NONE, area |-> NONE]}

MCActors == {[admin |-> TRUE, campaign |-> NONE], [admin |-> FALSE, campaign |-> NONE],
             [admin |-> FALSE, campaign |-> a]}

MCDtos == {[unit |-> NONE, ward |-> NONE, campaign |-> NONE],
           [unit |-> NONE, ward |-> w1, campaign |-> a],
           [unit |-> u2, ward |-> NONE, campaign |-> a]}

MCEarlier == {[at |-> [unit |-> u1, ward |-> w1, lga |-> l1], campaign |-> a,
               status |-> "REPORTED"]}
=============================================================================

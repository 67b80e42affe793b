------------------------------ MODULE MCTeams -------------------------------
(* A small instance of Teams for TLC: one state with two LGAs, l1 with two *)
(* wards and l2 with one, a polling unit in a ward of each; campaign ca is *)
(* for an office of the whole state, campaign cb for one that names LGA l2 *)
(* and a ward of l1.                                                       *)
EXTENDS Teams, FiniteSets, Naturals, TLC

CONSTANTS s1, l1, l2, w1, w2, w3, u1, u3, ca, cb

MCStateOf == [l \in {l1, l2} |-> s1]
MCLgaOf   == [w \in {w1, w2, w3} |-> IF w = w3 THEN l2 ELSE l1]
MCWardOf  == [u \in {u1, u3} |-> IF u = u1 THEN w1 ELSE w3]
MCOfficeOf ==
    [c \in {ca, cb} |->
       IF c = ca THEN [category |-> "GUBERNATORIAL", state |-> s1, lgas |-> {}, wards |-> {}]
       ELSE [category |-> "REPS", state |-> s1, lgas |-> {l2}, wards |-> {w1}]]

MCActors ==
    {[role |-> "ADMIN", campaign |-> NONE, lga |-> NONE, ward |-> NONE],
     [role |-> "ASPIRANT", campaign |-> ca, lga |-> NONE, ward |-> NONE],
     [role |-> "CLIENT_USER", campaign |-> NONE, lga |-> NONE, ward |-> NONE],
     [role |-> "LGA_COORDINATOR", campaign |-> cb, lga |-> l2, ward |-> NONE],
     [role |-> "WARD_COORDINATOR", campaign |-> cb, lga |-> l1, ward |-> w1]}

\* A body names at most two of role, campaign, LGA, ward and unit; the only
\* campaign it names is ca.
MCBodies ==
    {x \in [role : Role \cup {KEEP}, campaign : {KEEP, ca}, lga : {KEEP, NONE, l1, l2},
            ward : {KEEP, NONE, w1, w2, w3}, unit : {KEEP, NONE, u1, u3}] :
       Cardinality({f \in DOMAIN x : x[f] # KEEP}) <= 2}

\* Requests are alike: nothing in Teams tells one from another.
MCAnyRequest == Permutations(Requests)
=============================================================================

------------------------- MODULE MCOfficeBoundaries -------------------------
(* A small instance of OfficeBoundaries for TLC: two states, the first with *)
(* two LGAs, a ward and a polling unit in each LGA.                         *)
EXTENDS OfficeBoundaries, FiniteSets, Naturals, TLC

CONSTANTS s1, s2, l1, l2, l3, w1, w2, w3, u1, u2, u3

MCStateOf == [l \in {l1, l2, l3} |-> IF l = l3 THEN s2 ELSE s1]
MCLgaOf   == [w \in {w1, w2, w3} |-> CASE w = w1 -> l1 [] w = w2 -> l2 [] w = w3 -> l3]
MCWardOf  == [u \in {u1, u2, u3} |-> CASE u = u1 -> w1 [] u = u2 -> w2 [] u = u3 -> w3]

\* An office of each kind of scope in the first state, a move to the second
\* with an LGA there, the same with LGAs of the first, and a category or wards
\* alone.
MCNothing == [category |-> NONE, state |-> NONE, lgas |-> NONE, wards |-> NONE]

MCBodies ==
    {[MCNothing EXCEPT !.category = "PRESIDENTIAL"],
     [MCNothing EXCEPT !.category = "GUBERNATORIAL", !.state = s1],
     [MCNothing EXCEPT !.category = "SENATORIAL"],
     [MCNothing EXCEPT !.category = "REPS", !.state = s1, !.lgas = {l1, l2}],
     [MCNothing EXCEPT !.category = "REPS", !.state = s1, !.wards = {w2}],
     [MCNothing EXCEPT !.state = s2, !.lgas = {l3}],
     [MCNothing EXCEPT !.state = s2, !.lgas = {l1, l2}],
     [MCNothing EXCEPT !.wards = {w2}]}

MCAnyUpdate == Permutations(Updates)
=============================================================================

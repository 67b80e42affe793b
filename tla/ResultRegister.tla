--------------------------- MODULE ResultRegister ---------------------------
(***************************************************************************)
(* What the result service promises its users, without requests,           *)
(* statements or transactions: a register with one entry per station and   *)
(* campaign.  A submission enters the register at most once, in one entry  *)
(* of its station, with its breakdown by party and its totals at one       *)
(* instant; a review changes the standing of an entry and nothing else; no *)
(* entry is ever withdrawn.                                                *)
(***************************************************************************)
CONSTANTS Stations, Aspirants, Submits, NONE

VARIABLES
    register,   \* the entry of each station and aspirant, or NONE
    entered     \* the submissions that have entered the register

Standing == {"PENDING", "VERIFIED", "FLAGGED", "REJECTED"}

Entry == [figures   : Submits,
          breakdown : SUBSET Submits,
          standing  : Standing]

Keys == Stations \X Aspirants

RegisterTypeOK == /\ register \in [Keys -> Entry \cup {NONE}]
                  /\ entered \subseteq Submits

RegisterInit == /\ register = [k \in Keys |-> NONE]
                /\ entered = {}

\* The entry a submission makes: never verified, and all of one piece.
Submitted(q, standing) ==
    [figures |-> q, breakdown |-> {q}, standing |-> standing]

\* A first submission and a correction leave the same kind of entry behind.
Enter(k, q) ==
    /\ q \notin entered
    /\ entered' = entered \cup {q}
    /\ \E standing \in {"PENDING", "FLAGGED"} :
          register' = [register EXCEPT ![k] = Submitted(q, standing)]

\* A submission outside every campaign is stored, but is no campaign's entry.
EnterUnassigned(q) ==
    /\ q \notin entered
    /\ entered' = entered \cup {q}
    /\ UNCHANGED register

Review(k) ==
    /\ register[k] # NONE
    /\ \E standing \in Standing :
          register' = [register EXCEPT ![k].standing = standing]
    /\ UNCHANGED entered

RegisterNext ==
    \/ \E k \in Keys : Review(k) \/ \E q \in Submits : Enter(k, q)
    \/ \E q \in Submits : EnterUnassigned(q)

RegisterSpec == RegisterInit /\ [][RegisterNext]_<<register, entered>>
=============================================================================

---------------------------- MODULE CopiedSource ----------------------------
(***************************************************************************)
(* What a cache of any kind promises: a value in the database, and what is *)
(* held of it elsewhere, in the cache and by requests that have read it.   *)
(* The value changes at any time and copies may be lost or kept for as     *)
(* long as you like, but a new one is made of the value as it is, or of    *)
(* another copy.                                                           *)
(***************************************************************************)
VARIABLES
    source,    \* the value in the database
    copies     \* the values held elsewhere

copyVars == <<source, copies>>

CopyInit == copies = {}

CopyNext == copies' \subseteq copies \cup {source, source'}

CopySpec == CopyInit /\ [][CopyNext]_copyVars
=============================================================================

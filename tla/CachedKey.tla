----------------------------- MODULE CachedKey -----------------------------
(***************************************************************************)
(* One key of the cache, and the guard that answers requests by its value. *)
(***************************************************************************)
CONSTANTS
    Guards,    \* requests that the guard answers, each again and again
    NONE       \* no key, or no row

VARIABLES
    cached,    \* the value of the key, or NONE
    guards     \* the local state of each guarded request

Idle == [pc |-> "idle"]

\* The time to live of the key ends.
KeyExpires ==
    /\ cached # NONE
    /\ cached' = NONE
    /\ UNCHANGED guards
=============================================================================

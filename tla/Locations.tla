----------------------------- MODULE Locations -----------------------------
(***************************************************************************)
(* One level of the hierarchy of places, LGAs, wards or polling units, and *)
(* the level above it, under the requests of administrators.  Places of a  *)
(* level have a code that a unique index keeps apart and a name that only  *)
(* creation compares; they go with the place above them.                   *)
(*                                                                         *)
(* Above the LGAs are the states, whose list is cached as a whole for a    *)
(* day under ALL_STATES: read aside, and deleted after writes.             *)
(***************************************************************************)
EXTENDS Naturals, Sequences, FiniteSetsExt

CONSTANTS
    Names,        \* names of places of the level
    Codes,        \* their codes
    Parents,      \* ids of places of the level above
    Wanted,       \* what creations and updates ask for
    Batches,      \* what createMultiple is called with: sequences of rows
    Creates,      \* creations that may be under way at a time
    StateWrites,  \* requests to the states that may be under way at a time
    NONE          \* nothing

VARIABLES
    kind,         \* the level: "lga", "ward" or "unit"
    parents,      \* the rows of the level above
    places,       \* the rows of the level, by code
    listed,       \* the value of the key ALL_STATES
    creates,      \* the local state of each creation
    stateWrites   \* the local state of each request to the states

locationVars == <<kind, parents, places, listed, creates, stateWrites>>

Kinds == {"lga", "ward", "unit"}

\* A row of the table, its key left out; and a row to be inserted.
Place == [name : Names, parent : Parents]
NewPlace == [code : Codes, name : Names, parent : Parents]

Table == UNION {[S -> Place] : S \in SUBSET Codes}

Idle == [pc |-> "idle"]

ASSUME RequestsAssumption ==
    /\ Wanted \subseteq NewPlace
    /\ \A b \in Batches : b \in Seq([code : Codes, name : Names])
----------------------------------------------------------------------------
\* Definitions without a comment are faulty variants of the one that follows:
\* the model checker must reject each of them.

WithReplaced(table, rows) ==
    LET named(c) == {i \in DOMAIN rows : rows[i].code = c}
    IN  [c \in DOMAIN table \cup {rows[i].code : i \in DOMAIN rows} |->
            IF named(c) = {} THEN table[c]
            ELSE LET row == rows[Max(named(c))]
                 IN  [name |-> row.name, parent |-> row.parent]]

\* bulkInsert: INSERT ... ON CONFLICT DO NOTHING.  A code that is taken, by an
\* old row or by an earlier one of the same statement, keeps its row.
With(table, rows) ==
    LET named(c) == {i \in DOMAIN rows : rows[i].code = c}
    IN  [c \in DOMAIN table \cup {rows[i].code : i \in DOMAIN rows} |->
            IF c \in DOMAIN table THEN table[c]
            ELSE LET row == rows[Min(named(c))]
                 IN  [name |-> row.name, parent |-> row.parent]]

\* The foreign key: the whole statement fails for a new row without parent.
Orphaned(table, rows) ==
    LET after == With(table, rows)
    IN  \E c \in DOMAIN after \ DOMAIN table : after[c].parent \notin parents

\* onDelete CASCADE.
Without(table, p) ==
    LET kept == {c \in DOMAIN table : table[c].parent # p}
    IN  [c \in kept |-> table[c]]

\* Creations that are between their check and their insert see another table.
Disturbed ==
    [c \in Creates |->
        IF creates[c].pc = "insert" THEN [creates[c] EXCEPT !.calm = FALSE] ELSE creates[c]]

LocationsInit ==
    /\ kind \in Kinds
    /\ parents = Parents
    /\ places = [c \in {} |-> NONE]
    /\ listed = NONE
    /\ creates = [c \in Creates |-> Idle]
    /\ stateWrites = [w \in StateWrites |-> Idle]

\* A place of the name under the parent.
Named(row) == \E k \in DOMAIN places : /\ places[k].name = row.name
                                       /\ places[k].parent = row.parent

\* What create checks: the name, and but for an LGA the parent and the code.
LgaIsNew(row) == kind = "lga" /\ ~Named(row)
WardIsNew(row) ==
    kind = "ward" /\ row.parent \in parents /\ ~Named(row) /\ row.code \notin DOMAIN places
PollingUnitIsNew(row) ==
    kind = "unit" /\ row.parent \in parents /\ ~Named(row) /\ row.code \notin DOMAIN places

CreateCheckByCode(c) ==
    /\ creates[c].pc = "idle"
    /\ \E row \in Wanted :
         /\ kind # "lga" => row.parent \in parents /\ row.code \notin DOMAIN places
         /\ creates' = [creates EXCEPT ![c] = [pc |-> "insert", row |-> row, calm |-> TRUE]]
    /\ UNCHANGED <<kind, parents, places, listed, stateWrites>>

\* create, up to its insert.
CreateCheck(c) ==
    /\ creates[c].pc = "idle"
    /\ \E row \in Wanted :
         /\ LgaIsNew(row) \/ WardIsNew(row) \/ PollingUnitIsNew(row)
         /\ creates' = [creates EXCEPT ![c] = [pc |-> "insert", row |-> row, calm |-> TRUE]]
    /\ UNCHANGED <<kind, parents, places, listed, stateWrites>>

\* The index and the foreign key decide.
CreateInsert(c) ==
    /\ creates[c].pc = "insert"
    /\ LET row == creates[c].row
       IN  IF row.code \in DOMAIN places \/ row.parent \notin parents
           THEN /\ creates' = [creates EXCEPT ![c] = Idle]
                /\ UNCHANGED places
           ELSE /\ places' = With(places, <<row>>)
                /\ creates' = [Disturbed EXCEPT ![c] = Idle]
    /\ UNCHANGED <<kind, parents, listed, stateWrites>>

\* The process ends before the insert.
CreateDies(c) ==
    /\ creates[c].pc = "insert"
    /\ creates' = [creates EXCEPT ![c] = Idle]
    /\ UNCHANGED <<kind, parents, places, listed, stateWrites>>

\* createMultiple checks no row, only that there is the parent.
CreateMultiple(level) ==
    /\ kind = level
    /\ \E b \in Batches, p \in parents :
         places' = With(places, [i \in DOMAIN b |->
                            [code |-> b[i].code, name |-> b[i].name, parent |-> p]])
    /\ creates' = Disturbed
    /\ UNCHANGED <<kind, parents, listed, stateWrites>>

CreateLgas == CreateMultiple("lga")
CreateWards == CreateMultiple("ward")
CreatePollingUnits == CreateMultiple("unit")

\* update, by id: no name is compared, only the index and the key refuse.
UpdatePlace(level) ==
    /\ kind = level
    /\ \E old \in DOMAIN places, row \in Wanted :
         /\ row.code = old \/ row.code \notin DOMAIN places
         /\ row.parent \in parents
         /\ places' = With([k \in DOMAIN places \ {old} |-> places[k]], <<row>>)
    /\ creates' = Disturbed
    /\ UNCHANGED <<kind, parents, listed, stateWrites>>

UpdateLga == UpdatePlace("lga")
UpdateWard == UpdatePlace("ward")
UpdatePollingUnit == UpdatePlace("unit")

RemovePlace(level) ==
    /\ kind = level
    /\ \E old \in DOMAIN places :
         places' = [k \in DOMAIN places \ {old} |-> places[k]]
    /\ creates' = Disturbed
    /\ UNCHANGED <<kind, parents, listed, stateWrites>>

RemoveLga == RemovePlace("lga")
RemoveWard == RemovePlace("ward")
RemovePollingUnit == RemovePlace("unit")

\* The level above, when it is LGAs or wards: nothing of it is cached.
ParentCreated ==
    /\ kind # "lga"
    /\ \E p \in Parents \ parents : parents' = parents \cup {p}
    /\ UNCHANGED <<kind, places, listed, creates, stateWrites>>

ParentRemoved ==
    /\ kind # "lga"
    /\ \E p \in parents :
         /\ parents' = parents \ {p}
         /\ places' = Without(places, p)
    /\ creates' = Disturbed
    /\ UNCHANGED <<kind, listed, stateWrites>>

\* uploadStates and create of the states.  A file with an empty cell, and a
\* list with a taken name, add nothing; of others the rows whose name and code
\* are new are inserted, in one statement.
StatesInsert(w) ==
    /\ kind = "lga"
    /\ stateWrites[w].pc = "idle"
    /\ \E S \in SUBSET (Parents \ parents) : parents' = parents \cup S
    /\ stateWrites' = [stateWrites EXCEPT ![w] = [pc |-> "purge", then |-> "list"]]
    /\ UNCHANGED <<kind, places, listed, creates>>

\* update changes nothing that is told apart here, but deletes the key.
StateUpdate(w) ==
    /\ kind = "lga"
    /\ stateWrites[w].pc = "idle"
    /\ parents # {}
    /\ stateWrites' = [stateWrites EXCEPT ![w] = [pc |-> "purge", then |-> "idle"]]
    /\ UNCHANGED <<kind, parents, places, listed, creates>>

StateRemove(w) ==
    /\ kind = "lga"
    /\ stateWrites[w].pc = "idle"
    /\ \E p \in parents :
         /\ parents' = parents \ {p}
         /\ places' = Without(places, p)
    /\ creates' = Disturbed
    /\ stateWrites' = [stateWrites EXCEPT ![w] = [pc |-> "purge", then |-> "idle"]]
    /\ UNCHANGED <<kind, listed>>

StatePurge(w) ==
    /\ stateWrites[w].pc = "purge"
    /\ listed' = NONE
    /\ stateWrites' = [stateWrites EXCEPT ![w] = [pc |-> stateWrites[w].then]]
    /\ UNCHANGED <<kind, parents, places, creates>>

\* A request for the list.
StatesRead(w) ==
    /\ kind = "lga"
    /\ stateWrites[w].pc = "idle"
    /\ stateWrites' = [stateWrites EXCEPT ![w] = [pc |-> "list"]]
    /\ UNCHANGED <<kind, parents, places, listed, creates>>

\* findAll, after an insert or for such a request.
StatesHit(w) ==
    /\ stateWrites[w].pc = "list"
    /\ listed # NONE
    /\ stateWrites' = [stateWrites EXCEPT ![w] = Idle]
    /\ UNCHANGED <<kind, parents, places, listed, creates>>

StatesLoad(w) ==
    /\ stateWrites[w].pc = "list"
    /\ listed = NONE
    /\ stateWrites' = [stateWrites EXCEPT ![w] = [pc |-> "store", list |-> parents]]
    /\ UNCHANGED <<kind, parents, places, listed, creates>>

StatesStore(w) ==
    /\ stateWrites[w].pc = "store"
    /\ listed' = stateWrites[w].list
    /\ stateWrites' = [stateWrites EXCEPT ![w] = Idle]
    /\ UNCHANGED <<kind, parents, places, creates>>

\* A statement fails or the process ends: the list stays in the cache.
StateWriteDies(w) ==
    /\ stateWrites[w].pc # "idle"
    /\ stateWrites' = [stateWrites EXCEPT ![w] = Idle]
    /\ UNCHANGED <<kind, parents, places, listed, creates>>

ExpireNever == FALSE /\ UNCHANGED locationVars

\* A day has passed.
Expire ==
    /\ listed # NONE
    /\ listed' = NONE
    /\ UNCHANGED <<kind, parents, places, creates, stateWrites>>

CreateStep(c) == CreateInsert(c) \/ CreateDies(c)
StateStep(w) ==
    StatePurge(w) \/ StatesHit(w) \/ StatesLoad(w) \/ StatesStore(w) \/ StateWriteDies(w)

LocationsNext ==
    \/ \E c \in Creates : CreateCheck(c) \/ CreateStep(c)
    \/ CreateLgas \/ UpdateLga \/ RemoveLga
    \/ CreateWards \/ UpdateWard \/ RemoveWard
    \/ CreatePollingUnits \/ UpdatePollingUnit \/ RemovePollingUnit
    \/ ParentCreated \/ ParentRemoved
    \/ \E w \in StateWrites :
         StatesInsert(w) \/ StateUpdate(w) \/ StateRemove(w) \/ StatesRead(w) \/ StateStep(w)
    \/ Expire
----------------------------------------------------------------------------
\* Type correctness of the tables, the list and the requests; every place is
\* under a place of the level above.
LocationsTypeOK ==
    /\ kind \in Kinds
    /\ parents \subseteq Parents
    /\ places \in Table
    /\ \A c \in DOMAIN places : places[c].parent \in parents
    /\ listed \in (SUBSET Parents) \cup {NONE}
    /\ \A c \in Creates : creates[c] \in {Idle} \cup [pc : {"insert"}, row : NewPlace, calm : BOOLEAN]
    /\ \A w \in StateWrites :
         stateWrites[w] \in [pc : {"idle", "list"}]
                       \cup [pc : {"purge"}, then : {"idle", "list"}]
                       \cup [pc : {"store"}, list : SUBSET Parents]

\* "LGA with name # already exists in this state", and its counterparts: a
\* creation whose table nobody changed since its check adds no second place of
\* a name under one parent (create of the three services; overlapping
\* creations, createMultiple, uploads and updates may).
UncontestedCreatesUnique ==
    [][\A c \in Creates :
          creates[c].pc = "insert" /\ creates[c].calm /\ places' # places
            /\ creates'[c].pc = "idle" =>
              ~\E k \in DOMAIN places : /\ places[k].name = creates[c].row.name
                                        /\ places[k].parent = creates[c].row.parent]_locationVars

\* Once the states have come to rest, a list of them that is not the present
\* one does not stay in the cache, whatever lists and lost deletions crossed
\* (findAll, create, update and remove of the states, generic LGA uploads).
ListCatchesUp ==
    <>[][parents' = parents]_parents => <>[](listed \in {NONE, parents})
=============================================================================

-------------------------- MODULE SubmissionWindow --------------------------
(***************************************************************************)
(* The system configuration, its copy in the cache, and the guard that     *)
(* admits submissions and incident reports by that copy.                   *)
(*                                                                         *)
(* A read takes the copy, or loads the row and stores it as the copy two   *)
(* statements later; a row that is missing is created with the defaults.   *)
(* An update loads the row, changes its copy, saves it, and stores its     *)
(* copy in the cache instead of deleting the key.  Creation and update are *)
(* saves: they select the row again and write the switches that differ.    *)
(***************************************************************************)
EXTENDS CachedKey,   \* the key system:config:global:v2
        Saves

CONSTANTS
    Updates,   \* update requests that may be under way at a time
    Bodies     \* the bodies of updates: functions from some switches to values

VARIABLES
    stored,    \* the row of system_configurations
    updates    \* the local state of each update

windowVars == <<stored, cached, guards, updates>>

Switches == {"voting", "agents", "incidents", "maintenance"}

Configuration == [Switches -> BOOLEAN]

Default == [s \in Switches |-> s # "maintenance"]

ASSUME BodiesAssumption == \A b \in Bodies : \E S \in SUBSET Switches : b \in [S -> BOOLEAN]

ASSUME NoConfigurationAssumption == NONE \notin Configuration

\* What is asked of the guard.
Requested == {"submission", "incident"}
----------------------------------------------------------------------------
\* Definitions without a comment are faulty variants of the one that follows:
\* the model checker must reject each of them.

\* isSubmissionAllowed and isIncidentReportingAllowed.
Allowed(what, c) ==
    /\ ~c["maintenance"]
    /\ CASE what = "submission" -> c["voting"] /\ c["agents"]
         [] what = "incident"   -> c["incidents"]

\* What update makes of a configuration.
Changed(c, b) == [s \in Switches |-> IF s \in DOMAIN b THEN b[s] ELSE c[s]]

\* save() writes the switches of the copy that differ from what it has found,
\* or inserts a row when it has found none; the key lets in only one.
Save(copy, found) ==
    /\ found = NONE => stored = NONE
    /\ stored' = IF found = NONE THEN copy
                 ELSE [s \in Switches |-> Column(stored[s], copy[s], found[s])]

WindowInit ==
    /\ stored \in {NONE, Default}
    /\ cached = NONE
    /\ guards = [g \in Guards |-> Idle]
    /\ updates = [u \in Updates |-> Idle]

HitAndStoreAgain(g) ==
    /\ guards[g].pc = "idle"
    /\ cached # NONE
    /\ \E what \in Requested :
         guards' = [guards EXCEPT ![g] = [pc |-> "store", what |-> what, config |-> cached]]
    /\ UNCHANGED <<stored, cached, updates>>

\* The copy is there: the request is admitted or refused by it.
Hit(g) ==
    /\ guards[g].pc = "idle"
    /\ cached # NONE
    /\ \E what \in Requested :
         guards' = [guards EXCEPT ![g] =
             [pc |-> IF Allowed(what, cached) THEN "admitted" ELSE "refused", what |-> what]]
    /\ UNCHANGED <<stored, cached, updates>>

\* It is not.
Miss(g) ==
    /\ guards[g].pc = "idle"
    /\ cached = NONE
    /\ \E what \in Requested :
         guards' = [guards EXCEPT ![g] = [pc |-> "load", what |-> what]]
    /\ UNCHANGED <<stored, cached, updates>>

\* getConfiguration of the repository looks for the row, ...
Load(g) ==
    /\ guards[g].pc = "load"
    /\ guards' = [guards EXCEPT ![g] =
          IF stored = NONE THEN [pc |-> "create", what |-> guards[g].what]
          ELSE [pc |-> "store", what |-> guards[g].what, config |-> stored]]
    /\ UNCHANGED <<stored, cached, updates>>

\* ... and saves the defaults when there was none: this save, too, looks first,
\* and overwrites what it finds.
LookAgain(g) ==
    /\ guards[g].pc = "create"
    /\ guards' = [guards EXCEPT ![g] =
          [pc |-> "insert", what |-> guards[g].what, found |-> stored]]
    /\ UNCHANGED <<stored, cached, updates>>

CreateRow(g) ==
    /\ guards[g].pc = "insert"
    /\ Save(Default, guards[g].found)
    /\ guards' = [guards EXCEPT ![g] =
          [pc |-> "store", what |-> guards[g].what, config |-> Default]]
    /\ UNCHANGED <<cached, updates>>

Store(g) ==
    /\ guards[g].pc = "store"
    /\ cached' = guards[g].config
    /\ guards' = [guards EXCEPT ![g] =
          [pc   |-> IF Allowed(guards[g].what, guards[g].config) THEN "admitted" ELSE "refused",
           what |-> guards[g].what]]
    /\ UNCHANGED <<stored, updates>>

\* The handler behind the guard comes to an end, or a statement failed.
Finish(g) ==
    /\ guards[g].pc # "idle"
    /\ guards' = [guards EXCEPT ![g] = Idle]
    /\ UNCHANGED <<stored, cached, updates>>

UpdateLoadOnlyNamed(u) ==
    /\ updates[u].pc = "idle" /\ stored # NONE
    /\ \E b \in Bodies : updates' = [updates EXCEPT ![u] = [pc |-> "save", config |-> b]]
    /\ UNCHANGED <<stored, cached, guards>>

\* The repository loads the row and changes its copy of it, ...
UpdateLoad(u) ==
    /\ updates[u].pc = "idle" /\ stored # NONE
    /\ \E b \in Bodies :
         updates' = [updates EXCEPT ![u] = [pc |-> "save", config |-> Changed(stored, b)]]
    /\ UNCHANGED <<stored, cached, guards>>

\* ... or has to create it first.
UpdateMisses(u) ==
    /\ updates[u].pc = "idle" /\ stored = NONE
    /\ updates' = [updates EXCEPT ![u] = [pc |-> "create", config |-> Default]]
    /\ UNCHANGED <<stored, cached, guards>>

UpdateSelects(u) ==
    /\ updates[u].pc \in {"create", "save"}
    /\ updates' = [updates EXCEPT ![u] =
          [pc |-> IF updates[u].pc = "create" THEN "insert" ELSE "write",
           config |-> updates[u].config, found |-> stored]]
    /\ UNCHANGED <<stored, cached, guards>>

UpdateCreates(u) ==
    /\ updates[u].pc = "insert"
    /\ Save(Default, updates[u].found)
    /\ \E b \in Bodies :
         updates' = [updates EXCEPT ![u] = [pc |-> "save", config |-> Changed(Default, b)]]
    /\ UNCHANGED <<cached, guards>>

UpdateWrites(u) ==
    /\ updates[u].pc = "write"
    /\ Save(updates[u].config, updates[u].found)
    /\ updates' = [updates EXCEPT ![u] = [pc |-> "refresh", config |-> updates[u].config]]
    /\ UNCHANGED <<cached, guards>>

UpdateRefresh(u) ==
    /\ updates[u].pc = "refresh"
    /\ cached' = updates[u].config
    /\ updates' = [updates EXCEPT ![u] = Idle]
    /\ UNCHANGED <<stored, guards>>

\* A statement fails or the process ends.
UpdateDies(u) ==
    /\ updates[u].pc # "idle"
    /\ updates' = [updates EXCEPT ![u] = Idle]
    /\ UNCHANGED <<stored, cached, guards>>

\* The time to live of the key ends.
ConfigurationExpires == KeyExpires /\ UNCHANGED <<stored, updates>>

AdmissionStep(g) == Load(g) \/ LookAgain(g) \/ CreateRow(g) \/ Store(g) \/ Finish(g)

UpdateStep(u) ==
    \/ UpdateSelects(u) \/ UpdateCreates(u) \/ UpdateWrites(u)
    \/ UpdateRefresh(u) \/ UpdateDies(u)

WindowNext ==
    \/ \E g \in Guards : Hit(g) \/ Miss(g) \/ AdmissionStep(g)
    \/ \E u \in Updates : UpdateLoad(u) \/ UpdateMisses(u) \/ UpdateStep(u)
    \/ ConfigurationExpires

\* A request in progress comes to an end, and so does the life of a key.
WindowSpec ==
    /\ WindowInit /\ [][WindowNext]_windowVars
    /\ \A g \in Guards : WF_windowVars(AdmissionStep(g))
    /\ \A u \in Updates : WF_windowVars(UpdateStep(u))
    /\ WF_windowVars(ConfigurationExpires)
----------------------------------------------------------------------------
\* Type correctness of the row, the copy and the requests.
WindowTypeOK ==
    /\ stored \in Configuration \cup {NONE}
    /\ cached \in Configuration \cup {NONE}
    /\ \A g \in Guards :
         \/ guards[g] = Idle
         \/ /\ guards[g].pc \in {"load", "create", "insert", "store", "admitted", "refused"}
            /\ guards[g].what \in Requested
            /\ guards[g].pc = "insert" => guards[g].found \in Configuration \cup {NONE}
            /\ guards[g].pc = "store" => guards[g].config \in Configuration
    /\ \A u \in Updates :
         \/ updates[u] = Idle
         \/ updates[u] \in [pc : {"create", "save", "refresh"}, config : Configuration]
         \/ updates[u] \in [pc : {"insert", "write"}, config : Configuration,
                            found : Configuration \cup {NONE}]

\* When administrators have left the window closed for good, then however
\* reads and updates crossed in the cache and in the row, a time comes from
\* which on no submission is admitted.  The row has to rest: while saves go on
\* overlapping, one that means to open a closed window may leave it closed by
\* the other's switch, and its open copy in the cache (getConfiguration,
\* updateConfiguration).
ClosedInTheEnd ==
    <>[][FALSE]_stored /\ <>[](stored # NONE /\ ~Allowed("submission", stored)) =>
      <>[](\A g \in Guards : ~(guards[g].pc = "admitted" /\ guards[g].what = "submission"))
=============================================================================

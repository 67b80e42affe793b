-------------------------- MODULE ResultDashboard --------------------------
(***************************************************************************)
(* The aggregated views of an electoral office and their cache: the        *)
(* cache-aside reads of result.service.ts, the queries behind them, the    *)
(* time to live of an entry and what invalidateOfficeCaches deletes.       *)
(*                                                                         *)
(* Results come from ResultRegister, which ResultLifecycle implements; the *)
(* writer of an entry purges in a later step of the same request.  Teams   *)
(* are fixed and every agent is in one.                                    *)
(*                                                                         *)
(* The reports of a unit, a ward, an LGA and a state are not among the     *)
(* views: their first query selects party.party_acronym, a column that the *)
(* entity of a party does not have, so they fail and nothing is cached.    *)
(***************************************************************************)
EXTENDS ResultRegister

CONSTANTS
    Readers,   \* requests that read a view, each again and again
    Kinds,     \* the kinds of view they ask for
    Followed,  \* the queries of the situation room that are followed
    ALL        \* the scope of a reader without a campaign

ASSUME KindsAssumption ==
    Kinds \subseteq {"summary", "progress", "standings",
                     "provisional", "recent", "situation-room"}

RoomQueries == {"progress", "standings", "recent", "incidents", "last"}

ASSUME FollowedAssumption == Followed \subseteq RoomQueries

VARIABLES
    purging,   \* the writers that have committed and not yet purged
    cache,     \* the cached value of each key, or NONE
    readers    \* the local state of each reader

dashboardVars == <<register, entered, purging, cache, readers>>

Scopes == Aspirants \cup {ALL}

\* A key names what it caches: the kind of view (with its filters) and the
\* scope.  invalidateOfficeCaches deletes keys without filters and scope.
ViewKeys == {<<kind, scope>> : kind \in Kinds, scope \in Scopes}
BareKeys == {<<"summary">>, <<"progress">>}
CacheKeys == ViewKeys \cup BareKeys

\* A reader that asks for nothing.
Blank == [pc |-> "idle", key |-> <<>>, got |-> <<>>]
----------------------------------------------------------------------------
\* The entries of the campaign, or of every campaign without one.
InScope(scope) ==
    {k \in Keys : register[k] # NONE /\ scope \in {ALL, k[2]}}

Selected(scope, standings) ==
    {<<k, register[k]>> : k \in {j \in InScope(scope) :
                                    register[j].standing \in standings}}

\* getOfficePartySummary: verified only.
PartySummary(scope) == Selected(scope, {"VERIFIED"})

\* getOfficeUploadProgress counts every result by its status.
UploadProgress(scope) == Selected(scope, Standing)

\* getSituationRoomStandings: verified, or on request all but the rejected.
Standings(scope) == Selected(scope, {"VERIFIED"})
Provisional(scope) == Selected(scope, Standing \ {"REJECTED"})

\* getRecentSubmissions without a filter on the status.
Recent(scope) == Selected(scope, Standing)

\* getLastSubmission picks the latest of all.
LastSubmission(scope) == Selected(scope, Standing)

\* countIncidentsForOffice reads none of the results.
IncidentsReported(scope) == {}

\* The queries behind each kind of view; each reads the results in one
\* statement, and those of one view run at different times.
Queries(kind) == IF kind = "situation-room" THEN Followed ELSE {kind}

Answer(query, scope) ==
    CASE query = "summary"     -> PartySummary(scope)
      [] query = "progress"    -> UploadProgress(scope)
      [] query = "standings"   -> Standings(scope)
      [] query = "provisional" -> Provisional(scope)
      [] query = "recent"      -> Recent(scope)
      [] query = "incidents"   -> IncidentsReported(scope)
      [] query = "last"        -> LastSubmission(scope)

\* What a key would hold if it were computed at one instant.
Current(key) == [q \in Queries(key[1]) |-> Answer(q, key[2])]
----------------------------------------------------------------------------
DashboardInit ==
    /\ RegisterInit
    /\ purging = {}
    /\ cache = [key \in CacheKeys |-> NONE]
    /\ readers = [r \in Readers |-> Blank]

\* submitResult commits; its request goes on to the purge.
Submit(k, q) ==
    /\ Enter(k, q)
    /\ purging' = purging \cup {q}
    /\ UNCHANGED <<cache, readers>>

\* verifyResult commits; the submission judged stands for its request.
Verify(k) ==
    /\ Review(k)
    /\ purging' = purging \cup {register[k].figures}
    /\ UNCHANGED <<cache, readers>>

\* invalidateOfficeCaches.
Purge(q) ==
    /\ q \in purging
    /\ purging' = purging \ {q}
    /\ cache' = [key \in CacheKeys |-> IF key \in BareKeys THEN NONE
                                                           ELSE cache[key]]
    /\ UNCHANGED <<register, entered, readers>>

\* The request dies after its commit and before its purge.
PurgeLost(q) ==
    /\ q \in purging
    /\ purging' = purging \ {q}
    /\ UNCHANGED <<register, entered, cache, readers>>

\* A view is asked for: a hit answers, a miss goes to the database.
Lookup(r) ==
    /\ readers[r].pc = "idle"
    /\ \E key \in ViewKeys :
          readers' = [readers EXCEPT ![r] =
              IF cache[key] # NONE
                THEN [pc |-> "answered", key |-> key, got |-> cache[key]]
                ELSE [pc |-> "query", key |-> key, got |-> <<>>]]
    /\ UNCHANGED <<register, entered, purging, cache>>

\* One of its queries answers.
Query(r) ==
    /\ readers[r].pc = "query"
    /\ \E q \in Queries(readers[r].key[1]) \ DOMAIN readers[r].got :
          readers' = [readers EXCEPT ![r].got =
              [p \in DOMAIN @ \cup {q} |->
                  IF p = q THEN Answer(q, readers[r].key[2]) ELSE @[p]]]
    /\ UNCHANGED <<register, entered, purging, cache>>

\* Definitions without a comment, here and below, are faulty variants of the
\* one that follows: the model checker must reject each of them.

StoreForAllScopes(r) ==
    LET key == readers[r].key
    IN /\ readers[r].pc = "query"
       /\ DOMAIN readers[r].got = Queries(key[1])
       /\ cache' = [j \in CacheKeys |-> IF j[1] = key[1] THEN readers[r].got
                                                        ELSE cache[j]]
       /\ readers' = [readers EXCEPT ![r].pc = "answered"]
       /\ UNCHANGED <<register, entered, purging>>

\* All have answered: the view is cached, and sent.
Store(r) ==
    LET key == readers[r].key
    IN /\ readers[r].pc = "query"
       /\ DOMAIN readers[r].got = Queries(key[1])
       /\ cache' = [cache EXCEPT ![key] = readers[r].got]
       /\ readers' = [readers EXCEPT ![r].pc = "answered"]
       /\ UNCHANGED <<register, entered, purging>>

\* The client has its answer, or gives up on a request that failed.
Finish(r) ==
    /\ readers[r].pc \in {"query", "answered"}
    /\ readers' = [readers EXCEPT ![r] = Blank]
    /\ UNCHANGED <<register, entered, purging, cache>>

ExpireNever(key) == FALSE /\ UNCHANGED dashboardVars

\* The time to live of a key ends (30 s, 15 s for the recent feed).
Expire(key) ==
    /\ cache[key] # NONE
    /\ cache' = [cache EXCEPT ![key] = NONE]
    /\ UNCHANGED <<register, entered, purging, readers>>

DashboardNext ==
    \/ \E k \in Keys, q \in Submits : Submit(k, q)
    \/ \E k \in Keys : Verify(k)
    \/ \E q \in Submits : Purge(q) \/ PurgeLost(q)
    \/ \E r \in Readers : Lookup(r) \/ Query(r) \/ Store(r) \/ Finish(r)
    \/ \E key \in CacheKeys : Expire(key)

DashboardSpec == DashboardInit /\ [][DashboardNext]_dashboardVars

\* Redis expires keys by itself, and a request for a view comes to an end.
DashboardFairness ==
    /\ \A key \in CacheKeys : WF_dashboardVars(Expire(key))
    /\ \A r \in Readers :
          WF_dashboardVars(Query(r) \/ Store(r) \/ Finish(r))
----------------------------------------------------------------------------
\* No campaign is ever answered with an entry of a rival, fresh or cached: the
\* scope is in the query and in the key (result.service.ts, scopeKey).
AnswersStayInScope ==
    \A r \in Readers :
        readers[r].key # <<>> /\ readers[r].key[2] # ALL =>
            \A q \in DOMAIN readers[r].got :
                \A e \in readers[r].got[q] : e[1][2] = readers[r].key[2]

\* When the results of an office stop changing, the cache ends up holding
\* nothing but current views, in spite of purges that miss and of reads that
\* began before the last change: the time to live sees to it.
DashboardCatchesUp ==
    <>[][FALSE]_register =>
        <>[](\A key \in ViewKeys : cache[key] \in {NONE, Current(key)})
=============================================================================

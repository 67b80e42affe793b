------------------------ MODULE ResultDashboard_proofs ------------------------
(* Cached views show a campaign nothing of its rivals, for any number of      *)
(* stations, campaigns, kinds of views and readers.                           *)
EXTENDS ResultDashboard, TLAPS

\* The entries in an answer are of the scope it is for.
Within(got, scope) ==
    scope # ALL => \A q \in DOMAIN got : \A e \in got[q] : e[1][2] = scope

\* What a view's key holds is within the scope that the key names.
CacheWithin ==
    \A key \in ViewKeys : cache[key] # NONE => Within(cache[key], key[2])

\* A reader under way has a key, and what it has so far is within its scope.
ReaderWithin(x) ==
    /\ x = [pc |-> x.pc, key |-> x.key, got |-> x.got]
    /\ x.pc = "query" => x.key # <<>>
    /\ x.key # <<>> => x.key \in ViewKeys /\ Within(x.got, x.key[2])

ScopeInv ==
    /\ cache = [key \in CacheKeys |-> cache[key]]
    /\ readers = [r \in Readers |-> readers[r]]
    /\ CacheWithin
    /\ \A r \in Readers : ReaderWithin(readers[r])
----------------------------------------------------------------------------
LEMMA AnswerWithin ==
    ASSUME NEW kind \in Kinds, NEW q \in Queries(kind), NEW scope, scope # ALL,
           NEW e \in Answer(q, scope)
    PROVE  e[1][2] = scope
<1>1. q \in {"summary", "progress", "standings", "provisional", "recent", "incidents", "last"}
  BY KindsAssumption, FollowedAssumption DEF Queries, RoomQueries
<1>2. PICK standings : e \in Selected(scope, standings)
  BY <1>1 DEF Answer, PartySummary, UploadProgress, Standings, Provisional, Recent,
              IncidentsReported, LastSubmission
<1> QED BY <1>2 DEF Selected, InScope

LEMMA ReaderMoves ==
    ASSUME ScopeInv, NEW r \in Readers, NEW x,
           readers' = [readers EXCEPT ![r] = x], UNCHANGED cache, ReaderWithin(x)
    PROVE  ScopeInv'
<1>1. /\ readers' = [s \in Readers |-> readers'[s]] /\ readers'[r] = x
      /\ \A s \in Readers \ {r} : readers'[s] = readers[s]
  BY DEF ScopeInv
<1> QED BY <1>1 DEF ScopeInv, CacheWithin, ReaderWithin

LEMMA CacheMoves ==
    ASSUME ScopeInv, UNCHANGED readers,
           cache' = [key \in CacheKeys |-> cache'[key]],
           \A key \in ViewKeys : cache'[key] \in {NONE, cache[key]}
    PROVE  ScopeInv'
BY DEF ScopeInv, CacheWithin, ReaderWithin

LEMMA BlankWithin == ReaderWithin(Blank)
BY DEF ReaderWithin, Blank

LEMMA LookupKeeps == ASSUME ScopeInv, NEW r \in Readers, Lookup(r) PROVE ScopeInv'
<1>1. PICK key \in ViewKeys :
        readers' = [readers EXCEPT ![r] =
              IF cache[key] # NONE
                THEN [pc |-> "answered", key |-> key, got |-> cache[key]]
                ELSE [pc |-> "query", key |-> key, got |-> <<>>]]
  BY DEF Lookup
<1>2. key # <<>>
  BY DEF ViewKeys
<1>3. CASE cache[key] # NONE
  <2> DEFINE x == [pc |-> "answered", key |-> key, got |-> cache[key]]
  <2>1. readers' = [readers EXCEPT ![r] = x]
    BY <1>1, <1>3
  <2>2. Within(cache[key], key[2])
    BY <1>3 DEF ScopeInv, CacheWithin
  <2>3. ReaderWithin(x)
    BY <1>2, <2>2 DEF ReaderWithin
  <2> HIDE DEF x
  <2> QED BY <2>1, <2>3, ReaderMoves DEF Lookup
<1>4. CASE cache[key] = NONE
  <2> DEFINE x == [pc |-> "query", key |-> key, got |-> <<>>]
  <2>1. readers' = [readers EXCEPT ![r] = x]
    BY <1>1, <1>4
  <2>2. Within(<<>>, key[2])
    BY DEF Within
  <2>3. ReaderWithin(x)
    BY <1>2, <2>2 DEF ReaderWithin
  <2> HIDE DEF x
  <2> QED BY <2>1, <2>3, ReaderMoves DEF Lookup
<1> QED BY <1>3, <1>4

LEMMA QueryKeeps == ASSUME ScopeInv, NEW r \in Readers, Query(r) PROVE ScopeInv'
<1> DEFINE y == readers[r]
<1>1. /\ y = [pc |-> y.pc, key |-> y.key, got |-> y.got] /\ y.pc = "query"
      /\ y.key # <<>> /\ y.key \in ViewKeys /\ Within(y.got, y.key[2])
  BY DEF Query, ScopeInv, ReaderWithin
<1>2. PICK q \in Queries(y.key[1]) \ DOMAIN y.got :
        readers' = [readers EXCEPT ![r].got =
              [p \in DOMAIN @ \cup {q} |->
                  IF p = q THEN Answer(q, y.key[2]) ELSE @[p]]]
  BY DEF Query
<1> DEFINE got == [p \in DOMAIN y.got \cup {q} |->
                    IF p = q THEN Answer(q, y.key[2]) ELSE y.got[p]]
           x == [pc |-> y.pc, key |-> y.key, got |-> got]
<1>3. [y EXCEPT !.got = got] = x
  <2> HIDE DEF got, y
  <2> QED BY <1>1
<1>4. readers' = [readers EXCEPT ![r] = x]
  BY <1>2, <1>3 DEF ScopeInv
<1>5. y.key[1] \in Kinds
  BY <1>1 DEF ViewKeys
<1>6. Within(got, y.key[2])
  <2> SUFFICES ASSUME y.key[2] # ALL, NEW p \in DOMAIN got, NEW e \in got[p]
               PROVE  e[1][2] = y.key[2]
    BY DEF Within
  <2> HIDE DEF y
  <2>1. CASE p = q
    <3>1. e \in Answer(q, y.key[2])
      BY <2>1
    <3> QED BY <1>5, <3>1, AnswerWithin
  <2>2. CASE p # q
    BY <1>1, <2>2 DEF Within
  <2> QED BY <2>1, <2>2
<1>7. ReaderWithin(x)
  <2> HIDE DEF got, y
  <2> QED BY <1>1, <1>6 DEF ReaderWithin
<1> HIDE DEF x
<1> QED BY <1>4, <1>7, ReaderMoves DEF Query

LEMMA StoreKeeps == ASSUME ScopeInv, NEW r \in Readers, Store(r) PROVE ScopeInv'
<1> DEFINE y == readers[r]
           x == [pc |-> "answered", key |-> y.key, got |-> y.got]
<1>1. /\ y = [pc |-> y.pc, key |-> y.key, got |-> y.got] /\ y.pc = "query"
      /\ y.key # <<>> /\ y.key \in ViewKeys /\ Within(y.got, y.key[2])
  BY DEF Store, ScopeInv, ReaderWithin
<1>2. y.key \in CacheKeys
  BY <1>1 DEF CacheKeys
<1>3. cache' = [cache EXCEPT ![y.key] = y.got] /\ readers' = [readers EXCEPT ![r].pc = "answered"]
  BY DEF Store
<1>4. [y EXCEPT !.pc = "answered"] = x
  <2> HIDE DEF y
  <2> QED BY <1>1
<1>5. readers' = [readers EXCEPT ![r] = x]
  BY <1>3, <1>4 DEF ScopeInv
<1>6. ReaderWithin(x)
  <2> HIDE DEF y
  <2> QED BY <1>1 DEF ReaderWithin
<1> HIDE DEF x, y
<1>7. CacheWithin' /\ cache' = [key \in CacheKeys |-> cache'[key]]
  BY <1>1, <1>2, <1>3 DEF ScopeInv, CacheWithin, CacheKeys
<1>8. \A s \in Readers : ReaderWithin(readers'[s])
  BY <1>5, <1>6 DEF ScopeInv
<1>9. readers' = [s \in Readers |-> readers'[s]]
  BY <1>5 DEF ScopeInv
<1> QED BY <1>7, <1>8, <1>9 DEF ScopeInv, ReaderWithin

LEMMA FinishKeeps == ASSUME ScopeInv, NEW r \in Readers, Finish(r) PROVE ScopeInv'
BY BlankWithin, ReaderMoves DEF Finish

\* Purges and expiry only take values away.
LEMMA PurgeKeeps == ASSUME ScopeInv, NEW q \in Submits, Purge(q) PROVE ScopeInv'
<1>1. cache' = [key \in CacheKeys |-> IF key \in BareKeys THEN NONE ELSE cache[key]]
  BY DEF Purge
<1>2. cache' = [key \in CacheKeys |-> cache'[key]]
  BY <1>1
<1>3. \A key \in ViewKeys : cache'[key] \in {NONE, cache[key]}
  BY <1>1 DEF CacheKeys
<1> QED BY <1>2, <1>3, CacheMoves DEF Purge

LEMMA ExpireKeeps == ASSUME ScopeInv, NEW key \in CacheKeys, Expire(key) PROVE ScopeInv'
<1>1. cache' = [k \in CacheKeys |-> cache'[k]]
  BY DEF Expire, ScopeInv
<1>2. \A k \in ViewKeys : cache'[k] \in {NONE, cache[k]}
  BY DEF Expire, ScopeInv, CacheKeys
<1> QED BY <1>1, <1>2, CacheMoves DEF Expire

LEMMA ScopeInit == DashboardInit => ScopeInv
<1> SUFFICES ASSUME DashboardInit PROVE ScopeInv
  OBVIOUS
<1>1. CacheWithin
  BY DEF DashboardInit, CacheWithin, CacheKeys
<1> QED BY <1>1, BlankWithin DEF DashboardInit, ScopeInv

LEMMA ScopeStep == ScopeInv /\ [DashboardNext]_dashboardVars => ScopeInv'
<1> SUFFICES ASSUME ScopeInv, [DashboardNext]_dashboardVars PROVE ScopeInv'
  OBVIOUS
<1>1. ASSUME \/ \E k \in Keys, q \in Submits : Submit(k, q)
             \/ \E k \in Keys : Verify(k)
             \/ \E q \in Submits : PurgeLost(q)
             \/ UNCHANGED dashboardVars
      PROVE  ScopeInv'
  <2>1. UNCHANGED <<cache, readers>>
    BY <1>1 DEF Submit, Verify, PurgeLost, dashboardVars
  <2> QED BY <2>1 DEF ScopeInv, CacheWithin, ReaderWithin
<1> QED
  BY <1>1, PurgeKeeps, LookupKeeps, QueryKeeps, StoreKeeps, FinishKeeps, ExpireKeeps
     DEF DashboardNext

\* No campaign is ever answered with an entry of a rival, fresh or from the
\* cache, whatever is cached for whom and however reads, writes, purges and
\* expiry interleave (result.service.ts, scopeKey).
THEOREM ViewsStayInScope == DashboardSpec => []AnswersStayInScope
<1>1. ScopeInv => AnswersStayInScope
  BY DEF ScopeInv, ReaderWithin, Within, AnswersStayInScope
<1> QED BY <1>1, ScopeInit, ScopeStep, PTL DEF DashboardSpec
----------------------------------------------------------------------------
\* Views of several queries, as they are put together and kept: a view that is
\* cached or sent has an answer to each of its queries.
Complete(got, key) == got = [q \in Queries(key[1]) |-> got[q]]

ReaderShape(x) ==
    /\ x.got = [q \in DOMAIN x.got |-> x.got[q]]
    /\ x.key = <<>> => x.got = <<>>
    /\ x.key # <<>> => DOMAIN x.got \subseteq Queries(x.key[1])
    /\ x.pc = "answered" => x.key # <<>> /\ Complete(x.got, x.key)

ViewInv ==
    /\ ScopeInv
    /\ \A key \in ViewKeys : cache[key] # NONE => Complete(cache[key], key)
    /\ \A r \in Readers : ReaderShape(readers[r])

\* Where an answer that reader r has got comes from: from the database, from the
\* cache, or it had it before.
Source(r, key, q, answer) ==
    \/ answer = Answer(q, key[2])
    \/ cache[key] # NONE /\ q \in DOMAIN cache[key] /\ answer = cache[key][q]
    \/ /\ readers[r].key = key
       /\ q \in DOMAIN readers[r].got /\ answer = readers[r].got[q]

\* What a step of reader r leaves it with.
Turns(r, x) ==
    /\ readers' = [readers EXCEPT ![r] = x]
    /\ ReaderShape(x)
    /\ x.key # <<>> => x.key \in ViewKeys
    /\ \A q \in DOMAIN x.got : x.key # <<>> /\ Source(r, x.key, q, x.got[q])

LEMMA LookupTurns ==
    ASSUME ViewInv, NEW r \in Readers, Lookup(r) PROVE \E x : Turns(r, x)
<1>1. PICK key \in ViewKeys :
        readers' = [readers EXCEPT ![r] =
              IF cache[key] # NONE
                THEN [pc |-> "answered", key |-> key, got |-> cache[key]]
                ELSE [pc |-> "query", key |-> key, got |-> <<>>]]
  BY DEF Lookup
<1>2. key # <<>>
  BY DEF ViewKeys
<1>3. CASE cache[key] # NONE
  <2> DEFINE x == [pc |-> "answered", key |-> key, got |-> cache[key]]
  <2>1. /\ readers' = [readers EXCEPT ![r] = x]
        /\ x.pc = "answered" /\ x.key = key /\ x.got = cache[key]
    BY <1>1, <1>3
  <2>2. Complete(cache[key], key)
    BY <1>3 DEF ViewInv
  <2> HIDE DEF x
  <2>3. ReaderShape(x)
    BY <1>2, <2>1, <2>2 DEF ReaderShape, Complete
  <2> QED BY <1>2, <1>3, <2>1, <2>3 DEF Turns, Source
<1>4. CASE cache[key] = NONE
  <2> DEFINE x == [pc |-> "query", key |-> key, got |-> <<>>]
  <2>1. /\ readers' = [readers EXCEPT ![r] = x]
        /\ x.pc = "query" /\ x.key = key /\ x.got = <<>>
    BY <1>1, <1>4
  <2> HIDE DEF x
  <2>2. ReaderShape(x) /\ DOMAIN x.got = {}
    BY <1>2, <2>1 DEF ReaderShape
  <2> QED BY <1>2, <2>1, <2>2 DEF Turns
<1> QED BY <1>3, <1>4

LEMMA QueryTurns ==
    ASSUME ViewInv, NEW r \in Readers, Query(r) PROVE \E x : Turns(r, x)
<1> DEFINE y == readers[r]
<1>1. /\ y = [pc |-> y.pc, key |-> y.key, got |-> y.got] /\ y.pc = "query"
      /\ y.key # <<>> /\ y.key \in ViewKeys
  BY DEF Query, ViewInv, ScopeInv, ReaderWithin
<1>2. PICK q \in Queries(y.key[1]) \ DOMAIN y.got :
        readers' = [readers EXCEPT ![r].got =
              [p \in DOMAIN @ \cup {q} |->
                  IF p = q THEN Answer(q, y.key[2]) ELSE @[p]]]
  BY DEF Query
<1> DEFINE got == [p \in DOMAIN y.got \cup {q} |->
                    IF p = q THEN Answer(q, y.key[2]) ELSE y.got[p]]
           x == [pc |-> y.pc, key |-> y.key, got |-> got]
<1>3. [y EXCEPT !.got = got] = x
  <2> HIDE DEF got, y
  <2> QED BY <1>1
<1>4. readers' = [readers EXCEPT ![r] = x]
  BY <1>2, <1>3 DEF ViewInv, ScopeInv
<1>5. DOMAIN y.got \subseteq Queries(y.key[1])
  BY <1>1 DEF ViewInv, ReaderShape
<1>6. /\ got = [p \in DOMAIN got |-> got[p]]
      /\ DOMAIN got \subseteq Queries(y.key[1])
  BY <1>5
<1>7. \A p \in DOMAIN got : Source(r, y.key, p, got[p])
  BY DEF Source
<1>8. x.pc = "query" /\ x.key = y.key /\ x.got = got
  BY <1>1
<1> HIDE DEF x, got
<1>9. ReaderShape(x)
  BY <1>1, <1>6, <1>8 DEF ReaderShape
<1> QED BY <1>1, <1>4, <1>7, <1>8, <1>9 DEF Turns

\* Whoever stores a view goes on with what it stores.
LEMMA StoreTurns ==
    ASSUME ViewInv, NEW r \in Readers, Store(r)
    PROVE  /\ \E x : Turns(r, x)
           /\ readers[r].key \in ViewKeys /\ readers[r].key # <<>>
           /\ Complete(readers[r].got, readers[r].key)
           /\ cache' = [cache EXCEPT ![readers[r].key] = readers[r].got]
<1> DEFINE y == readers[r]
           x == [pc |-> "answered", key |-> y.key, got |-> y.got]
<1>1. /\ y = [pc |-> y.pc, key |-> y.key, got |-> y.got] /\ y.pc = "query"
      /\ y.key # <<>> /\ y.key \in ViewKeys
  BY DEF Store, ViewInv, ScopeInv, ReaderWithin
<1>2. /\ DOMAIN y.got = Queries(y.key[1]) /\ cache' = [cache EXCEPT ![y.key] = y.got]
      /\ readers' = [readers EXCEPT ![r].pc = "answered"]
  BY DEF Store
<1>3. [y EXCEPT !.pc = "answered"] = x
  <2> HIDE DEF y
  <2> QED BY <1>1
<1>4. readers' = [readers EXCEPT ![r] = x]
  BY <1>2, <1>3 DEF ViewInv, ScopeInv
<1>5. y.got = [q \in DOMAIN y.got |-> y.got[q]]
  BY DEF ViewInv, ReaderShape
<1>6. Complete(y.got, y.key)
  BY <1>2, <1>5 DEF Complete
<1>7. x.pc = "answered" /\ x.key = y.key /\ x.got = y.got
  BY <1>1
<1> HIDE DEF x
<1>8. ReaderShape(x)
  BY <1>1, <1>2, <1>5, <1>6, <1>7 DEF ReaderShape
<1>9. Turns(r, x)
  BY <1>1, <1>4, <1>7, <1>8 DEF Turns, Source
<1> QED BY <1>1, <1>2, <1>6, <1>9

LEMMA FinishTurns ==
    ASSUME NEW r \in Readers, Finish(r) PROVE \E x : Turns(r, x)
<1>1. /\ readers' = [readers EXCEPT ![r] = Blank]
      /\ Blank.pc = "idle" /\ Blank.key = <<>> /\ Blank.got = <<>>
  BY DEF Finish, Blank
<1>2. ReaderShape(Blank) /\ DOMAIN Blank.got = {}
  BY <1>1 DEF ReaderShape
<1> QED BY <1>1, <1>2 DEF Turns

\* The cache after a step: it forgets, or has what a reader stores.
LEMMA CacheTurns ==
    ASSUME ViewInv, DashboardNext, NEW key \in ViewKeys
    PROVE  \/ cache'[key] \in {NONE, cache[key]}
           \/ \E r \in Readers : /\ readers[r].key = key
                                 /\ key # <<>>
                                 /\ Complete(readers[r].got, key)
                                 /\ cache'[key] = readers[r].got
<1>1. cache = [k \in CacheKeys |-> cache[k]] /\ key \in CacheKeys
  BY DEF ViewInv, ScopeInv, CacheKeys
<1>2. ASSUME NEW q \in Submits, Purge(q) PROVE cache'[key] \in {NONE, cache[key]}
  BY <1>1, <1>2 DEF Purge
<1>3. ASSUME NEW k \in CacheKeys, Expire(k) PROVE cache'[key] \in {NONE, cache[key]}
  BY <1>1, <1>3 DEF Expire
<1>4. ASSUME NEW r \in Readers, Store(r)
      PROVE  \/ cache'[key] = cache[key]
             \/ /\ readers[r].key = key /\ key # <<>> /\ Complete(readers[r].got, key)
                /\ cache'[key] = readers[r].got
  BY <1>1, <1>4, StoreTurns
<1>5. ASSUME \/ \E k \in Keys, q \in Submits : Submit(k, q)
             \/ \E k \in Keys : Verify(k)
             \/ \E q \in Submits : PurgeLost(q)
             \/ \E r \in Readers : Lookup(r) \/ Query(r) \/ Finish(r)
      PROVE  cache' = cache
  BY <1>5 DEF Submit, Verify, PurgeLost, Lookup, Query, Finish
<1> QED BY <1>2, <1>3, <1>4, <1>5 DEF DashboardNext

LEMMA ReadersTurn ==
    ASSUME ViewInv, DashboardNext
    PROVE  readers' = readers \/ \E r \in Readers : \E x : Turns(r, x)
<1>1. ASSUME \/ \E k \in Keys, q \in Submits : Submit(k, q)
             \/ \E k \in Keys : Verify(k)
             \/ \E q \in Submits : Purge(q) \/ PurgeLost(q)
             \/ \E key \in CacheKeys : Expire(key)
      PROVE  readers' = readers
  BY <1>1 DEF Submit, Verify, Purge, PurgeLost, Expire
<1> QED BY <1>1, LookupTurns, QueryTurns, StoreTurns, FinishTurns DEF DashboardNext

LEMMA ReadersAfter ==
    ASSUME ViewInv, NEW r \in Readers, NEW x, Turns(r, x)
    PROVE  readers'[r] = x /\ \A s \in Readers \ {r} : readers'[s] = readers[s]
BY DEF ViewInv, ScopeInv, Turns

LEMMA ViewStart == DashboardInit => ViewInv
<1> SUFFICES ASSUME DashboardInit PROVE ViewInv
  OBVIOUS
<1>1. \A key \in ViewKeys : cache[key] = NONE
  BY DEF DashboardInit, CacheKeys
<1>2. ReaderShape(Blank)
  <2>1. Blank.pc = "idle" /\ Blank.key = <<>> /\ Blank.got = <<>>
    BY DEF Blank
  <2> QED BY <2>1 DEF ReaderShape
<1> QED BY <1>1, <1>2, ScopeInit DEF DashboardInit, ViewInv

LEMMA ViewStep == ViewInv /\ [DashboardNext]_dashboardVars => ViewInv'
<1> SUFFICES ASSUME ViewInv, [DashboardNext]_dashboardVars PROVE ViewInv'
  OBVIOUS
<1>1. ScopeInv'
  BY ScopeStep DEF ViewInv
<1>2. CASE UNCHANGED dashboardVars
  BY <1>1, <1>2 DEF ViewInv, dashboardVars, ReaderShape
<1>3. CASE DashboardNext
  <2>1. ASSUME NEW key \in ViewKeys, cache'[key] # NONE
        PROVE  Complete(cache'[key], key)
    BY <1>3, <2>1, CacheTurns DEF ViewInv
  <2>2. \A r \in Readers : ReaderShape(readers'[r])
    BY <1>3, ReadersTurn, ReadersAfter DEF ViewInv, Turns
  <2> QED BY <1>1, <2>1, <2>2 DEF ViewInv, ReaderShape
<1> QED BY <1>2, <1>3

LEMMA ViewInvAlways == DashboardSpec => []ViewInv
<1> QED BY ViewStart, ViewStep, PTL DEF DashboardSpec
----------------------------------------------------------------------------
\* The answers to one query for one scope that are held in the cache and by
\* readers.
CachedAnswers(q, scope) ==
    {cache[key][q] : key \in {k \in ViewKeys : /\ k[2] = scope /\ cache[k] # NONE
                                               /\ q \in DOMAIN cache[k]}}

ReadAnswers(q, scope) ==
    {readers[r].got[q] : r \in {s \in Readers : /\ readers[s].key # <<>>
                                                /\ readers[s].key[2] = scope
                                                /\ q \in DOMAIN readers[s].got}}

AnswersHeld(q, scope) == CachedAnswers(q, scope) \cup ReadAnswers(q, scope)

Answers(q, scope) ==
    INSTANCE CopiedSource WITH source <- Answer(q, scope), copies <- AnswersHeld(q, scope)

LEMMA AnswersCopied ==
    ASSUME ViewInv, DashboardNext, NEW q, NEW scope
    PROVE  AnswersHeld(q, scope)' \subseteq AnswersHeld(q, scope) \cup {Answer(q, scope)}
<1>1. ASSUME NEW key \in ViewKeys, key[2] = scope, cache'[key] # NONE, q \in DOMAIN cache'[key]
      PROVE  cache'[key][q] \in AnswersHeld(q, scope)
  <2>1. CASE cache'[key] \in {NONE, cache[key]}
    BY <1>1, <2>1 DEF AnswersHeld, CachedAnswers
  <2>2. CASE \E r \in Readers : /\ readers[r].key = key /\ key # <<>>
                                /\ cache'[key] = readers[r].got
    BY <1>1, <2>2 DEF AnswersHeld, ReadAnswers
  <2> QED BY <2>1, <2>2, CacheTurns
<1>2. ASSUME NEW r \in Readers, readers'[r].key # <<>>, readers'[r].key[2] = scope,
             q \in DOMAIN readers'[r].got
      PROVE  readers'[r].got[q] \in AnswersHeld(q, scope) \cup {Answer(q, scope)}
  <2>1. CASE readers'[r] = readers[r]
    BY <1>2, <2>1 DEF AnswersHeld, ReadAnswers
  <2>2. ASSUME Turns(r, readers'[r])
        PROVE  readers'[r].got[q] \in AnswersHeld(q, scope) \cup {Answer(q, scope)}
    <3>1. Source(r, readers'[r].key, q, readers'[r].got[q]) /\ readers'[r].key \in ViewKeys
      BY <1>2, <2>2 DEF Turns
    <3> QED BY <1>2, <3>1 DEF Source, AnswersHeld, CachedAnswers, ReadAnswers
  <2> QED BY <2>1, <2>2, ReadersTurn, ReadersAfter
<1>3. \A answer \in CachedAnswers(q, scope)' : answer \in AnswersHeld(q, scope)
  BY <1>1 DEF CachedAnswers
<1>4. \A answer \in ReadAnswers(q, scope)' :
        answer \in AnswersHeld(q, scope) \cup {Answer(q, scope)}
  BY <1>2 DEF ReadAnswers
<1> QED BY <1>3, <1>4 DEF AnswersHeld

\* No part of a view, cached or sent, is anything but what its query has answered
\* for its scope at some time, whichever reads, writes, purges and expiries
\* cross (the cache-aside reads of result.service.ts).
THEOREM AnswersAreCopies ==
    ASSUME NEW CONSTANT q, NEW CONSTANT scope
    PROVE  DashboardSpec => Answers(q, scope)!CopySpec
<1>1. DashboardInit => Answers(q, scope)!CopyInit
  <2> SUFFICES ASSUME DashboardInit PROVE AnswersHeld(q, scope) = {}
    BY DEF Answers!CopyInit
  <2>1. \A key \in ViewKeys : cache[key] = NONE
    BY DEF DashboardInit, CacheKeys
  <2>2. \A r \in Readers : readers[r].key = <<>>
    BY DEF DashboardInit, Blank
  <2> QED BY <2>1, <2>2 DEF AnswersHeld, CachedAnswers, ReadAnswers
<1>2. ViewInv /\ [DashboardNext]_dashboardVars
        => [Answers(q, scope)!CopyNext]_(Answers(q, scope)!copyVars)
  <2> SUFFICES ASSUME ViewInv, [DashboardNext]_dashboardVars
               PROVE  [Answers(q, scope)!CopyNext]_(Answers(q, scope)!copyVars)
    OBVIOUS
  <2>1. CASE UNCHANGED dashboardVars
    BY <2>1 DEF dashboardVars, AnswersHeld, CachedAnswers, ReadAnswers, Answer, PartySummary,
       UploadProgress, Standings, Provisional, Recent, LastSubmission, IncidentsReported,
       Selected, InScope, Answers!copyVars
  <2>2. CASE DashboardNext
    BY <2>2, AnswersCopied DEF Answers!CopyNext
  <2> QED BY <2>1, <2>2
<1> QED BY <1>1, <1>2, ViewInvAlways, PTL DEF DashboardSpec, Answers!CopySpec
----------------------------------------------------------------------------
\* What is cached and sent is as the database is, and so is what readers have of
\* the views they put together.
ViewsCurrent ==
    /\ \A key \in ViewKeys : cache[key] \in {NONE, Current(key)}
    /\ \A r \in Readers :
         readers[r].key # <<>> =>
           /\ \A q \in DOMAIN readers[r].got :
                readers[r].got[q] = Answer(q, readers[r].key[2])
           /\ readers[r].pc = "answered" => readers[r].got = Current(readers[r].key)

LEMMA AnswerStays ==
    ASSUME register' = register
    PROVE  /\ \A q, scope : Answer(q, scope)' = Answer(q, scope)
           /\ \A key : Current(key)' = Current(key)
BY DEF Answer, PartySummary, UploadProgress, Standings, Provisional, Recent, LastSubmission,
   IncidentsReported, Selected, InScope, Current

LEMMA CompleteIsCurrent ==
    ASSUME NEW key, NEW got, Complete(got, key),
           \A q \in DOMAIN got : got[q] = Answer(q, key[2])
    PROVE  got = Current(key)
<1>1. DOMAIN got = Queries(key[1])
  BY DEF Complete
<1>2. got = [q \in Queries(key[1]) |-> Answer(q, key[2])]
  BY <1>1 DEF Complete
<1> QED BY <1>2 DEF Current

\* Once all views are current they stay so until a result changes: no late store
\* brings an old one back.  Of DashboardCatchesUp this is the part that needs no
\* fairness (the cache-aside reads, invalidateOfficeCaches).
THEOREM CurrentViewsStay ==
    DashboardSpec =>
      [][ViewsCurrent /\ register' = register => ViewsCurrent']_dashboardVars
<1>1. ViewInv /\ ViewInv' /\ [DashboardNext]_dashboardVars
        => [ViewsCurrent /\ register' = register => ViewsCurrent']_dashboardVars
  <2> SUFFICES ASSUME ViewInv, ViewInv', DashboardNext, ViewsCurrent, register' = register
               PROVE  ViewsCurrent'
    OBVIOUS
  <2>1. ASSUME NEW key \in ViewKeys PROVE cache'[key] \in {NONE, Current(key)}
    <3>1. CASE cache'[key] \in {NONE, cache[key]}
      BY <3>1 DEF ViewsCurrent
    <3>2. ASSUME NEW r \in Readers, readers[r].key = key, key # <<>>,
                 Complete(readers[r].got, key), cache'[key] = readers[r].got
          PROVE  cache'[key] = Current(key)
      BY <3>2, CompleteIsCurrent DEF ViewsCurrent
    <3> QED BY <3>1, <3>2, CacheTurns
  <2>2. ASSUME NEW r \in Readers, readers'[r].key # <<>>, NEW q \in DOMAIN readers'[r].got
        PROVE  readers'[r].got[q] = Answer(q, readers'[r].key[2])
    <3>1. CASE readers'[r] = readers[r]
      BY <2>2, <3>1 DEF ViewsCurrent
    <3>2. ASSUME Turns(r, readers'[r])
          PROVE  readers'[r].got[q] = Answer(q, readers'[r].key[2])
      <4> DEFINE key == readers'[r].key
      <4>1. Source(r, key, q, readers'[r].got[q]) /\ key \in ViewKeys /\ key # <<>>
        BY <2>2, <3>2 DEF Turns
      <4> HIDE DEF key
      <4>2. cache[key] # NONE /\ q \in DOMAIN cache[key] => cache[key][q] = Answer(q, key[2])
        BY <4>1 DEF ViewsCurrent, Current
      <4> QED BY <4>1, <4>2 DEF Source, ViewsCurrent, key
    <3> QED BY <3>1, <3>2, ReadersTurn, ReadersAfter
  <2>3. ASSUME NEW r \in Readers, readers'[r].key # <<>>, readers'[r].pc = "answered"
        PROVE  readers'[r].got = Current(readers'[r].key)
    <3>1. Complete(readers'[r].got, readers'[r].key)
      BY <2>3 DEF ViewInv, ReaderShape, Complete
    <3> QED BY <2>2, <2>3, <3>1, CompleteIsCurrent
  <2> QED BY <2>1, <2>2, <2>3, AnswerStays DEF ViewsCurrent
<1> QED BY <1>1, ViewInvAlways, PTL DEF DashboardSpec
=============================================================================

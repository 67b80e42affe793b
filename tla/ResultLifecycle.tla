-------------------------- MODULE ResultLifecycle --------------------------
(***************************************************************************)
(* The life of polling-unit results: agents submit them (submitResult),    *)
(* reviewers judge them (verifyResult), administrators move agents between *)
(* campaigns (UserRepository.update), all through concurrent requests.     *)
(*                                                                         *)
(* One action per awaited database statement of a request.  The database   *)
(* is PostgreSQL at READ COMMITTED: a statement sees what is committed     *)
(* when it starts, an UPDATE holds the row until its transaction ends, and *)
(* an INSERT waits for an open one with the same unique key.               *)
(*                                                                         *)
(* A station is a pair of a polling unit and an electoral office.  What an *)
(* agent typed (totals, votes by party, photo) is named by the request     *)
(* that carried it.                                                        *)
(***************************************************************************)

CONSTANTS
    Users,       \* the agents and coordinators who submit
    Mobile,      \* those whose campaign an administrator may change
    Aspirants,   \* the aspirants; each has one campaign team
    Stations,    \* pairs of a polling unit and an electoral office
    ResultIds,   \* the primary keys the results table may hand out
    Submits,     \* the submitResult requests, each made at most once
    Reviews,     \* the verifyResult requests, each made at most once
    NONE         \* SQL NULL, and "not set" in a request

ASSUME MobileAssumption == Mobile \subseteq Users

VARIABLES
    campaign,    \* users.aspirant_id of each user
    results,     \* the committed row of each id in table results, or NONE
    lines,       \* per id, the submissions whose result_details are committed
    submits,     \* the local state of each submitResult request
    reviews      \* the local state of each verifyResult request

vars == <<campaign, results, lines, submits, reviews>>

Campaigns == Aspirants \cup {NONE}

AuditStatus == {"PENDING", "VERIFIED", "FLAGGED", "REJECTED"}

Row == [station   : Stations,
        aspirant  : Campaigns,
        uploader  : Users,
        figures   : Submits,            \* whose totals the row holds
        anomalous : BOOLEAN,            \* hasAnomalies
        status    : AuditStatus,        \* auditStatus
        verified  : BOOLEAN,            \* isVerified
        reviewer  : Reviews \cup {NONE}]

ASSUME NoneAssumption == /\ NONE \notin Row
                         /\ NONE \notin Aspirants
                         /\ NONE \notin ResultIds
                         /\ NONE \notin Reviews

\* lookup: before findByPollingUnitOfficeAndAspirant.  insert, inserted:
\* inside createTransactional.  update, updated, replaced: inside
\* updateTransactional.  purge: before invalidateOfficeCaches.
SubmitPc == {"idle", "lookup", "insert", "inserted", "update", "updated",
             "replaced", "purge", "done", "unpurged", "conflict", "failed"}

SubmitRequest == [pc        : SubmitPc,
                  user      : Users \cup {NONE},
                  aspirant  : Campaigns,
                  station   : Stations \cup {NONE},
                  anomalous : BOOLEAN,
                  target    : ResultIds \cup {NONE},
                  replaced  : SUBSET Submits]

ReviewPc == {"idle", "write", "purge", "done", "unpurged", "refused", "failed"}

ReviewRequest == [pc       : ReviewPc,
                  admin    : BOOLEAN,
                  aspirant : Campaigns,
                  target   : ResultIds \cup {NONE},
                  verdict  : AuditStatus]

\* A request without locals: not yet made, or over without an effect.
BlankSubmit(pc) ==
    [pc |-> pc, user |-> NONE, aspirant |-> NONE, station |-> NONE,
     anomalous |-> FALSE, target |-> NONE, replaced |-> {}]

BlankReview(pc) ==
    [pc |-> pc, admin |-> FALSE, aspirant |-> NONE, target |-> NONE,
     verdict |-> "PENDING"]

Init ==
    /\ campaign \in [Users -> Aspirants]
    /\ results = [id \in ResultIds |-> NONE]
    /\ lines = [id \in ResultIds |-> {}]
    /\ submits = [s \in Submits |-> BlankSubmit("idle")]
    /\ reviews = [v \in Reviews |-> BlankReview("idle")]
----------------------------------------------------------------------------
Stored == {id \in ResultIds : results[id] # NONE}

\* Definitions without a comment, here and below, are faulty variants of the
\* one that follows: the model checker must reject each of them.

\* The aspirant of the session, or the one named in the body without one.
EffectiveAspirant(u, named) == IF campaign[u] # NONE THEN campaign[u] ELSE named

ExistingOfAnyCampaign(st, a) == {id \in Stored : results[id].station = st}

\* What findByPollingUnitOfficeAndAspirant may return: rows of the campaign,
\* rows whose uploader is in the campaign now, and without a campaign any row.
Existing(st, a) ==
    {id \in Stored :
        /\ results[id].station = st
        /\ \/ a = NONE
           \/ results[id].aspirant = a
           \/ campaign[results[id].uploader] = a}

Correctable(id) == results[id].status \in {"REJECTED", "FLAGGED"}

RowLockedUntilDelete(id) ==
    \E s \in Submits : submits[s].pc = "updated" /\ submits[s].target = id

RowNeverUnlocked(id) ==
    \E s \in Submits : /\ submits[s].pc \in {"updated", "replaced", "purge",
                                             "done", "unpurged"}
                       /\ submits[s].target = id

\* The transaction of a request in updateTransactional holds its row.
RowLocked(id) ==
    \E s \in Submits : /\ submits[s].pc \in {"updated", "replaced"}
                       /\ submits[s].target = id

\* idx_results_pu_office_aspirant_unique: NULL aspirants are all distinct.
KeyTaken(st, a) ==
    \E id \in Stored : /\ a # NONE
                       /\ results[id].station = st
                       /\ results[id].aspirant = a

KeyNotAwaited(st, a) == FALSE

\* An open createTransactional has inserted the same key.
KeyPending(st, a) ==
    \E s \in Submits : /\ a # NONE
                       /\ submits[s].pc = "inserted"
                       /\ submits[s].station = st
                       /\ submits[s].aspirant = a

FreshIds ==
    {id \in ResultIds \ Stored :
        \A s \in Submits : submits[s].pc = "inserted" => submits[s].target # id}

InitialStatusUnlisted(anomalous) == IF anomalous THEN "ANOMALOUS" ELSE "PENDING"

\* The audit status a submission starts with.
InitialStatus(anomalous) == IF anomalous THEN "FLAGGED" ELSE "PENDING"

\* The row createTransactional inserts for a request (resultData).
NewRow(s) ==
    [station   |-> submits[s].station,
     aspirant  |-> submits[s].aspirant,
     uploader  |-> submits[s].user,
     figures   |-> s,
     anomalous |-> submits[s].anomalous,
     status    |-> InitialStatus(submits[s].anomalous),
     verified  |-> FALSE,
     reviewer  |-> NONE]

CorrectedRowStaysVerified(row, s) ==
    [row EXCEPT !.uploader  = submits[s].user,
                !.figures   = s,
                !.anomalous = submits[s].anomalous,
                !.status    = InitialStatus(submits[s].anomalous)]

\* A row after updateTransactional (updateData): station, aspirant and
\* reviewer keep their values.
CorrectedRow(row, s) ==
    [row EXCEPT !.uploader  = submits[s].user,
                !.figures   = s,
                !.anomalous = submits[s].anomalous,
                !.status    = InitialStatus(submits[s].anomalous),
                !.verified  = FALSE]

MayReviewAny(admin, a, row) == admin \/ a # NONE

\* Who may judge a row: an administrator, or a campaign its own row or a row
\* without an aspirant.
MayReview(admin, a, row) ==
    admin \/ (a # NONE /\ row.aspirant \in {NONE, a})

\* A row after updateAuditStatus.
JudgedRow(row, v) ==
    [row EXCEPT !.status   = reviews[v].verdict,
                !.verified = (reviews[v].verdict = "VERIFIED"),
                !.reviewer = v]
----------------------------------------------------------------------------
\* submitResult up to the lookup: role, boundary and media checks have passed
\* and the anomaly detector has run on the body.
StartSubmit(s) ==
    /\ submits[s].pc = "idle"
    /\ \E u \in Users, named \in Campaigns, st \in Stations, x \in BOOLEAN :
          submits' = [submits EXCEPT ![s] =
              [@ EXCEPT !.pc = "lookup",
                        !.user = u,
                        !.aspirant = EffectiveAspirant(u, named),
                        !.station = st,
                        !.anomalous = x]]
    /\ UNCHANGED <<campaign, results, lines, reviews>>

\* findByPollingUnitOfficeAndAspirant finds nothing: a new result.
LookupMissing(s) ==
    /\ submits[s].pc = "lookup"
    /\ Existing(submits[s].station, submits[s].aspirant) = {}
    /\ submits' = [submits EXCEPT ![s].pc = "insert"]
    /\ UNCHANGED <<campaign, results, lines, reviews>>

\* It finds a row: a correction of it, or 409 Conflict by its status.
LookupExisting(s) ==
    /\ submits[s].pc = "lookup"
    /\ \E id \in Existing(submits[s].station, submits[s].aspirant) :
          submits' = [submits EXCEPT ![s] =
              IF Correctable(id) THEN [@ EXCEPT !.pc = "update", !.target = id]
                                 ELSE BlankSubmit("conflict")]
    /\ UNCHANGED <<campaign, results, lines, reviews>>

\* createTransactional, INSERT INTO results: waits for an open insert of the
\* same key, takes the next id.
InsertRow(s) ==
    /\ submits[s].pc = "insert"
    /\ ~KeyPending(submits[s].station, submits[s].aspirant)
    /\ ~KeyTaken(submits[s].station, submits[s].aspirant)
    /\ \E id \in FreshIds :
          submits' = [submits EXCEPT ![s] =
              [@ EXCEPT !.pc = "inserted", !.target = id]]
    /\ UNCHANGED <<campaign, results, lines, reviews>>

\* The same statement when the key is committed: a unique violation.
InsertDuplicate(s) ==
    /\ submits[s].pc = "insert"
    /\ KeyTaken(submits[s].station, submits[s].aspirant)
    /\ submits' = [submits EXCEPT ![s] = BlankSubmit("failed")]
    /\ UNCHANGED <<campaign, results, lines, reviews>>

\* INSERT INTO result_details and COMMIT.
CommitInsert(s) ==
    /\ submits[s].pc = "inserted"
    /\ results' = [results EXCEPT ![submits[s].target] = NewRow(s)]
    /\ lines' = [lines EXCEPT ![submits[s].target] = {s}]
    /\ submits' = [submits EXCEPT ![s].pc = "purge"]
    /\ UNCHANGED <<campaign, reviews>>

\* updateTransactional, UPDATE results WHERE id: waits for the row.
UpdateRow(s) ==
    /\ submits[s].pc = "update"
    /\ ~RowLocked(submits[s].target)
    /\ submits' = [submits EXCEPT ![s].pc = "updated"]
    /\ UNCHANGED <<campaign, results, lines, reviews>>

DeleteLinesSkipped(s) ==
    /\ submits[s].pc = "updated"
    /\ submits' = [submits EXCEPT ![s].pc = "replaced"]
    /\ UNCHANGED <<campaign, results, lines, reviews>>

\* DELETE FROM result_details WHERE result: what is committed by now.
DeleteLines(s) ==
    /\ submits[s].pc = "updated"
    /\ submits' = [submits EXCEPT ![s] =
          [@ EXCEPT !.pc = "replaced", !.replaced = lines[submits[s].target]]]
    /\ UNCHANGED <<campaign, results, lines, reviews>>

\* INSERT INTO result_details and COMMIT.
CommitUpdate(s) ==
    LET id == submits[s].target
    IN /\ submits[s].pc = "replaced"
       /\ results' = [results EXCEPT ![id] = CorrectedRow(results[id], s)]
       /\ lines' = [lines EXCEPT ![id] = (lines[id] \ submits[s].replaced)
                                            \cup {s}]
       /\ submits' = [submits EXCEPT ![s] =
             [@ EXCEPT !.pc = "purge", !.replaced = {}]]
       /\ UNCHANGED <<campaign, reviews>>

\* invalidateOfficeCaches, and the answer.
PurgeAfterSubmit(s) ==
    /\ submits[s].pc = "purge"
    /\ submits' = [submits EXCEPT ![s].pc = "done"]
    /\ UNCHANGED <<campaign, results, lines, reviews>>

\* A statement fails, the connection drops or the process dies: an open
\* transaction rolls back; after the commit only the purge is lost.
SubmitFails(s) ==
    /\ submits[s].pc \in {"lookup", "insert", "inserted", "update", "updated",
                          "replaced", "purge"}
    /\ submits' = IF submits[s].pc = "purge"
                    THEN [submits EXCEPT ![s].pc = "unpurged"]
                    ELSE [submits EXCEPT ![s] = BlankSubmit("failed")]
    /\ UNCHANGED <<campaign, results, lines, reviews>>
----------------------------------------------------------------------------
\* verifyResult: findById and the campaign check.  Administrators have accounts
\* of their own, without a campaign.
ReviewRead(v) ==
    /\ reviews[v].pc = "idle"
    /\ \E admin \in BOOLEAN, verdict \in AuditStatus, id \in Stored :
       \E a \in IF admin THEN {NONE} ELSE Campaigns :
          reviews' = [reviews EXCEPT ![v] =
              IF MayReview(admin, a, results[id])
                THEN [pc |-> "write", admin |-> admin, aspirant |-> a,
                      target |-> id, verdict |-> verdict]
                ELSE BlankReview("refused")]
    /\ UNCHANGED <<campaign, results, lines, submits>>

\* updateAuditStatus, UPDATE results WHERE id: waits for the row.
ReviewWrite(v) ==
    LET id == reviews[v].target
    IN /\ reviews[v].pc = "write"
       /\ ~RowLocked(id)
       /\ results' = [results EXCEPT ![id] = JudgedRow(results[id], v)]
       /\ reviews' = [reviews EXCEPT ![v].pc = "purge"]
       /\ UNCHANGED <<campaign, lines, submits>>

\* invalidateOfficeCaches, and the answer.
PurgeAfterReview(v) ==
    /\ reviews[v].pc = "purge"
    /\ reviews' = [reviews EXCEPT ![v].pc = "done"]
    /\ UNCHANGED <<campaign, results, lines, submits>>

\* The statement or the purge fails.
ReviewFails(v) ==
    /\ reviews[v].pc \in {"write", "purge"}
    /\ reviews' = IF reviews[v].pc = "purge"
                    THEN [reviews EXCEPT ![v].pc = "unpurged"]
                    ELSE [reviews EXCEPT ![v] = BlankReview("failed")]
    /\ UNCHANGED <<campaign, results, lines, submits>>

\* UserRepository.update with an aspirantId, where 0 clears the link.
MoveUser(u) ==
    /\ \E a \in Campaigns : campaign' = [campaign EXCEPT ![u] = a]
    /\ UNCHANGED <<results, lines, submits, reviews>>
----------------------------------------------------------------------------
\* The steps the server takes by itself once a request is in.
SubmitStep(s) ==
    \/ LookupMissing(s) \/ LookupExisting(s)
    \/ InsertRow(s) \/ InsertDuplicate(s) \/ CommitInsert(s)
    \/ UpdateRow(s) \/ DeleteLines(s) \/ CommitUpdate(s)
    \/ PurgeAfterSubmit(s)

ReviewStep(v) == ReviewWrite(v) \/ PurgeAfterReview(v)

Next ==
    \/ \E s \in Submits : StartSubmit(s) \/ SubmitStep(s) \/ SubmitFails(s)
    \/ \E v \in Reviews : ReviewRead(v) \/ ReviewStep(v) \/ ReviewFails(v)
    \/ \E u \in Mobile : MoveUser(u)

Spec == Init /\ [][Next]_vars

\* The event loop and the database finish what is asked of them; nobody is
\* obliged to submit, to review or to move anyone.
Fairness == /\ \A s \in Submits : WF_vars(SubmitStep(s))
            /\ \A v \in Reviews : WF_vars(ReviewStep(v))

FairSpec == Spec /\ Fairness
----------------------------------------------------------------------------
\* Every variable holds values of its columns or request fields.
TypeOK ==
    /\ campaign \in [Users -> Campaigns]
    /\ results \in [ResultIds -> Row \cup {NONE}]
    /\ lines \in [ResultIds -> SUBSET Submits]
    /\ submits \in [Submits -> SubmitRequest]
    /\ reviews \in [Reviews -> ReviewRequest]

\* At most one stored result per station and campaign, however lookups and
\* inserts of concurrent agents interleave (result.entity.ts, unique index).
OneResultPerCampaign ==
    \A i, j \in Stored :
        /\ results[i].aspirant # NONE
        /\ results[i].aspirant = results[j].aspirant
        /\ results[i].station = results[j].station
        => i = j

\* The breakdown by party under a stored result is the one of the submission
\* whose totals the row holds, and no line of an earlier one survives, after
\* any interleaving of corrections (updateTransactional).
BreakdownIsOneSubmission ==
    \A id \in ResultIds :
        lines[id] = IF id \in Stored THEN {results[id].figures} ELSE {}

\* isVerified, which the tallies select on, and auditStatus, which reviewers
\* see, never disagree although corrections and reviews write both.
VerifiedFlagAgrees ==
    \A id \in Stored : results[id].verified <=> results[id].status = "VERIFIED"

\* A result counts only after an administrator or its own campaign judged it
\* (verifyResult); a row without an aspirant is open to every campaign.
VerifiedByRight ==
    \A id \in Stored :
        results[id].verified =>
            \E v \in Reviews :
                /\ results[id].reviewer = v
                /\ \/ reviews[v].admin
                   \/ results[id].aspirant = NONE
                   \/ reviews[v].aspirant = results[id].aspirant

\* A submission whose transaction committed is under a row of its station
\* with its own aspirant: it never lands in a rival campaign's result.
CampaignOwnsFigures ==
    \A s \in Submits :
        submits[s].pc \in {"purge", "done", "unpurged"} =>
            /\ submits[s].target \in Stored
            /\ results[submits[s].target].station = submits[s].station
            /\ submits[s].aspirant # NONE =>
                 results[submits[s].target].aspirant = submits[s].aspirant

\* "Only FLAGGED or REJECTED results can be corrected and resubmitted": the
\* totals of a result no longer change while it is verified or pending.
OnlyOpenResultsCorrected ==
    [][\A id \in Stored :
         results'[id].figures # results[id].figures => Correctable(id)]_vars

\* Every request the server has begun is answered, one way or another, so no
\* two transactions wait for each other.
EverySubmitAnswered ==
    \A s \in Submits :
        submits[s].pc = "lookup" ~>
            submits[s].pc \in {"done", "unpurged", "conflict", "failed"}
=============================================================================

----------------------------- MODULE AuditTrail -----------------------------
(***************************************************************************)
(* The audit trail: when the handler of a request has ended, one way or    *)
(* the other, AuditInterceptor hands an entry to AuditService, without     *)
(* waiting for it.  The entry goes through a queue to a worker that writes *)
(* a row, or straight to the table when the queue refuses it.              *)
(*                                                                         *)
(* The requests whose handlers end are those of the modules that extend    *)
(* this one.                                                               *)
(***************************************************************************)
EXTENDS Naturals

CONSTANTS
    Requests,   \* requests, each made once
    Followed,   \* those whose entries are followed: entries never meet
    ABSENT      \* no entry

ASSUME FollowedAssumption == Followed \subseteq Requests

VARIABLE audit  \* the course of the entry of each request that is followed

AuditStatus == {"SUCCESS", "FAILURE"}
ActorType == {"ADMIN", "USER", "ANONYMOUS"}

Entry == [actor : ActorType, status : AuditStatus]

ASSUME NoEntryAssumption == ABSENT \notin Entry

\* The queue gives a job up after its third failed run, or when its worker
\* has stalled for the second time.
MaxAttempts == 3
MaxJobStalls == 1

EntryState ==
    [pc : {"none", "record", "queued", "running", "stored", "settled", "lost"},
     entry : Entry \cup {ABSENT}, failures : 0 .. MaxAttempts, stalls : 0 .. MaxJobStalls,
     rows : Nat, faults : Nat]

\* "rows" are the rows of the table that the entry has become, "faults" a
\* history variable: what has gone wrong on its way.
NoEntry == [pc |-> "none", entry |-> ABSENT, failures |-> 0, stalls |-> 0,
            rows |-> 0, faults |-> 0]

AuditInit == audit = [r \in Followed |-> NoEntry]

\* extractActor: from the account the request was authenticated for, or else
\* from the answer and the body.
ExtractActor(admin, known) ==
    IF admin THEN "ADMIN" ELSE IF known THEN "USER" ELSE "ANONYMOUS"
----------------------------------------------------------------------------
\* Definitions without a comment that precede one with a comment are faulty
\* variants of it: the model checker must reject each of them.

\* A handler has ended: what the actions of the requests do to the trail.
Recorded(r, admin, status) ==
    audit' = IF r \notin Followed THEN audit
             ELSE [audit EXCEPT ![r].pc = "record",
                                ![r].entry = [actor  |-> ExtractActor(admin, TRUE),
                                              status |-> status]]

\* record: the entry becomes a job.
Enqueue(r) ==
    /\ audit[r].pc = "record"
    /\ audit' = [audit EXCEPT ![r].pc = "queued"]

EnqueueFailsForGood(r) ==
    /\ audit[r].pc = "record"
    /\ audit' = [audit EXCEPT ![r].pc = "settled", ![r].faults = @ + 1]

\* add fails, though the job may have reached the queue, and the row is written
\* directly, or that fails too, though it may have been written.
EnqueueFails(r) ==
    /\ audit[r].pc = "record"
    /\ \E queued, written, failed \in BOOLEAN :
         /\ written \/ failed
         /\ audit' = [audit EXCEPT ![r].pc = IF queued THEN "queued" ELSE "settled",
                                   ![r].rows = IF written THEN @ + 1 ELSE @,
                                   ![r].faults = IF failed THEN @ + 2 ELSE @ + 1]

\* The process ends while nobody waits for the entry.
EntryDies(r) ==
    /\ audit[r].pc = "record"
    /\ audit' = [audit EXCEPT ![r].pc = "lost"]

\* AuditProcessor.process.
Process(r) ==
    /\ audit[r].pc = "queued"
    /\ audit' = [audit EXCEPT ![r].pc = "running"]

\* The row is written, and the queue is not told yet.
Persist(r) ==
    /\ audit[r].pc = "running"
    /\ audit' = [audit EXCEPT ![r].pc = "stored", ![r].rows = @ + 1]

RetryAgainAndAgain(r) ==
    /\ audit[r].pc = "running"
    /\ audit' = [audit EXCEPT ![r].pc = "queued"]

\* It throws the error again, and the queue runs the job again; the row may
\* have been written all the same.
PersistFails(r) ==
    /\ audit[r].pc = "running"
    /\ \E written \in BOOLEAN :
         audit' = [audit EXCEPT
             ![r].pc = IF audit[r].failures + 1 < MaxAttempts THEN "queued" ELSE "settled",
             ![r].failures = @ + 1,
             ![r].rows = IF written THEN @ + 1 ELSE @,
             ![r].faults = @ + 1]

\* The queue learns of it.
JobDone(r) ==
    /\ audit[r].pc = "stored"
    /\ audit' = [audit EXCEPT ![r].pc = "settled"]

\* The worker stalls, before its row or after it.  One that goes on after its
\* lock has expired writes its row later than here, where it has written it
\* before it stalls.
JobStalls(r) ==
    /\ audit[r].pc \in {"running", "stored"}
    /\ audit' = [audit EXCEPT
           ![r].pc = IF audit[r].stalls < MaxJobStalls THEN "queued" ELSE "settled",
           ![r].stalls = IF audit[r].stalls < MaxJobStalls THEN @ + 1 ELSE @,
           ![r].faults = @ + 1]

AuditStep(r) ==
    \/ Enqueue(r) \/ EnqueueFails(r) \/ EntryDies(r)
    \/ Process(r) \/ Persist(r) \/ PersistFails(r) \/ JobDone(r) \/ JobStalls(r)
----------------------------------------------------------------------------
\* Type correctness of the entries.
AuditTypeOK ==
    /\ audit \in [Followed -> EntryState]
    /\ \A r \in Followed : audit[r].pc # "none" => audit[r].entry # ABSENT

\* "Fail-safe direct database write fallback if queue is unavailable": an entry
\* that a process had the time to hand over is lost only after two faults, and
\* none makes a row more than once without as many repetitions (record,
\* process).
EntriesSurviveAFault ==
    \A r \in Followed :
        audit[r].pc = "settled" =>
            /\ audit[r].rows = 0 => audit[r].faults >= 2
            /\ audit[r].rows <= 1 + audit[r].faults

\* What has been handed over comes to an end: a row, or a failure the queue
\* has given up on.
EntriesSettle ==
    \A r \in Followed : audit[r].pc = "record" ~> audit[r].pc \in {"settled", "lost"}
=============================================================================

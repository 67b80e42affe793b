----------------------------- MODULE BulkUpload -----------------------------
(***************************************************************************)
(* Files of places, uploaded, queued and processed by a worker that ends   *)
(* with a summary by mail, next to all that Locations does to the table.   *)
(*                                                                         *)
(* A file names one parent for all its rows, or has a column of parents    *)
(* (a generic file).  Everything a handler does is inside one try: its     *)
(* failure is a summary too.  Only the queueing of the summary is outside, *)
(* and its failure makes the queue run the job again.                      *)
(***************************************************************************)
EXTENDS Locations, SequencesExt

CONSTANTS
    Jobs,    \* uploads, each made once
    Files,   \* what is uploaded: a parent or NONE, headers in order or not, and rows
    EMPTY    \* a cell without a value

VARIABLE jobs    \* the local state of each upload

uploadVars == <<locationVars, jobs>>

Cell(S) == S \cup {EMPTY}
Rows == Seq([parent : Cell(Parents), code : Cell(Codes), name : Cell(Names)])

ASSUME FilesAssumption ==
    \A f \in Files : /\ f.parent \in Parents \cup {NONE}
                     /\ f.headers \in BOOLEAN
                     /\ f.rows \in Rows

\* The queue gives up after two failed runs, or when the worker of a job has
\* stalled for the second time.
MaxFailures == 2
MaxStalls == 1

\* A job before its upload.  "accepted" are the rows that the handler keeps,
\* "ok" and "failed" the counts of the summary; "calm" is a history variable:
\* nobody but the job itself has changed the tables since its first run began.
NoJob == [pc |-> "none", file |-> NONE, failures |-> 0, stalls |-> 0,
          known |-> {}, accepted |-> <<>>, ok |-> 0, failed |-> 0, calm |-> TRUE]

Generic(j) == jobs[j].file.parent = NONE
RowsOf(j) == jobs[j].file.rows

UploadInit == LocationsInit /\ jobs = [j \in Jobs |-> NoJob]

\* What a run begins with.
Fresh(job, pc) ==
    [job EXCEPT !.pc = pc, !.known = {}, !.accepted = <<>>, !.ok = 0, !.failed = 0]

SetJob(j, job) == jobs' = [jobs EXCEPT ![j] = job]
----------------------------------------------------------------------------
AlikeByCode(level, a, b) ==
    \/ level = "lga" /\ a.name = b.name /\ a.parent = b.parent
    \/ level # "lga" /\ a.code = b.code

\* Two rows that a file may not both have: a name under one parent and, of
\* wards and units, a code.
Alike(level, a, b) ==
    \/ a.name = b.name /\ a.parent = b.parent
    \/ level # "lga" /\ a.code = b.code

FilledButName(row, known) == row.code # EMPTY /\ row.parent \in known

\* Every cell has a value, and the parent is known.
Filled(row, known) == row.code # EMPTY /\ row.name # EMPTY /\ row.parent \in known

\* The rows of a file that names one parent are all under it.
Placed(file) ==
    IF file.parent = NONE THEN file.rows
    ELSE [i \in DOMAIN file.rows |-> [file.rows[i] EXCEPT !.parent = file.parent]]

\* The loop over the rows of a file: a row is kept if it is complete and like
\* none that was kept before.
Kept(level, file, known) ==
    LET rows == Placed(file)
        kept[i \in 0 .. Len(rows)] ==
            IF i = 0 THEN <<>>
            ELSE IF /\ Filled(rows[i], known)
                    /\ \A k \in ToSet(kept[i - 1]) : ~Alike(level, k, rows[i])
                 THEN Append(kept[i - 1], rows[i])
                 ELSE kept[i - 1]
    IN  kept[Len(rows)]

RejectedButCounted(job) == [job EXCEPT !.pc = "mail"]

\* The failure of a whole file: failedCount = -1.
Rejected(job) == [job EXCEPT !.pc = "mail", !.accepted = <<>>, !.ok = 0, !.failed = -1]

\* What follows when the parents are known: headers, then rows.
Screened(j, level, known) ==
    IF ~jobs[j].file.headers THEN Rejected(jobs[j])
    ELSE LET kept == Kept(level, jobs[j].file, known)
         IN  [jobs[j] EXCEPT !.pc = IF kept = <<>> THEN "mail" ELSE "insert",
                             !.known = known,
                             !.accepted = kept,
                             !.failed = Len(RowsOf(j)) - Len(kept)]

\* The upload requests queue a job.  For wards and units, one that names a
\* parent has looked it up.
Upload(j, level, file) ==
    /\ jobs[j].pc = "none"
    /\ kind = level
    /\ SetJob(j, [NoJob EXCEPT !.pc = "waiting", !.file = file])
    /\ UNCHANGED locationVars

GenericFiles == {file \in Files : file.parent = NONE}

UploadLgas(j) == \E file \in Files \ GenericFiles : Upload(j, "lga", file)
UploadLgasGeneric(j) == \E file \in GenericFiles : Upload(j, "lga", file)
UploadWards(j) ==
    \E file \in Files \ GenericFiles : file.parent \in parents /\ Upload(j, "ward", file)
UploadWardsGeneric(j) == \E file \in GenericFiles : Upload(j, "ward", file)
UploadPollingUnits(j) ==
    \E file \in Files \ GenericFiles : file.parent \in parents /\ Upload(j, "unit", file)
UploadPollingUnitsGeneric(j) == \E file \in GenericFiles : Upload(j, "unit", file)

\* The worker takes a job.
Take(j) ==
    /\ jobs[j].pc = "waiting"
    /\ SetJob(j, Fresh(jobs[j], "process"))
    /\ UNCHANGED locationVars

\* A handler of files with one parent looks it up and screens the rows.
ProcessUnder(j, level) ==
    /\ jobs[j].pc = "process"
    /\ kind = level /\ ~Generic(j)
    /\ SetJob(j, IF jobs[j].file.parent \in parents
                 THEN Screened(j, level, {jobs[j].file.parent})
                 ELSE Rejected(jobs[j]))
    /\ UNCHANGED locationVars

ProcessLgaUpload(j) == ProcessUnder(j, "lga")
ProcessWardUpload(j) == ProcessUnder(j, "ward")
ProcessPollingUnitUpload(j) == ProcessUnder(j, "unit")

\* A handler of generic files loads all parents first.
ProcessGeneric(j, level) ==
    /\ jobs[j].pc = "process"
    /\ kind = level /\ Generic(j)
    /\ SetJob(j, Screened(j, level, parents))
    /\ UNCHANGED locationVars

ProcessWardUploadGeneric(j) == ProcessGeneric(j, "ward")
ProcessPollingUnitUploadGeneric(j) == ProcessGeneric(j, "unit")

\* The one of LGAs takes the states from the cached list.
ProcessLgaUploadGeneric(j) ==
    /\ jobs[j].pc = "process"
    /\ kind = "lga" /\ Generic(j) /\ listed # NONE
    /\ SetJob(j, Screened(j, "lga", listed))
    /\ UNCHANGED locationVars

\* Or loads them and stores the list.
LoadStates(j) ==
    /\ jobs[j].pc = "process"
    /\ kind = "lga" /\ Generic(j) /\ listed = NONE
    /\ SetJob(j, [jobs[j] EXCEPT !.pc = "store", !.known = parents])
    /\ UNCHANGED locationVars

StoreStates(j) ==
    /\ jobs[j].pc = "store"
    /\ listed' = jobs[j].known
    /\ SetJob(j, Screened(j, "lga", jobs[j].known))
    /\ UNCHANGED <<kind, parents, places, creates, stateWrites>>

InsertReplacing(j) ==
    /\ jobs[j].pc = "insert"
    /\ places' = WithReplaced(places, jobs[j].accepted)
    /\ SetJob(j, [jobs[j] EXCEPT !.pc = "mail", !.ok = Len(jobs[j].accepted)])
    /\ creates' = IF places' = places THEN creates ELSE Disturbed
    /\ UNCHANGED <<kind, parents, listed, stateWrites>>

\* bulkInsert: all rows in one statement.  A row that it ignores counts as a
\* success.
Insert(j) ==
    /\ jobs[j].pc = "insert"
    /\ IF Orphaned(places, jobs[j].accepted)
       THEN /\ SetJob(j, Rejected(jobs[j]))
            /\ UNCHANGED <<places, creates>>
       ELSE /\ places' = With(places, jobs[j].accepted)
            /\ SetJob(j, [jobs[j] EXCEPT !.pc = "mail", !.ok = Len(jobs[j].accepted)])
            /\ creates' = IF places' = places THEN creates ELSE Disturbed
    /\ UNCHANGED <<kind, parents, listed, stateWrites>>

\* A statement of the handler fails: the catch of its try.
HandlerFails(j) ==
    /\ jobs[j].pc \in {"process", "store", "insert"}
    /\ SetJob(j, Rejected(jobs[j]))
    /\ UNCHANGED locationVars

\* sendUploadSummaryEmail: the summary is queued.
Report(j) ==
    /\ jobs[j].pc = "mail"
    /\ SetJob(j, [jobs[j] EXCEPT !.pc = "reported"])
    /\ UNCHANGED locationVars

RetryForEver(j) ==
    /\ jobs[j].pc = "mail"
    /\ SetJob(j, Fresh(jobs[j], "waiting"))
    /\ UNCHANGED locationVars

\* It is not: the job has failed, and is run a second time.
ReportFails(j) ==
    /\ jobs[j].pc = "mail"
    /\ SetJob(j, IF jobs[j].failures + 1 < MaxFailures
                 THEN [Fresh(jobs[j], "waiting") EXCEPT !.failures = jobs[j].failures + 1]
                 ELSE [NoJob EXCEPT !.pc = "dead"])
    /\ UNCHANGED locationVars

\* The worker tells the queue that the job is done.
Complete(j) ==
    /\ jobs[j].pc = "reported"
    /\ SetJob(j, [NoJob EXCEPT !.pc = "done"])
    /\ UNCHANGED locationVars

\* The worker ends, or lets its lock on the job expire: the queue gives the
\* job to another one, even if its summary has been queued.  A worker whose
\* lock has expired is not stopped in the code; here its run ends.  What it
\* could still do is to queue a summary and to insert the rows of its file
\* where they conflict with nothing, as the second run does.
Stall(j) ==
    /\ jobs[j].pc \in {"process", "store", "insert", "mail", "reported"}
    /\ SetJob(j, IF jobs[j].stalls < MaxStalls
                 THEN [Fresh(jobs[j], "waiting") EXCEPT !.stalls = jobs[j].stalls + 1]
                 ELSE [NoJob EXCEPT !.pc = "dead"])
    /\ UNCHANGED locationVars

\* A step of others.
Elsewhere(Step) ==
    /\ Step
    /\ jobs' = IF <<places, parents>>' = <<places, parents>> THEN jobs
               ELSE [j \in Jobs |-> IF jobs[j].pc \in {"none", "done", "dead"} THEN jobs[j]
                                    ELSE [jobs[j] EXCEPT !.calm = FALSE]]

JobStep(j) ==
    \/ Take(j)
    \/ ProcessLgaUpload(j) \/ ProcessWardUpload(j) \/ ProcessPollingUnitUpload(j)
    \/ ProcessLgaUploadGeneric(j) \/ LoadStates(j) \/ StoreStates(j)
    \/ ProcessWardUploadGeneric(j) \/ ProcessPollingUnitUploadGeneric(j)
    \/ Insert(j) \/ HandlerFails(j)
    \/ Report(j) \/ ReportFails(j) \/ Complete(j) \/ Stall(j)

UploadNext ==
    \/ Elsewhere(LocationsNext)
    \/ \E j \in Jobs :
         \/ UploadLgas(j) \/ UploadLgasGeneric(j)
         \/ UploadWards(j) \/ UploadWardsGeneric(j)
         \/ UploadPollingUnits(j) \/ UploadPollingUnitsGeneric(j)
         \/ JobStep(j)

\* Workers go on, and a key that is not stored again lives for a day.
UploadSpec ==
    /\ UploadInit /\ [][UploadNext]_uploadVars
    /\ \A j \in Jobs : WF_uploadVars(JobStep(j))
    /\ WF_uploadVars(Elsewhere(Expire))
----------------------------------------------------------------------------
\* Type correctness of the places, the list of states, the requests and the jobs.
UploadTypeOK ==
    /\ LocationsTypeOK
    /\ \A j \in Jobs :
        /\ jobs[j].pc \in {"none", "waiting", "process", "store", "insert", "mail",
                           "reported", "done", "dead"}
        /\ jobs[j].pc \notin {"none", "done", "dead"} => jobs[j].file \in Files
        /\ jobs[j].failures \in 0 .. MaxFailures - 1
        /\ jobs[j].stalls \in 0 .. MaxStalls
        /\ jobs[j].known \subseteq Parents
        /\ jobs[j].accepted \in Seq(NewPlace)
        /\ jobs[j].ok \in Nat /\ jobs[j].failed \in Nat \cup {-1}

\* "N Succeeded / M Failed", "Total records processed from upload batch": a
\* file that is not rejected has each of its rows in one of the two counts, and
\* the rows kept are those a reader would keep who strikes out, from the top,
\* every row that is incomplete, of an unknown parent, or like one left standing
\* above it (the six handlers of FileConsumer).
EachRowAccounted ==
    \A j \in Jobs :
        jobs[j].pc \in {"insert", "mail", "reported"} /\ jobs[j].failed # -1 =>
            LET rows == RowsOf(j)
                full(i) == /\ rows[i].code # EMPTY /\ rows[i].name # EMPTY
                           /\ Generic(j) => rows[i].parent \in jobs[j].known
                like(i, k) == \/ /\ rows[i].name = rows[k].name
                                 /\ Generic(j) => rows[i].parent = rows[k].parent
                              \/ kind # "lga" /\ rows[i].code = rows[k].code
            IN  /\ \E standing \in SUBSET DOMAIN rows :
                     /\ \A i \in DOMAIN rows :
                          i \in standing <=> full(i) /\ \A k \in standing : k < i => ~like(i, k)
                     /\ Cardinality(standing) + jobs[j].failed = Len(rows)
                     /\ {rows[i].code : i \in standing} = {row.code : row \in ToSet(jobs[j].accepted)}
                     /\ Cardinality(standing) = Len(jobs[j].accepted)
                /\ jobs[j].pc # "insert" => jobs[j].ok = Len(jobs[j].accepted)

\* "All successfully imported records are immediately available in the system":
\* as long as nobody else changes the tables, a place with the code of every
\* row that a summary counts as a success is there, however often and in
\* however many pieces the job has been run.
ReportedRowsAreThere ==
    \A j \in Jobs :
        jobs[j].pc \in {"mail", "reported"} /\ jobs[j].calm =>
            {row.code : row \in ToSet(jobs[j].accepted)} \subseteq DOMAIN places

\* "Skips wards that already exist": no step of a job changes or removes a
\* place that is there (bulkInsert, orIgnore).
UploadsOnlyAdd ==
    [][\A j \in Jobs : jobs'[j].pc # jobs[j].pc =>
         \A c \in DOMAIN places : c \in DOMAIN places' /\ places'[c] = places[c]]_uploadVars

\* "You will receive an email once processing is complete": an upload ends with
\* a summary, or after failures that the queue does not retry.
EveryUploadReported ==
    \A j \in Jobs : jobs[j].pc = "waiting" ~> jobs[j].pc \in {"done", "dead"}
=============================================================================

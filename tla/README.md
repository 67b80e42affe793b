# Election Eye in TLA+

Election Eye collects the results of an election from the agents of rival
campaigns. An agent at a polling unit submits the totals and the votes by party
of an electoral office, a detector screens them, reviewers of the campaign and
administrators judge them, and dashboards show what has come in. Beside the
results there are pre-election reports, incidents, accounts and their sessions,
the registry of locations, bulk uploads and an audit trail. It is a NestJS
server (`src/src/`) over PostgreSQL, a Redis cache and Bull queues, and may run
as several processes: whatever must hold, must hold with requests interleaved at
every `await`.

This directory holds the specifications of that server, the instances TLC
checks and the theorems TLAPS proves. `PROJECT.json` lists the components, the
runs, the lines each definition stands for, the hazards, the findings and the
theorems.

```
tlc -workers 2 -config lifecycle_register.cfg MCResultLifecycle
tlapm ResultLifecycle_proofs.tla
tlapm StationFigures_proofs.tla
tlapm ResultDashboard_proofs.tla
tlapm Teams_proofs.tla
tlapm Boundaries_proofs.tla
tlapm Candidates_proofs.tla
tlapm BulkUpload_proofs.tla
tlapm Caches_proofs.tla
```

## 1. The system

State in *italics* lives in PostgreSQL, state in **bold** in Redis or a queue.

| Component | State | Operations | Uses |
|---|---|---|---|
| Results (`features/result`) | *results*, *result_details* | submitResult, verifyResult, queries | office boundaries, pre-election reports, office views, object store |
| Anomaly detector (`result-anomaly.detector.ts`) | none | detect | called by submitResult |
| Pre-election reports | *pre_election_reports* | submit (create or update, then link) | updates *results* |
| Office views (`result.service.ts`) | **office:…** keys, 15 to 30 s | cached reads, invalidateOfficeCaches | *results*, *incidents* |
| Result export | none | PDF and CSV of a report | a report |
| Electoral offices | *electoral_offices* with LGAs and wards | create, update, remove, boundaries of an office | locations |
| Users and teams | *users* | create by role, update, delete, search | **profile**, mail, tokens |
| Administrators | *admins* | create, update, soft delete | **profile** |
| Sessions (`authentication.guard.ts`) | **profile**, one day | read aside on every request | *users*, *admins* |
| Sign-in, password reset | *password_resets* | signIn, refresh, request, reset | **profile**, mail, *users*, *admins* |
| Email verification | *tokens* | issue, resend, verify | mail |
| System configuration | *system_configurations*, **system:config** | get, update, submission window | guards submissions |
| Incidents | *incidents* | report, update status, remove | office boundaries, **profile**, audit trail, object store |
| Aspirants | *aspirants* | create with an account, in one transaction | *users*, mail, tokens |
| Political parties | *political_parties*, **lists** | create, update, list | none |
| Locations (states, LGAs, wards, polling units) | four tables, **ALL_STATES** | check and insert, update, list | bulk upload |
| Bulk upload (`file.consumer.ts`) | **file queue** | one job per file | locations, mail queue |
| Audit trail | *audit_logs*, **audit queue** | record, interceptor | every mutating request |
| Mail, media storage, activity reports, roles and seeds | queues, object store, static rows | deliver, sign, read | none |

### Interactions that matter

* `submitResult` reads the user (through the **profile**), the polling unit, the
  boundary of the office, the pre-election report and the existing result, each
  by an `await` of its own, then writes in one transaction, then purges views.
* `verifyResult` reads the row and writes it by primary key in a second
  statement: it races with corrections.
* `submitPreElectionReport` writes a report and then the *result* it belongs to,
  outside any transaction.
* `UserRepository.update` moves an agent to another campaign while results the
  agent submitted for the old one stay where they are.
* Views are cached per office, filters and scope; what a purge deletes is
  another set of keys.
* `createIncident` takes the reporter's area from the **profile** and the boundary from
  the office, and saves later; `updateStatus` and `remove` read a row and write by id.
* The audit interceptor starts an entry when a handler has ended and waits for nothing.
* Workers of the file queue read parents (of LGAs through **ALL_STATES**) and insert rows
  next to the requests that change both.
* `AspirantService.create` writes an aspirant, its account and the link in one
  transaction, then issues a token in statements of their own.

### What is hard, and what makes each component correct

| Component | Hard | Correct means |
|---|---|---|
| Results | check-then-insert and check-then-update across requests; corrections made of three statements; failures between them; agents who move | one result per station and campaign; totals, breakdown and standing of one piece; no campaign's figures in another's result; a verdict only from those entitled; every request is answered |
| Figures | null, zero and left-out counts; two sources that arrive in any order | what was screened is what is stored; the stated precedence of sources; a link once made stays |
| Office views | reads begun before a write stored after its purge; views of several queries; keys that do not match | answers stay in the scope of the reader; views become current |
| Electoral offices | stepwise updates of category, state and areas; saves that write what differs from what they selected | an update whose save nobody overlaps leaves a scope of the kind of the category and areas in the state, whatever it started from; a boundary agrees with itself |
| Sessions, configuration, lists | a load that began before a change, stored after the deletion of the key | a blocked account is out within a stated time |
| Tokens | retire and issue, check and use in separate statements, twice at a time | one open token of a kind; only a token that was sent verifies an address |
| Aspirants, locations | check-then-insert without an index, steps of others in between | what the check says, when nothing came in between; an aspirant and its account belong together |
| Incidents | profile, boundary and row read at different times; removal under a pending change | a report is in its reporter's area and the campaign's boundary; what was answered as done is done |
| Bulk upload | jobs run again after a failure or a stall, failures after half the work, places that change meanwhile | every row is counted once; nothing that is there is changed; a summary comes |
| Audit trail | entries nobody waits for, two ways to the table, jobs delivered again | an entry handed over survives a fault, and comes to an end |

## 2. Modules

| Module | Models | Composition |
|---|---|---|
| `ResultLifecycle` | submitResult, verifyResult and their transactions, one action per statement; moves of agents | the core |
| `ResultRegister` | the abstract register the result service promises | implemented by the core, extended by `ResultDashboard` |
| `ResultLifecycleRefinement` | the refinement mapping | `INSTANCE ResultRegister` |
| `ResultDashboard` | cached office views | extends `ResultRegister` |
| `StationFigures` | detector, sources of voter figures, pre-election reports | on its own: one campaign at one station |
| `Places` | the registry of locations, and what an office covers of it | extended by `OfficeBoundaries`, `Teams` and `Incidents` |
| `Saves` | what TypeORM's `Repository.save` writes of an entity, and what it leaves | extended by `OfficeBoundaries` and `SubmissionWindow` |
| `OfficeBoundaries` | create, update and remove of an electoral office | extends `Places` and `Saves` |
| `Teams` | creation, update and deletion of members, their hierarchy and areas | extends `Places` |
| `Incidents` | reports, changes of status and removals of incidents, while offices change | extends `Places` and `AuditTrail` |
| `AuditTrail` | an entry on its way from the interceptor to the table | extended by `Incidents`, whose requests it follows |
| `Locations` | a level of places with the level above it, and the cached list of states | extended by the next |
| `BulkUpload` | upload, queue, worker, summary | extends `Locations`, whose requests run beside it |
| `Tokens` | accounts and the tokens that verify addresses and reset passwords | extended by the next |
| `Candidates` | creation of aspirants with their accounts, and of other accounts | extends `Tokens` |
| `CachedKey` | one key of the cache and the requests a guard answers by it | extended by the next two |
| `SubmissionWindow` | the configuration, its cached copy, the guard of submissions | extends `CachedKey` and `Saves` |
| `Sessions` | an account, its cached profile, the authentication guard, sign-in and what changes the account | extends `CachedKey` |
| `CopiedSource` | what any cache promises: copies of a value, as it was or is | implemented by `Sessions`, `SubmissionWindow`, `ResultDashboard` and `BulkUpload` |
| `ResultLifecycle_proofs` | invariants and proofs of the core, and that it implements the register | extends `ResultLifecycleRefinement` |
| `StationFigures_proofs`, `ResultDashboard_proofs`, `Teams_proofs`, `Candidates_proofs`, `BulkUpload_proofs` | invariants and proofs | each extends its module |
| `Boundaries_proofs` | invariants and proofs of the two modules about the boundary of an office | extends `OfficeBoundaries` and `Incidents` |
| `Caches_proofs` | invariants and proofs of the two keys by which requests are admitted | extends `Sessions` and `SubmissionWindow` |
| `MC…` | instances for TLC | |

Definitions without a comment that stand right before another (such as
`KeyNotAwaited` before `KeyPending`) are faulty variants of it, each the code with
a plausible bug. They are used nowhere in the specifications; each shows that the
property named with it under `mutants` in `PROJECT.json` notices that bug.

### ResultLifecycle

| Variable | In the code |
|---|---|
| `campaign` | `users.aspirant_id` |
| `results` | the committed rows of *results*, by id |
| `lines` | which submissions' rows *result_details* holds under a result |
| `submits[s]` | the locals and the program counter of one `submitResult` |
| `reviews[v]` | the same of one `verifyResult` |

A station is a pair of polling unit and electoral office. Totals, votes by party
and photo are named by the request that carried them, which is enough to tell
whose figures a row holds and whether two parts of it belong together.

| Action | Code |
|---|---|
| `StartSubmit` | `submitResult` to the anomaly report: the effective aspirant is fixed here, the outcome of the detector is either |
| `LookupMissing`, `LookupExisting` | `findByPollingUnitOfficeAndAspirant`, then 409, correction or creation |
| `InsertRow`, `InsertDuplicate`, `CommitInsert` | `createTransactional` |
| `UpdateRow`, `DeleteLines`, `CommitUpdate` | `updateTransactional` |
| `PurgeAfterSubmit`, `PurgeAfterReview` | `invalidateOfficeCaches` and the answer |
| `ReviewRead`, `ReviewWrite` | `findById` with the campaign check, then `updateAuditStatus` |
| `SubmitFails`, `ReviewFails` | a failed statement, a lost connection, a crash |
| `MoveUser` | `UserRepository.update` |

PostgreSQL is modelled at READ COMMITTED, its default, which the code does not
change: a statement sees what is committed when it starts; an UPDATE holds its
row to the end of the transaction (`RowLocked`); an INSERT waits for an open one
of the same unique key (`KeyPending`) and fails if that one commits
(`InsertDuplicate`). NULL aspirants are distinct to a unique index. The lookup has
no ORDER BY, so any matching row may be the one it returns.

The session's aspirant is read as `users.aspirant_id` at the start of a request.
The cached profile that stands between the two is in `Sessions`.

### ResultRegister

One entry per station and campaign, with the submission whose totals it has, the
submissions whose breakdown it has, and its standing. A submission enters at most
once, whole; a review changes a standing and nothing else; nothing is withdrawn.
The mapping takes the committed row of a key and its committed lines as the entry,
and the requests past their commit as those that have entered. A submission
without a campaign enters no entry (`EnterUnassigned`).

### ResultDashboard

`register` stands for the database; `cache` for Redis, a key being a kind of view
and a scope; `readers[r]` for one cached read, from the lookup of the key through
its queries (each a statement, at a time of its own) to the store. `Submit` and
`Verify` leave a purge to do (`purging`), which may be lost with the process.
The answers of the queries are the sets of entries they select: sums and percentages are
left out, and the count of incidents reads no results. The situation room is five
queries (`RoomQueries`), of which an instance follows those in `Followed`: they run
independently of each other, so what holds of any two holds of all. Here teams are
fixed and every agent has one; rows without a campaign are left out. The reports of a
unit, a ward, an LGA and a state are not among the views, because at this commit they
fail before anything is cached (section 5).

### StationFigures

One campaign at one polling unit: `official` is `polling_units.registered_voters`,
`report` and `result` are the rows of the campaign. A submission is three steps
(read report and screen, look up, write; the transaction itself is in
`ResultLifecycle`), an upload is four (look up, save, read back, link). Of a body the
model keeps votes cast, accredited voters and one Boolean for the two checks that
depend on nothing else (the breakdown adds up, the rejection rate). `Detect`,
`EffectiveRegistered`, `EffectiveAccredited` and `OrElse` keep the code's different
treatments of null, zero and left-out values.

### Places and OfficeBoundaries

Locations are constants: states, LGAs, wards, polling units and what lies in what.
`Boundary(office)` is `getOfficeBoundaries`, with `CoveredLgas` and `CoveredWards` as its
switch over categories.

| Variable | In the code |
|---|---|
| `office` | one row of *electoral_offices* with its LGAs and wards |
| `updates[u]` | one `update`: the loaded and changed copy, the areas its body names, and what its save has found so far |

| Action | Code |
|---|---|
| `Create` | `create`: `Creatable` is what it accepts, `Created` what it stores |
| `Load` | `update` up to its last line: `Acceptable`, `Updated` |
| `SelectOffice`, `SelectAreas` | the selects with which `officeRepository.save` begins: the row by its id, then each join table |
| `WriteOffice` | the transaction of the save: `Written` |
| `UpdateDies`, `Remove` | a failure before the transaction commits, `remove` |

`Saves` has what a save writes. TypeORM compares the entity with what it has selected and
writes only columns that differ (`Column`) and only rows of join tables that are missing or
too many (`List`), not in the transaction of the selects. A row of a join table that
somebody else has inserted meanwhile makes its own insert fail (`Clash`), and the
transaction with it. An office that the select did not find is inserted with its old
id. Two saves that overlap therefore leave a mixture of their copies. The selects stand at
times of their own; the transaction's statements commit together, as a rival's do.

### Teams

| Variable | In the code |
|---|---|
| `members[m]` | role, campaign, areas and deletion of a row of *users* |
| `requests[r]` | one `processUserUpdate` or `processUserDeletion` between its checks and its write: the member as it was, the account that asks and the columns it is going to write |

| Action | Code |
|---|---|
| `Create` | `createForTeam`, `processUserCreation`: an account without a campaign in its profile creates for the campaign of the body or of the database |
| `ReadForUpdate`, `ReadForDeletion` | everything up to the write |
| `Write` | `UserRepository.update` (only the columns that are not undefined) or `softDelete` |
| `RequestDies` | a failure before the write |

The checks of one request are several statements over locations that stay and a member
that is read once, so they are one step; what matters is the time between that read
and the write. The accounts that ask are given by their cached profiles, as constants,
and are not the member themselves: `processUserUpdate` refuses changes of oneself. A
deletion is two statements, of which the second decides; the first sets a status that
`Sessions` has and this module does not. `aspirantId` of a body is `campaign`, and nobody
checks it: `Transfers` are the campaigns that the bodies of an instance name.

### SubmissionWindow

| Variable | In the code |
|---|---|
| `stored` | the one row of *system_configurations*, with the four switches the guard asks for |
| `cached` | the key `system:config:global:v2` |
| `guards[g]` | a request at the guard, and the submission behind it |
| `updates[u]` | one `updateConfiguration` |

| Action | Code |
|---|---|
| `Hit`, `Miss` | the read of the key: the copy decides (`Allowed`), or the row is needed |
| `Load`, `LookAgain`, `CreateRow` | `getConfiguration` of the repository: `findOne`, and when it finds nothing the save of the defaults, a select and an insert or update |
| `Store`, `Finish` | the store of the copy and the guard's verdict; the end of the request |
| `UpdateLoad`, `UpdateMisses`, `UpdateCreates` | the same `getConfiguration` inside an update, then the changes to the copy (`Changed`) |
| `UpdateSelects`, `UpdateWrites` | the save: what it finds, then the switches that differ from it (`Save`, with `Column` of `Saves`) |
| `UpdateRefresh`, `UpdateDies` | the store of the copy in the cache; a failure |
| `ConfigurationExpires` | the time to live of the key |

Two updates that overlap mix their switches in the row, and each puts its own copy in the
cache, which the row need never have been. A profile's key may expire at any time as well
(`ProfileExpires`); what both have in common is `CachedKey`.

### Sessions

One account, of a user or an administrator, and `cached`, the profile under its key. The
guard reads it aside and checks the status of what it loads (`GuardLoad`) and not of what
it finds (`GuardHit`). A sign-in checks the account, loads it again and stores the
profile without a second check. Changes and deletions write the account and then delete
the key; either may die in between (`WriterDies`). A password reset and an email
verification activate the account that their token named when they read it
(`FindToken`, `Activate`); only the reset deletes the key.

### CopiedSource

An abstract cache: `source` is the value in the database, `copies` everything that is held
of it elsewhere, in the cache or by a request that has read it and not used it yet. The
source changes at will, copies may be lost or kept for as long as one likes, and a new copy
is of the source or of a copy. It says nothing of how old a copy may be, since in
this program no cache promises that without its time to live; that they catch up is
liveness, which the four modules state each for its own cache.

### AuditTrail and Incidents

| Variable | In the code |
|---|---|
| `audit[r]` | the entry of request `r` between `AuditService.record`, the audit queue, `AuditProcessor` and *audit_logs*; `rows` counts what it became |
| `offices[c]` | the office of a campaign, as `getOfficeBoundaries` reads it |
| `incidents[i]` | a row of *incidents*: its place, campaign and status |
| `requests[r]` | one `createIncident`, `updateStatus` or `remove` |

| Action | Code |
|---|---|
| `Report`, `Resolve`, `Refuse` | `createIncident`: profile and body, then the place they give or a refusal |
| `CheckBoundary`, `Save`, `Reload` | the boundary of the campaign's office, the insert, the read that makes the answer |
| `UpdateStatus`, `RemoveIncident` | `findById` and the comparison of campaigns |
| `WriteStatus`, `Delete` | the statements by id |
| `StatementFails`, `RequestDies` | a handler that throws, a process that ends |
| `Recorded` | the interceptor when a handler has ended: part of the action that ends it |
| `Enqueue`, `EnqueueFails`, `EntryDies` | `record`: the queue, or the direct write, or neither |
| `Process`, `Persist`, `PersistFails`, `JobDone`, `JobStalls` | the worker and Bull's attempts and stalls |
| `ChangeOffice` | an update of an office |

An entry has the actor and the outcome; what else it says is left out. A request comes
with any of the profiles in `Profiles`: how old a cached profile may be is in
`Sessions`. Categories, media and severities are left out. `faults` and `calm` are history
variables: they say what a property may ask, and no action reads them.

### Locations and BulkUpload

| Variable | In the code |
|---|---|
| `kind` | which of the three levels: LGAs under states, wards under LGAs, units under wards |
| `parents`, `places` | the rows of the level above, and those of the level by code |
| `listed` | the key `ALL_STATES` |
| `creates[c]`, `stateWrites[w]` | one `create`; one request to the states |
| `jobs[j]` | one upload: its job in the queue and the locals of its handler |

| Action | Code |
|---|---|
| `CreateCheck`, `CreateInsert` | `create` of the three services: what it compares, then the insert, which the index and the foreign key decide |
| `CreateLgas`, `CreateWards`, `CreatePollingUnits` | `createMultiple` |
| `Update…`, `Remove…` | update and removal by id |
| `StatesInsert`, `StateUpdate`, `StateRemove`, `StatePurge` | writes of states, then the deletion of the key |
| `StatesRead`, `StatesHit`, `StatesLoad`, `StatesStore`, `Expire` | `findAll`, read aside |
| `UploadLgas`, … | the six upload requests: what they check before they queue a job |
| `Take`, `Process…`, `LoadStates`, `StoreStates` | the six handlers of `FileConsumer`, up to their insert: `Kept` is the loop over the rows |
| `Insert` | `bulkInsert` with ON CONFLICT DO NOTHING, all rows in one statement |
| `HandlerFails`, `Report`, `ReportFails`, `Complete`, `Stall` | the catch of the handler, the queueing of the summary, Bull's attempts and stalls |

The three levels run the same steps with the checks of their own, so they are one module
with `kind` fixed at the start. Spellings of names, upper and lower case and the formats of
files are left out: two names are the same or they are not. BullMQ does not stop a worker
whose lock on a job has expired, so in the code the first run of a stalled job may go on
next to the second. `Stall` ends it. What the first run could still do is to queue another
summary and to insert the accepted rows of its file, which writes only what conflicts with
nothing (ON CONFLICT DO NOTHING), exactly as the second run does; no property depends on
which of the two comes first.

### Tokens and Candidates

| Variable | In the code |
|---|---|
| `accounts[a]` | a row of *users* or *admins*, by its address |
| `tokens[i]` | the token that request `i` has saved, of either kind |
| `issues[i]`, `uses[u]` | a request that issues a token; one that uses a token |
| `aspirants[c]`, `owns[a]` | the row of *aspirants* a creation has made; `users.owned_aspirant` |
| `creations[c]` | one `AspirantService.create` |

| Action | Code |
|---|---|
| `Resend`, `RequestPasswordResetToken`, `SignInForced` | the requests that lead to a token, up to their checks |
| `Retire`, `Save`, `Send` | old tokens marked used, the new one inserted, the mail queued |
| `FindToken`, `Apply`, `Mark` | `verifyUser`, `requestPasswordReset` and their counterparts for administrators |
| `CheckTicket`, `Insert`, `Commit` | `create` of an aspirant: check, transaction, commit; the address is waited for while another transaction holds it |
| `CreateAccount` | creation of an account without an aspirant of its own |
| `SetStatus`, `ChangePassword`, `DeleteAccount` | updates, a changed password, a soft deletion |
| `ExpireToken`, `IssueDies`, `UseDies`, `CreationDies` | time, failures |

A ticket is a pair of a party and an office. Users and administrators have tables and
copies of the code of their own that take the same steps; they are one set of accounts.

## 3. Runs

The runs of results, figures, views, offices, teams, incidents and candidates switch the
deadlock check off: requests are made at most once there, or the one office or member is
deleted, and the system stops. In the others a request can always be made, and the check
stays on.

| Run | Instance | Shows |
|---|---|---|
| `lifecycle_fixed_teams` | 3 submissions, 1 review, 2 agents, 2 campaigns, 1 station | types, one result per campaign, breakdowns of one piece, figures in their own campaign's result |
| `lifecycle_register` | 2 submissions, 1 review, an agent who moves between 2 campaigns or out | the core implements the register; flag and status agree; only those entitled verify; every submission is answered |
| `dashboard_cache` | 2 campaigns, 1 submission, reviews, 1 reader again and again, a view of one query and the situation room with two of its five | no answer leaves its scope; when results rest, only current views stay cached |
| `figures_screening` | 2 submissions, 1 upload, reviews; counts 0, 1, NULL, votes 1, 2 | types, screened as stored, links kept |
| `offices_updates` | 2 updates at a time, removal; 2 states, 3 LGAs, 3 wards, 3 polling units | a boundary agrees with itself on all levels, for every mixture that overlapping saves leave; an update whose save nobody overlaps leaves a scope of the kind its category asks for, and the areas it names in the state of the office |
| `teams_concurrent` | 1 member, 2 requests at a time, 5 accounts, one of them without a campaign, 2 campaigns, transfers into one of them | areas stay within the office of the other; accounts stay in their area, and in their campaign but for members that have just left it; an update that moves nobody and is not disturbed leaves the area the role needs |
| `window_closes` | 1 guard, 2 updates at a time, statement by statement, with a row or without | a window left closed comes to refuse every submission |
| `sessions_catch_up` | 2 guarded requests, a sign-in, 2 changes at a time | when the account rests, requests come to be answered with it as it is, and not at all when it is blocked |
| `incidents_audited` | 2 requests, an earlier incident, an office that changes, 4 profiles; the entry of one request | types; what the trail calls a success holds; an entry survives a fault, and comes to an end; reports are in area and boundary |
| `uploads_processed` | 1 file of 4 rows or 1, 1 creation, 1 request to the states, 2 parents, codes and names, each of the 3 levels | types; rows are accounted for, none is lost or overwritten; creations that nobody disturbs keep names apart; a summary comes; the list of states catches up |
| `candidates_tokens` | 2 creations for 1 ticket, 1 other request, 1 use at a time, 2 addresses | types, and that an aspirant and its account lead to each other; a creation that is not overtaken makes no second one; a request that is not overlapped leaves one open token |
| `lifecycle_correction_race` | 2 submissions, 1 review, 1 campaign | violation: a verified result is overwritten by a correction |

### Bounds, and why they are enough

* **Stations.** No statement reads or writes rows of two stations, and no lock or
  key spans them: one station shows every interaction.
* **Submissions.** Three at once reach one that inserts, one that waits for it and
  one that corrects what it left, or two corrections of one row with a creator
  before them. Two suffice where the question is about moves and reviews.
* **ResultIds** are as many as submissions, so `FreshIds` is never exhausted.
* **Reviews.** One races with two corrections. That two reviews do no harm either is
  proved, not only checked.
* **Figures.** Counts 0 and 1 with votes 1 and 2 reach both sides of each
  comparison, NULL each fallback.
* **Views.** One reader asks again and again, so a view of before and one of after
  a write meet in the cache; the kinds differ in the standings they select and in
  the number of their queries, and the run has a view of one and a view of two. Two of
  the situation room's queries (`Followed`) can be of one instant or of two, which is all
  that more of them could be told by. More readers would store values of the same kinds
  under the same keys.
* **Places.** Two LGAs in one state, one in another and a ward and a unit in each tell
  every check of state, LGA and ward apart; `teams_concurrent` has a second ward in one
  LGA, and an office that names an LGA and a ward outside it.
* **Bodies.** Those of members name at most two of role, campaign, LGA, ward and unit: any
  one with any other. Those of offices are one of each category, a move to the other state
  with areas of either, and wards alone. Those of the configuration turn one of two
  switches. Sequences of them reach the rest.
* **Transfers.** One campaign takes members from the other, so the run has a campaign of
  each kind: one that members come to and one they only leave.
* **Requests at a time.** Two: a statement of one falls between any two of the other.
  In `offices_updates`, `teams_concurrent`, `window_closes` and `sessions_catch_up` they are
  made again and again, so their number over time is not bounded.
* **Incidents.** Two requests, each made once: a report and a removal of it, or two
  changes of an earlier incident. Entries never meet, so the entry of one request
  (`Followed`) shows what any does. One status is enough: its write is a write by id
  whatever it says.
* **Attempts.** `MaxAttempts` and `MaxJobStalls`, `MaxFailures` and `MaxStalls` are
  the numbers of the queues' options and of Bull's defaults.
* **Uploads.** Four rows over two parents, two codes and two names have an equal name, an
  equal code and an equal parent with an earlier row, and the other file an empty
  cell, no parent and wrong headers. One creation, one request to the states and every
  other change may come between any two steps of the job. A second job would be to the
  first what `createMultiple` already is.
* **Candidates.** Two creations and one other request: one that overtakes, or one
  that issues between the two statements of another. One ticket, as tickets do not
  meet; two addresses, as a taken one decides a creation.

Symmetry is used in the runs of results that check invariants, and in `candidates_tokens`,
`offices_updates` and `teams_concurrent`, which check action properties besides, and no
liveness; every set it permutes is one whose members the specification and the properties
never tell apart.

### Fairness

`SubmitStep` and `ReviewStep` are weakly fair for each request: the event loop and
the database finish what a request in progress awaits. Weak fairness is enough because
whoever waits is eventually not overtaken: a waiting request's lock holder is itself
a request that finishes or fails, and requests are finitely many. Nobody is obliged
to submit, review, move or fail. In `ResultDashboard` a key's expiry is fair, as Redis
sees to it, and a read in progress comes to an end; writers are not fair, so
`DashboardCatchesUp` does not rest on purges. That is the point: they delete nothing
that was cached, and only the time to live brings views up to date.

`SubmissionWindow` and `Sessions` assume the same: a request in progress comes to an end,
well or not, and a key that is not stored again expires. Nothing obliges an update to
get through to the cache, so their liveness rests on expiry too: a hit does not
store what it found again, and does not lengthen its life.

In `BulkUpload` and `Incidents` the queue and its workers are weakly fair for each job and
each entry (`JobStep`, `Trail`): Redis keeps a job until a worker takes it, a handler
comes to an end, well or not, and Bull notices a stalled worker. That fairness includes
failing: `EveryUploadReported` and `EntriesSettle` hold because attempts and stalls are
counted. The key `ALL_STATES` expires. Requests are not obliged to anything.

## 4. Theorems

`ResultLifecycle_proofs` proves, for any numbers of users, campaigns, stations, ids and
requests, under `MobileAssumption` (movable users are users) and `NoneAssumption`
(NONE is none of the values it stands beside):

| Theorem | States |
|---|---|
| `TypeCorrect` | `Spec => []TypeOK` |
| `UniqueResult` | `Spec => []OneResultPerCampaign` |
| `BreakdownIntegrity` | `Spec => []BreakdownIsOneSubmission` |
| `VerifiedFlag` | `Spec => []VerifiedFlagAgrees` |
| `VerifiedRight` | `Spec => []VerifiedByRight` |

None of them is inductive. What each needs besides:

* `FlowInv` is `TypeOK` and `RequestInv`: a request between two statements has a user, a
  station and a target, and the target of one that updates is a stored row. Every
  other argument rests on it.
* `KeyInv` adds `InsertInv`: while a request has inserted and not committed, no
  row with its key is committed and no other request has inserted that key; ids of open
  inserts are distinct and free. The check of the index at the insert and the wait
  for open inserts keep it; without it the commit could not be shown to keep keys unique.
* `LinesInv` adds `LockInv`: two requests between UPDATE and COMMIT have different
  rows, and one that has deleted the lines of its row deleted exactly the line the
  row has now. The row lock keeps it until the commit.
* `VerdictInv` adds that a review about to write was entitled when it read the row
  (`EntitledInv`), and that the review a verified row names was entitled to it
  (`JudgedInv`). It needs that no statement changes the aspirant of a row.

`Follows` and the frame lemmas (`KeyFrame`, `LinesFrame`) state once what a step that
leaves the rows alone preserves, so that each action's step argues only about what it
changes.

`Boundaries_proofs` proves of `OfficeBoundaries`, for any locations and any number of updates
at a time, under `BodiesAssumption` (a body has the fields a request may carry) and
`NoOfficeAssumption` (neither NONE nor GONE is an office):

| Theorem | States |
|---|---|
| `OfficeTypes` | `OfficeSpec => []OfficeTypeOK` |
| `UncontestedScopeFits` | `OfficeSpec => UncontestedSavesFit` |
| `UncontestedAreasFit` | `OfficeSpec => UncontestedAreasInState` |

Of the stored office nothing of the kind is invariant: overlapping saves leave mixtures
that no update meant. What is invariant is said of the copies. `OfficeInv` adds
`CopiesFit`: the scope of a copy fits its category, and the areas its update named are in
its state, whatever became of the office since. `CreatedFits` and `UpdatedFits` establish
it from what validation lets through, for an office that is any mixture. `UncontestedWrite`
then says that a save which found the office as it is when it writes leaves its copy, and
`OnlyWriteIsUncontested` that the steps of which the two properties speak are such writes.

A fourth theorem, `LevelsAlwaysAgree` (`OfficeSpec => []LevelsAgree`), rests on
`CoveredTogether`: of an office whose areas are not of both kinds, whatever its category,
a covered ward's LGA is covered.

`ResultLifecycle_proofs` proves next, under the same assumptions and
`NoEntryAssumption` (NONE is no entry):

| Theorem | States |
|---|---|
| `LifecycleImplementsRegister` | `Spec => ImplementsRegister` |

The mapping chooses *a* row of a key, and `StatementInv` (`FlowInv`, `KeyInv` and `LinesInv`)
makes it *the* row: without one row per key a commit could change an entry by changing
the choice. `EntryAt` states that once, for this state and the next. Then a commit of an
insert or a correction is `Enter`, or `EnterUnassigned` without a campaign, as the lines
below the row are those of the one submission (`CommitEnters`); the write of a verdict is
`Review`, because the key of a row never changes (`VerdictReviews`); every other step
leaves rows, lines and the requests past their commit alone and stutters
(`OthersStutter`).

`ResultLifecycle_proofs` proves as well, of campaigns whose teams stay as they are:

| Theorem | States |
|---|---|
| `FiguresStayInCampaign` | `Mobile = {} => (Spec => []CampaignOwnsFigures)` |

`TeamInv` adds that everybody has a campaign, that a request submits for the campaign of
its user, that the aspirant of a row is the campaign of its uploader, and that a
correction under way has a row of its own station and campaign. The lookup takes rows by
the uploader's campaign *now*, so the third part is what makes its answer safe; it is
also the part that a move breaks, which is why the theorem asks for `Mobile = {}`.

`StationFigures_proofs` proves, under `CountsAssumption` and `NotNumbers` (NULL is not a number):

| Theorem | States |
|---|---|
| `FiguresTypes` | `FiguresSpec => []FiguresTypeOK` |
| `StoredAsScreened` | `FiguresSpec => ScreenedAsStored` |
| `LinkStays` | `FiguresSpec => LinkIsKept` |

`FiguresInv` adds that the flag a submission carries from the screening to its write is the
detector's answer for the figures it carries, and that a correction has a result to
correct. `DetectorAgrees` is the arithmetic: detector and columns treat zero and NULL
differently, and come to the same answer when the figures are the same.

`ResultDashboard_proofs` proves, under `KindsAssumption`:

| Theorem | States |
|---|---|
| `ViewsStayInScope` | `DashboardSpec => []AnswersStayInScope` |
| `AnswersAreCopies` | `DashboardSpec => Answers(q, scope)!CopySpec`, for every query and scope |
| `CurrentViewsStay` | `DashboardSpec => [][ViewsCurrent /\ register' = register => ViewsCurrent']_dashboardVars` |

A hit answers with what some earlier reader stored, so `ScopeInv` speaks of the cache too:
whatever a key holds is within the scope the key names. `ViewInv` adds that a view that
is cached or sent is complete, one answer to each of its queries. With it each reader's
step is described by `Turns`: every answer it then has comes from the database now,
from the cache, or from what it had. The second theorem is the refinement of `CopiedSource`,
with the answers to one query for one scope as the copies. `ViewsCurrent` says more than
that the cache is current: what readers have gathered and not yet stored is too, and
without that part a late store would undo it.

`Teams_proofs` proves, for any places, offices, accounts and bodies and any number of members
and of requests at a time, under `TeamsAssumption` (they have their types) and
`NoneAssumption` (NONE is no row and no campaign):

| Theorem | States |
|---|---|
| `TeamsTypes` | `TeamsSpec => []TeamsTypeOK` |
| `AreasStayWithinOffice` | `TeamsSpec => []AreasWithinOffice` |
| `ActorsStay` | `TeamsSpec => ActorsStayInScope` |
| `UndisturbedFit` | `TeamsSpec => UndisturbedUpdatesFit` |

They hold with transfers. The first says nothing of the members of a campaign that a body
may name, as a transfer brings areas of another office along; the last nothing of the
update that transfers. None depends on the member being as it was when the request read it, except
where the last one says so. `ScopeInv` makes that precise: a pending update is `Planned`,
that is, it writes the home of some role in some area that the office of the campaign it
looked up covers and that lies in the area of the account. That is a fact about the
request and not about the member, so no other request can undo it. `RequestFits` adds that
the account was entitled to the member it saw, and that a member whose campaign is none that
bodies name had that campaign when the request looked: the step that joins the two is that
nobody enters such a campaign. `PlannedWrites` derives what the write leaves, whatever row it
meets. `HomeFits` is the arithmetic of places: filling in the areas above the one a role
needs stays inside the boundary, and filling them in again changes nothing.

`Candidates_proofs` proves, under `CreationsAssumption` (creations issue tokens),
`NoRowAssumption` and `NoAspirantAssumption` (NONE is no row):

| Theorem | States |
|---|---|
| `CandidatesTypes` | `CandidatesSpec => []CandidatesTypeOK` |
| `CandidatesUnique` | `CandidatesSpec => UncontestedCandidatesUnique` |
| `IssueLeavesOne` | `CandidatesSpec => UncontestedIssueLeavesOne` |
| `VerifiedByTokens` | `CandidatesSpec => []VerifiedByToken` |

`CandidateInv` is the types, `TokenInv` and `CreationFits`. `TokenInv` adds `CalmIssues`: a
request that nobody overlapped since it retired the old tokens finds none open at its
insert, which is what the action property needs, and `VerifiedByToken`, which is
inductive beside the types, as only tokens that were sent can be found. `CreationFits`
adds that the ticket of a creation that was not overtaken is free, and that an
address held by an open transaction is not in the table and held by no other: without it
a commit could take the account of another aspirant, and the two would no longer lead to
each other.

`Boundaries_proofs` proves of `Incidents`, under `PlacesAssumption`, `IncidentsAssumption`,
`FollowedAssumption` and `NoEntryAssumption`:

| Theorem | States |
|---|---|
| `IncidentsTypes` | `IncidentsSpec => []IncidentsTypeOK` |
| `EntriesSurvive` | `IncidentsSpec => []EntriesSurviveAFault` |
| `SuccessesStay` | `IncidentsSpec => []SuccessesHold` |
| `ReportsStayInArea` | `IncidentsSpec => ReportsFit` |

`IncidentInv` has a part for each. `TrailInv` counts: the rows an entry has become never
exceed the faults on its way by more than one, and exceed them only once a worker has
written (`stored`); failures and stalls are faults. `Unsaved` and `RowOk` say what a report
about to be saved is, `Aimed` and `Own` what requests refer to, `Removed` that an id that was
removed is never written again, as a write by id finds no row and ids are not reused;
`Reported` that a report answered with success has been saved. For `ReportsFit` the
invariant carries from the resolution of the place to the insert that place and profile
fit, and that a calm report passed the boundary the office still has.

`BulkUpload_proofs` proves, for files of any length and any number of uploads and of
requests, under `FilesAssumption` and `RequestsAssumption` (files and requests have the
fields they may carry):

| Theorem | States |
|---|---|
| `UploadTypes` | `UploadSpec => []UploadTypeOK` |
| `RowsAccounted` | `UploadSpec => []EachRowAccounted` |
| `ReportedAreThere` | `UploadSpec => []ReportedRowsAreThere` |
| `UploadsAdd` | `UploadSpec => UploadsOnlyAdd` |
| `CreatesUnique` | `UploadSpec => UncontestedCreatesUnique` |
| `StateListsAreCopies` | `UploadSpec => StateLists!CopySpec` |
| `CurrentListStays` | once `ListsHeld \subseteq {parents}`, only a change of the states ends it |

`UploadInv` is `LocationsInv` and `JobsInv`. `LocationsInv` is the types, that every place
is under a place of the level above (`Rooted`, kept by the foreign key and by the cascade),
and `CalmCreates`: a creation whose table nobody has changed since its check has nobody
of its name under its parent. `JobsInv` says of a job what its program counter means:
before its screening it has accepted nothing (`JobFits`); from the screening on, its rows
and counts are those the scan of its file gives for the parents it knew (`Sorted`); and
when a summary is due and nobody else has changed the tables, the codes it
counts are there (`CountsThere`). The last holds across retries because a second run
starts from empty counts and `WithAdds` says that an insert takes nothing away.

What the scan gives is a lemma of its own, `KeptStands`: the rows that are kept are exactly
those left when every row that is incomplete, of an unknown parent, or like one left above
it is struck out. `Kept` is a recursive function, so this is an induction over the rows.
The library's induction theorems take an operator, which the provers cannot
instantiate; `Induction` is the same for a *set* of numbers, derived from `LeastNumber`, and
`ScanExists` and `ScanKeeps` use it with the set of the numbers up to which the claim
holds. `ScanExists` shows that the recursive definition defines something at all.

`Caches_proofs` proves, for any number of requests of each kind, under `BodiesAssumption` (a
body sets some of the switches) and `NoConfigurationAssumption` (NONE is no configuration):

| Theorem | States |
|---|---|
| `SessionTypes` | `SessionSpec => []SessionTypeOK` |
| `ProfilesAreCopies` | `SessionSpec => Profiles!CopySpec` |
| `AdmittedAsOnceWas` | `SessionSpec /\ [](account # p) =>` no request is ever admitted by `p` |
| `SettledSessionsStay` | once `AccountSettled`, it stays so until the account changes, and requests are admitted by the account as it is |
| `WindowTypes` | `WindowSpec => []WindowTypeOK` |
| `SwitchesAreCopies` | `WindowSpec => SwitchCopies(s)!CopySpec`, for every switch `s` |
| `ClosedStaysClosed` | once `WindowClosed`, it stays so until the row allows submissions again or an update is about to |

The refinements take as copies all that is held: the key, what guarded requests are about
to store or go on with, what sign-ins are about to store, what saves have found, and what
updates have saved and not yet stored. The type invariants `SessionInv` and `WindowInv` are
enough for them, as each step adds at most the value of the row. Three steps are worth a look.
A sign-in whose account has been deleted stores the profile it found first, which is a
copy of a copy. An update stores the configuration it has saved, and a switch of it is
what the save wrote to the row or what the save found there; so each switch in the
cache was in the row once, but their combination need not have been, and the theorem is
stated switch by switch. A row that is missing counts as the defaults, which a request
about to create it holds already.

`ClosedStaysClosed` needs both of its conditions: two updates that leave the window closed, each
by a switch of its own, can open the row between them, and an update that means to open it can be
overtaken, so that the row stays closed and its open copy goes into the cache.

`SettledSessionsStay`, `ClosedStaysClosed`, `CurrentViewsStay` and `CurrentListStays` are the halves of
`ChangesReachSessions`, `ClosedInTheEnd`, `DashboardCatchesUp` and `ListCatchesUp` that need no
fairness: how far out of date a cache may be is left to its time to live, but once nothing
out of date is held, neither in the cache nor by a request in progress, nothing out of date
comes back. The runs check the other halves, that this state is reached.

Assumptions are stated in the modules that declare the constants, and TLC evaluates all of
them in the runs.

Every invariant and every action property of a passing run is stated by a theorem.
Model-checked only are the liveness properties `EverySubmitAnswered`, `DashboardCatchesUp`,
`ClosedInTheEnd`, `ChangesReachSessions`, `EveryUploadReported`, `ListCatchesUp` and
`EntriesSettle`: fairness and ENABLED are out of the prover's reach.

## 5. Findings

1. **A correction overwrites a verdict.** The status is checked on a row read before
   the transaction and `updateTransactional` updates by id alone. A result that is
   verified in between loses its verdict and its figures.
   (Run `lifecycle_correction_race`.)

The models show more that the repository's own messages and comments speak against, and
for which no run is kept:

* **A moved agent's old result stands in for the new campaign's.** The lookup also takes a
  row whose uploader is in the campaign *now*. The first submission of the new campaign is
  refused as its duplicate. If the old row is flagged it is corrected in place and stays
  with the old campaign: `CampaignOwnsFigures` holds for fixed teams only, which is how it
  is checked and proved.
* **Purges miss.** Views are cached under keys that end in filters and scope; the purge
  deletes `office:summary:<id>` and `office:progress:<id>`, which nothing sets.
* **A correction can lose the over-voting flag.** The accredited voters of the old row are
  kept when neither body nor report has any, but the detector ran without them.
* **A late report replaces the official count** of registered voters (`LinkResult`),
  which `submitResult` puts first.
* **Update accepts offices that create refuses**: a senatorial office whose list of LGAs
  is emptied, or that becomes senatorial without any, and an office moved to another
  state that keeps the LGAs and wards of the old one (`Acceptable` looks only at what the
  body names).
* **Overlapping updates of an office leave a mixture** of what each meant: one makes an
  office with LGAs gubernatorial while the other names a ward, and a gubernatorial office
  with a ward remains; one moves the state while the other names LGAs of the old one. An
  update that selects after a removal brings the office back. The next update that
  nobody overlaps repairs the scope (`UncontestedSavesFit`) and the areas it names
  (`UncontestedAreasInState`).
* **Overlapping updates of the configuration** can open a window that each of them means to
  leave closed: voting is off and maintenance on, one update switches voting on, the other
  maintenance off, and the row takes both. The copy in the cache is that of the update that
  stores last, which may be open while the row is closed, until it expires.
* **Overlapping updates of a member**: one makes a campaign-wide member an LGA
  coordinator; the other, of the same member and without a role in its body, writes the
  blank areas of the role it saw. The coordinator ends up without an LGA.
  `UndisturbedUpdatesFit` says when this cannot happen.
* **A transfer keeps the old areas.** The areas are checked against the office of the
  campaign the member was in, while the campaign of the body is written unchecked.
* **A write reaches a member that has just been transferred.** The campaign is compared when
  the member is read, and the write goes by the id: the old campaign's request still
  changes or deletes what is by then the new campaign's member (`ActorsStayInScope` says
  that there is no other way to that).
* **The reports of a unit, a ward, an LGA and a state fail.** Their first query selects
  `party.party_acronym` (`result.repository.ts`, lines 296, 365, 435 and 507), a column that
  the entity of a party does not declare.
* **A promotion keeps the old ward and unit.** Update sets them to undefined, as create
  does; create leaves undefined columns NULL, the repository's update leaves them alone.
* **A configuration loaded before an update is stored after it** and decides until it
  expires, two hours later at most, although the update refreshes the copy at once.
* **An account deactivated while it signs in** is cached as inactive and admitted by the
  copy until it expires.
* **A second report that leaves a count out erases the first one's**: it has become null
  before the repository could take it for "not named".
* **A coordinator of a ward that an office names outside its named LGAs** can be created,
  but not updated (its LGA is not covered), and the same agent's incident report is
  refused: the boundary check looks at every level.
* **The summary of an upload counts rows that were ignored.** The rows handed to
  `bulkInsert` are the successes, those with a taken code among them.
* **A file whose rows are stored can be reported as rejected**: a first run stores them and
  stalls before its summary is queued, the second one fails.
* **`lga_id` as a header is refused**, though a comment in `file.consumer.ts` lists it beside
  `Lga Id` and `lgaId`: headers are compared without white space, and keep underscores.
* **Overlapping creations, uploads and updates can make two places of a name** under one
  parent, **overlapping creations of aspirants two of a party and an office**: only the code
  and the address have an index. The properties say when this cannot happen.
* **Two overlapping requests for a token leave two open ones.** Each retires what was there
  before the other's insert.
* **The mail to an administrator says 24 hours**, and its token lives for sixty days: hours
  are computed from 60 × 24.
* **Requests that a guard refuses are not in the audit trail**, although their routes ask
  for failures to be logged: guards run before interceptors. An entry may also say
  FAILURE of a change that is stored, when the read that makes the answer fails; and an
  entry is lost with a process that ends before it has reached the queue, as nobody waits
  for it. The queue may deliver it twice.
* **A change of status of an incident that has just been removed is answered as a
  success**, as is a second removal.
* **An office whose areas are not named lists no incidents**, and incidents of a ward or an
  LGA are in no office's list: the query joins polling units and named areas.

## 6. What is left

The order in which the modules were written: the core and its abstract register, figures,
views, offices, teams, configuration and sessions; then locations and uploads, incidents
and the audit trail, tokens and aspirants. What could follow:

* a composition of `Sessions` with `Teams` or `ResultLifecycle`, for a submission under a
  profile that is out of date. `Incidents` has a profile that was loaded at any time
  before; the core reads the campaign when the request starts;
* an abstract trail, with entries handed over, stored or lost, that `Incidents` implements,
  and an abstract store of places that uploads only add to, as `ResultRegister` is for
  results.

## 7. What the models leave out

* HTTP, validation of bodies by their decorators, JWT, throttling: a request
  starts where its handler has accepted it.
* Media keys and boundary checks: a submission that fails them changes nothing.
* The sums of votes: which rows a query selects decides what is right about it.
* Clock time: a time to live may end at any moment, which covers every length.
* Deletion of users, in `ResultLifecycle`: rows of results keep their uploader.
* Changes of the registry of locations, outside `Locations` and `BulkUpload`: `Places`
  and what is built on it take the tree of areas as it stands, so an area added or
  removed later is not in a boundary those modules compute.
* Bodies with a null where the code tests for undefined, except for areas in `Teams`.
* In the uploads: the spelling and the case of names, and the layout of the files. A row
  names an area or a party by a model value, which two rows share or do not.
* The contents of passwords and of refresh tokens: `Tokens` and `Sessions` follow that
  one was set or withdrawn.
* In the incidents: category, media, severity and the listings, none of which decides
  whether a report, a change of status or a removal goes through.
* In the audit trail: what an entry says beyond who asked, for what and with which
  outcome.

### Not modelled

* Result export: formats one report as PDF or CSV; no state.
* Political parties: reference data that one service keeps in one table under a unique
  code. Its update deletes only the list caches of no search, so that a list of a search
  may be out of date for a day; no text of the repository says how stale one may be, and
  results and aspirants refer to a party by its id alone.
* Mail: hands a message to a provider. Where a failure of it matters (the uploads' job,
  the issue of a token) it is an outcome of the step that sends.
* Activity reports: read results and incidents and change nothing.
* Media storage: signs URLs and asks an object store for metadata.
* Roles, seeds and bootstrap: static data and wiring.

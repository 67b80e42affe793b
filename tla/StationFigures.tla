--------------------------- MODULE StationFigures ---------------------------
(***************************************************************************)
(* The voter figures of one campaign at one polling unit: where a result   *)
(* takes its registered and accredited voters from, what the anomaly       *)
(* detector makes of them, and how a pre-election report that arrives      *)
(* before, between or after submissions changes them.                      *)
(*                                                                         *)
(* A submission reads the report and screens its body, looks the result    *)
(* up, and writes it in one transaction (ResultLifecycle has the           *)
(* statements of that).  An upload of a report looks the report up, saves  *)
(* it, and then updates the result: three statements, no transaction.      *)
(***************************************************************************)
EXTENDS Naturals

CONSTANTS
    Submits,   \* submitResult requests
    Uploads,   \* submitPreElectionReport requests
    Casts,     \* votes cast, valid and rejected, in a body
    Counts,    \* numbers of voters
    NONE       \* SQL NULL, and "left out" in a body

ASSUME CountsAssumption == Casts \subseteq Nat /\ Counts \subseteq Nat
ASSUME NotNumbers == NONE \notin Nat

VARIABLES
    official,  \* polling_units.registered_voters
    report,    \* the pre-election report of the campaign, or NONE
    result,    \* the result of the campaign, or NONE
    submits,   \* the local state of each submission
    uploads    \* the local state of each upload

figureVars == <<official, report, result, submits, uploads>>

Voters == Counts \cup {NONE}
Status == {"PENDING", "VERIFIED", "FLAGGED", "REJECTED"}

Report == [registered : Voters, accredited : Voters]

\* bad: the breakdown does not add up, or too many votes are rejected; both
\* depend on the body alone.
Result == [registered : Voters, accredited : Voters, cast : Casts,
           bad : BOOLEAN, anomalous : BOOLEAN, status : Status,
           linked : BOOLEAN]

Body == [cast : Casts, accredited : Voters, bad : BOOLEAN]

IdleSubmit == [pc |-> "idle"]
IdleUpload == [pc |-> "idle"]
----------------------------------------------------------------------------
\* x != null && Number(x) > 0
Positive(x) == x # NONE /\ x > 0

\* Definitions without a comment, here and below, are faulty variants of the
\* one that follows: the model checker must reject each of them.

\* The official count of the polling unit, else the one of the report.
EffectiveRegistered(rep) ==
    IF Positive(official) THEN official
    ELSE IF rep # NONE /\ Positive(rep.registered) THEN rep.registered ELSE NONE

\* The count in the body, even a zero, else the one of the report.
EffectiveAccredited(body, rep) ==
    IF body.accredited # NONE THEN body.accredited
    ELSE IF rep # NONE THEN rep.accredited ELSE NONE

\* Votes cast exceed the accredited voters.
OverVoting(cast, accredited) == Positive(accredited) /\ cast > accredited

\* Accredited voters or votes cast exceed the registered voters.
TurnoutOverRegistered(cast, accredited, registered) ==
    /\ Positive(registered)
    /\ \/ accredited # NONE /\ accredited > registered
       \/ cast > registered

DetectWithoutFallback(body, registered, accredited) ==
    \/ body.bad
    \/ OverVoting(body.cast, body.accredited)
    \/ TurnoutOverRegistered(body.cast, body.accredited, registered)

\* ResultAnomalyDetector.detect, with its fallbacks.
Detect(body, registered, accredited) ==
    LET counted == IF body.accredited # NONE THEN body.accredited
                   ELSE IF Positive(accredited) THEN accredited ELSE NONE
    IN \/ body.bad
       \/ OverVoting(body.cast, counted)
       \/ TurnoutOverRegistered(body.cast, counted, registered)

\* The same question about a stored result.
Irregular(r) ==
    \/ r.bad
    \/ OverVoting(r.cast, r.accredited)
    \/ TurnoutOverRegistered(r.cast, r.accredited, r.registered)

InitialStatusUnlisted(anomalous) == IF anomalous THEN "ANOMALOUS" ELSE "PENDING"

\* The audit status a submission starts with.
InitialStatus(anomalous) == IF anomalous THEN "FLAGGED" ELSE "PENDING"

\* a ?? b
OrElse(a, b) == IF a # NONE THEN a ELSE b
----------------------------------------------------------------------------
\* Before the first submission a report may have arrived.
FiguresInit ==
    /\ official \in Voters
    /\ report \in Report \cup {NONE}
    /\ result = NONE
    /\ submits = [s \in Submits |-> IdleSubmit]
    /\ uploads = [w \in Uploads |-> IdleUpload]

\* The report is read and the body screened.
Screen(s) ==
    /\ submits[s].pc = "idle"
    /\ \E body \in Body :
       LET registered == EffectiveRegistered(report)
           accredited == EffectiveAccredited(body, report)
       IN submits' = [submits EXCEPT ![s] =
             [pc         |-> "lookup",
              body       |-> body,
              registered |-> registered,
              accredited |-> accredited,
              anomalous  |-> Detect(body, registered, accredited),
              reported   |-> report # NONE,
              existing   |-> NONE]]
    /\ UNCHANGED <<official, report, result, uploads>>

\* The result is looked up: none, one to correct, or 409 Conflict.
FindResult(s) ==
    /\ submits[s].pc = "lookup"
    /\ submits' = [submits EXCEPT ![s] =
          IF result = NONE THEN [@ EXCEPT !.pc = "create"]
          ELSE IF result.status \in {"REJECTED", "FLAGGED"}
            THEN [@ EXCEPT !.pc = "correct", !.existing = result]
            ELSE [pc |-> "conflict"]]
    /\ UNCHANGED <<official, report, result, uploads>>

\* createTransactional, or the violation of the unique key.
Create(s) ==
    LET q == submits[s]
    IN /\ q.pc = "create"
       /\ IF result # NONE
            THEN result' = result /\ submits' = [submits EXCEPT ![s] =
                                                    [pc |-> "failed"]]
            ELSE /\ result' = [registered |-> q.registered,
                               accredited |-> q.accredited,
                               cast       |-> q.body.cast,
                               bad        |-> q.body.bad,
                               anomalous  |-> q.anomalous,
                               status     |-> InitialStatus(q.anomalous),
                               linked     |-> q.reported]
                 /\ submits' = [submits EXCEPT ![s] = [pc |-> "done"]]
       /\ UNCHANGED <<official, report, uploads>>

CorrectRelinking(s) ==
    LET q == submits[s]
    IN /\ q.pc = "correct"
       /\ result' = [registered |-> OrElse(q.registered, q.existing.registered),
                     accredited |-> OrElse(q.accredited, q.existing.accredited),
                     cast       |-> q.body.cast,
                     bad        |-> q.body.bad,
                     anomalous  |-> q.anomalous,
                     status     |-> InitialStatus(q.anomalous),
                     linked     |-> q.reported]
       /\ submits' = [submits EXCEPT ![s] = [pc |-> "done"]]
       /\ UNCHANGED <<official, report, uploads>>

\* updateTransactional with what the lookup saw: the lookup does not load the
\* linked report, and an update leaves out what is undefined.
Correct(s) ==
    LET q == submits[s]
    IN /\ q.pc = "correct"
       /\ result' = [registered |-> OrElse(q.registered, q.existing.registered),
                     accredited |-> OrElse(q.accredited, q.existing.accredited),
                     cast       |-> q.body.cast,
                     bad        |-> q.body.bad,
                     anomalous  |-> q.anomalous,
                     status     |-> InitialStatus(q.anomalous),
                     linked     |-> q.reported \/ result.linked]
       /\ submits' = [submits EXCEPT ![s] = [pc |-> "done"]]
       /\ UNCHANGED <<official, report, uploads>>

\* updateAuditStatus.
Judge ==
    /\ result # NONE
    /\ \E status \in Status \ {result.status} :
          result' = [result EXCEPT !.status = status]
    /\ UNCHANGED <<official, report, submits, uploads>>
----------------------------------------------------------------------------
\* createOrUpdate looks for the report of the campaign.
FindReport(w) ==
    /\ uploads[w].pc = "idle"
    /\ \E rep \in Report :
          uploads' = [uploads EXCEPT ![w] =
              [pc    |-> IF report = NONE THEN "insert" ELSE "update",
               saved |-> rep]]
    /\ UNCHANGED <<official, report, result, submits>>

\* It inserts one, or violates idx_pre_election_pu_office_aspirant_unique.
InsertReport(w) ==
    /\ uploads[w].pc = "insert"
    /\ IF report # NONE
         THEN report' = report /\ uploads' = [uploads EXCEPT ![w] =
                                                 [pc |-> "failed"]]
         ELSE /\ report' = uploads[w].saved
              /\ uploads' = [uploads EXCEPT ![w].pc = "link"]
    /\ UNCHANGED <<official, result, submits>>

\* It updates the one it found.  A count the body leaves out has become null
\* on the way here, not undefined: it replaces the existing one.
UpdateReport(w) ==
    /\ uploads[w].pc = "update"
    /\ report' = uploads[w].saved
    /\ uploads' = [uploads EXCEPT ![w].pc = "link"]
    /\ UNCHANGED <<official, result, submits>>

\* The report is read back after it is saved, and linked to the result.
ReadBack(w) ==
    /\ uploads[w].pc = "link"
    /\ uploads' = [uploads EXCEPT ![w].pc = "linking", ![w].saved = report]
    /\ UNCHANGED <<official, report, result, submits>>

LinkResult(w) ==
    /\ uploads[w].pc = "linking"
    /\ result' = IF result = NONE THEN NONE
                 ELSE [result EXCEPT
                          !.linked = TRUE,
                          !.registered = OrElse(uploads[w].saved.registered, @)]
    /\ uploads' = [uploads EXCEPT ![w] = [pc |-> "done"]]
    /\ UNCHANGED <<official, report, submits>>

\* A request dies between two of its statements.
SubmitDies(s) ==
    /\ submits[s].pc \in {"lookup", "create", "correct"}
    /\ submits' = [submits EXCEPT ![s] = [pc |-> "failed"]]
    /\ UNCHANGED <<official, report, result, uploads>>

UploadDies(w) ==
    /\ uploads[w].pc \in {"insert", "update", "link", "linking"}
    /\ uploads' = [uploads EXCEPT ![w] = [pc |-> "failed"]]
    /\ UNCHANGED <<official, report, result, submits>>

FiguresNext ==
    \/ \E s \in Submits : \/ Screen(s) \/ FindResult(s) \/ Create(s)
                          \/ Correct(s) \/ SubmitDies(s)
    \/ \E w \in Uploads : \/ FindReport(w) \/ InsertReport(w)
                          \/ UpdateReport(w) \/ ReadBack(w) \/ LinkResult(w)
                          \/ UploadDies(w)
    \/ Judge

FiguresSpec == FiguresInit /\ [][FiguresNext]_figureVars
----------------------------------------------------------------------------
\* Results and reports hold counts of their columns, or NULL.
FiguresTypeOK ==
    /\ official \in Voters
    /\ report \in Report \cup {NONE}
    /\ result \in Result \cup {NONE}

\* A submission that supplies its own figures, itself or through the report it
\* read, is flagged exactly when the result it leaves behind is irregular, be
\* it new or corrected: what is screened is what is stored (submitResult).
ScreenedAsStored ==
    [][\A s \in Submits :
          /\ submits[s].pc \in {"create", "correct"}
          /\ submits'[s].pc = "done"
          /\ \/ submits[s].pc = "create"
             \/ submits[s].registered # NONE /\ submits[s].accredited # NONE
          => (result'.anomalous <=> Irregular(result'))]_figureVars

\* A result keeps its link to the pre-election report through corrections,
\* those included that looked for the report before it arrived.
LinkIsKept ==
    [][result # NONE /\ result.linked => result'.linked]_figureVars
=============================================================================

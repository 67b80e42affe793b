------------------------ MODULE StationFigures_proofs ------------------------
(* Figures of a station for every set of counts and any number of           *)
(* submissions and uploads.                                                 *)
EXTENDS StationFigures, TLAPS

UnderWay == {"lookup", "create", "correct"}

Screened == [pc         : UnderWay,
             body       : Body,
             registered : Voters,
             accredited : Voters,
             anomalous  : BOOLEAN,
             reported   : BOOLEAN,
             existing   : Result \cup {NONE}]

SubmitState == Screened \cup [pc : {"idle", "conflict", "failed", "done"}]

Saving == {"insert", "update", "link", "linking"}

UploadState == [pc : Saving, saved : Report] \cup [pc : {"idle", "failed", "done"}]

\* What a submission in state x is about to store has been screened, and a
\* correction has a result to correct, which nothing takes away.
ScreenedFits(x) ==
    /\ x.pc \in UnderWay =>
         /\ x.anomalous = Detect(x.body, x.registered, x.accredited)
         /\ x.body.accredited # NONE => x.accredited = x.body.accredited
    /\ x.pc = "correct" => x.existing \in Result /\ result \in Result

\* A report that was saved is there to be read back.
SavedFits(x) == x.pc \in {"link", "linking"} => report \in Report

FiguresInv ==
    /\ FiguresTypeOK
    /\ submits \in [Submits -> SubmitState]
    /\ uploads \in [Uploads -> UploadState]
    /\ \A s \in Submits : ScreenedFits(submits[s])
    /\ \A w \in Uploads : SavedFits(uploads[w])
----------------------------------------------------------------------------
\* A step of a submission, which keeps reports and uploads.
LEMMA SubmitMoves ==
    ASSUME FiguresInv, NEW s \in Submits, NEW x \in SubmitState,
           submits' = [submits EXCEPT ![s] = x], UNCHANGED <<official, report, uploads>>,
           result' \in Result \cup {NONE}, result \in Result => result' \in Result,
           x.pc \in UnderWay =>
             /\ x.anomalous = Detect(x.body, x.registered, x.accredited)
             /\ x.body.accredited # NONE => x.accredited = x.body.accredited,
           x.pc = "correct" => x.existing \in Result /\ result' \in Result
    PROVE  FiguresInv'
<1>1. submits' \in [Submits -> SubmitState] /\ submits'[s] = x
  BY DEF FiguresInv
<1>2. \A t \in Submits \ {s} : submits'[t] = submits[t]
  BY DEF FiguresInv
<1>3. \A t \in Submits : ScreenedFits(submits[t])'
  BY <1>1, <1>2 DEF FiguresInv, ScreenedFits
<1>4. \A w \in Uploads : SavedFits(uploads[w])'
  BY DEF FiguresInv, SavedFits
<1> QED BY <1>1, <1>3, <1>4 DEF FiguresInv, FiguresTypeOK

\* A step of an upload, which keeps the submissions.
LEMMA UploadMoves ==
    ASSUME FiguresInv, NEW w \in Uploads, NEW x \in UploadState,
           uploads' = [uploads EXCEPT ![w] = x], UNCHANGED <<official, submits>>,
           result' \in Result \cup {NONE}, result \in Result => result' \in Result,
           report' \in Report \cup {NONE}, report \in Report => report' \in Report,
           x.pc \in {"link", "linking"} => report' \in Report
    PROVE  FiguresInv'
<1>1. uploads' \in [Uploads -> UploadState] /\ uploads'[w] = x
  BY DEF FiguresInv
<1>2. \A v \in Uploads \ {w} : uploads'[v] = uploads[v]
  BY DEF FiguresInv
<1>3. \A s \in Submits : ScreenedFits(submits[s])'
  BY DEF FiguresInv, ScreenedFits
<1>4. \A v \in Uploads : SavedFits(uploads[v])'
  BY <1>1, <1>2 DEF FiguresInv, SavedFits
<1> QED BY <1>1, <1>3, <1>4 DEF FiguresInv, FiguresTypeOK

LEMMA FiguresInit_Inv == FiguresInit => FiguresInv
<1> SUFFICES ASSUME FiguresInit PROVE FiguresInv
  OBVIOUS
<1>1. IdleSubmit \in SubmitState /\ IdleSubmit.pc = "idle"
  BY DEF IdleSubmit, SubmitState
<1>2. IdleUpload \in UploadState /\ IdleUpload.pc = "idle"
  BY DEF IdleUpload, UploadState
<1> QED BY <1>1, <1>2 DEF FiguresInit, FiguresInv, FiguresTypeOK, ScreenedFits,
                          SavedFits, UnderWay

LEMMA DetectIsBoolean ==
    ASSUME NEW body \in Body, NEW r \in Voters, NEW a \in Voters
    PROVE  Detect(body, r, a) \in BOOLEAN
BY DEF Detect, Body

\* A submission that ends, well or not.
LEMMA SubmitEnds ==
    ASSUME FiguresInv, NEW s \in Submits, NEW pc \in {"conflict", "failed", "done"},
           submits' = [submits EXCEPT ![s] = [pc |-> pc]],
           UNCHANGED <<official, report, uploads>>,
           result' \in Result \cup {NONE}, result \in Result => result' \in Result
    PROVE  FiguresInv'
<1> DEFINE x == [pc |-> pc]
<1>1. x \in SubmitState /\ x.pc = pc
  BY DEF SubmitState
<1>2. submits' = [submits EXCEPT ![s] = x]
  OBVIOUS
<1> HIDE DEF x
<1>3. x.pc \notin UnderWay /\ x.pc # "correct"
  BY <1>1 DEF UnderWay
<1> QED BY <1>1, <1>2, <1>3, SubmitMoves

LEMMA ScreenKeeps ==
    ASSUME FiguresInv, NEW s \in Submits, Screen(s)
    PROVE  FiguresInv'
<1>1. PICK body \in Body :
       submits' = [submits EXCEPT ![s] =
             [pc         |-> "lookup",
              body       |-> body,
              registered |-> EffectiveRegistered(report),
              accredited |-> EffectiveAccredited(body, report),
              anomalous  |-> Detect(body, EffectiveRegistered(report),
                                    EffectiveAccredited(body, report)),
              reported   |-> report # NONE,
              existing   |-> NONE]]
  BY DEF Screen
<1> DEFINE r == EffectiveRegistered(report)
           a == EffectiveAccredited(body, report)
           x == [pc         |-> "lookup",
                 body       |-> body,
                 registered |-> r,
                 accredited |-> a,
                 anomalous  |-> Detect(body, r, a),
                 reported   |-> report # NONE,
                 existing   |-> NONE]
<1>2. r \in Voters
  BY DEF EffectiveRegistered, FiguresInv, FiguresTypeOK, Voters, Report
<1>3. a \in Voters /\ (body.accredited # NONE => a = body.accredited)
  BY DEF EffectiveAccredited, FiguresInv, FiguresTypeOK, Voters, Report, Body
<1>4. submits' = [submits EXCEPT ![s] = x]
  BY <1>1
<1> HIDE DEF r, a
<1>5. Detect(body, r, a) \in BOOLEAN
  BY <1>2, <1>3, DetectIsBoolean
<1>6. /\ x \in SubmitState /\ x.pc = "lookup" /\ x.body = body
      /\ x.registered = r /\ x.accredited = a /\ x.anomalous = Detect(body, r, a)
  BY <1>2, <1>3, <1>5 DEF SubmitState, Screened, UnderWay
<1> HIDE DEF x
<1> QED BY <1>3, <1>4, <1>6, SubmitMoves DEF Screen, FiguresInv, FiguresTypeOK

LEMMA FindKeeps ==
    ASSUME FiguresInv, NEW s \in Submits, FindResult(s)
    PROVE  FiguresInv'
<1>1. /\ submits[s] \in Screened /\ submits[s].pc = "lookup"
      /\ UNCHANGED <<official, report, result, uploads>>
      /\ result \in Result \cup {NONE}
  BY DEF FindResult, FiguresInv, FiguresTypeOK, SubmitState, Screened
<1>2. CASE result = NONE
  <2> DEFINE x == [submits[s] EXCEPT !.pc = "create"]
  <2>1. submits' = [submits EXCEPT ![s] = x]
    BY <1>2 DEF FindResult
  <2>2. /\ x \in SubmitState /\ x.pc = "create" /\ x.body = submits[s].body
        /\ x.registered = submits[s].registered /\ x.accredited = submits[s].accredited
        /\ x.anomalous = submits[s].anomalous
    BY <1>1 DEF SubmitState, Screened, UnderWay
  <2> HIDE DEF x
  <2> QED BY <1>1, <2>1, <2>2, SubmitMoves DEF FiguresInv, ScreenedFits, UnderWay
<1>3. CASE result # NONE /\ result.status \in {"REJECTED", "FLAGGED"}
  <2> DEFINE x == [submits[s] EXCEPT !.pc = "correct", !.existing = result]
  <2>1. submits' = [submits EXCEPT ![s] = x]
    BY <1>3 DEF FindResult
  <2>2. /\ x \in SubmitState /\ x.pc = "correct" /\ x.body = submits[s].body
        /\ x.registered = submits[s].registered /\ x.accredited = submits[s].accredited
        /\ x.anomalous = submits[s].anomalous /\ x.existing = result
    BY <1>1 DEF SubmitState, Screened, UnderWay
  <2> HIDE DEF x
  <2> QED BY <1>1, <1>3, <2>1, <2>2, SubmitMoves DEF FiguresInv, ScreenedFits, UnderWay
<1>4. CASE result # NONE /\ result.status \notin {"REJECTED", "FLAGGED"}
  <2>1. submits' = [submits EXCEPT ![s] = [pc |-> "conflict"]]
    BY <1>4 DEF FindResult
  <2> QED BY <1>1, <2>1, SubmitEnds
<1> QED BY <1>2, <1>3, <1>4

\* What a submission stores is a result.
LEMMA StoredIsResult ==
    ASSUME FiguresInv, NEW s \in Submits, NEW r \in Voters, NEW a \in Voters,
           NEW linked \in BOOLEAN, submits[s] \in Screened
    PROVE  [registered |-> r, accredited |-> a,
            cast |-> submits[s].body.cast, bad |-> submits[s].body.bad,
            anomalous |-> submits[s].anomalous,
            status |-> InitialStatus(submits[s].anomalous),
            linked |-> linked] \in Result
BY DEF Screened, Result, InitialStatus, Status, Body

LEMMA CreateKeeps ==
    ASSUME FiguresInv, NEW s \in Submits, Create(s)
    PROVE  FiguresInv'
<1>1. /\ submits[s] \in Screened /\ submits[s].pc = "create"
      /\ UNCHANGED <<official, report, uploads>>
      /\ result \in Result \cup {NONE}
  BY DEF Create, FiguresInv, FiguresTypeOK, SubmitState, Screened
<1>2. CASE result # NONE
  BY <1>1, <1>2, SubmitEnds DEF Create
<1>3. CASE result = NONE
  <2>1. submits[s].registered \in Voters /\ submits[s].accredited \in Voters
        /\ submits[s].reported \in BOOLEAN
    BY <1>1 DEF Screened
  <2>2. result' \in Result
    BY <1>1, <1>3, <2>1, StoredIsResult DEF Create
  <2> QED BY <1>1, <1>3, <2>2, SubmitEnds DEF Create
<1> QED BY <1>2, <1>3

LEMMA CorrectKeeps ==
    ASSUME FiguresInv, NEW s \in Submits, Correct(s)
    PROVE  FiguresInv'
<1>1. /\ submits[s] \in Screened /\ submits[s].pc = "correct"
      /\ submits[s].existing \in Result /\ result \in Result
      /\ UNCHANGED <<official, report, uploads>>
  BY DEF Correct, FiguresInv, SubmitState, Screened, ScreenedFits
<1> DEFINE r == OrElse(submits[s].registered, submits[s].existing.registered)
           a == OrElse(submits[s].accredited, submits[s].existing.accredited)
           linked == submits[s].reported \/ result.linked
<1>2. r \in Voters /\ a \in Voters /\ linked \in BOOLEAN
  BY <1>1 DEF Screened, Result, OrElse
<1>3. result' \in Result
  <2> HIDE DEF r, a, linked
  <2>1. [registered |-> r, accredited |-> a,
            cast |-> submits[s].body.cast, bad |-> submits[s].body.bad,
            anomalous |-> submits[s].anomalous,
            status |-> InitialStatus(submits[s].anomalous),
            linked |-> linked] \in Result
    BY <1>1, <1>2, StoredIsResult
  <2> QED BY <2>1 DEF Correct, r, a, linked
<1> QED BY <1>1, <1>3, SubmitEnds DEF Correct

\* An upload that ends, well or not, with the report it left behind.
LEMMA UploadEnds ==
    ASSUME FiguresInv, NEW w \in Uploads, NEW pc \in {"failed", "done"},
           uploads' = [uploads EXCEPT ![w] = [pc |-> pc]],
           UNCHANGED <<official, report, submits>>,
           result' \in Result \cup {NONE}, result \in Result => result' \in Result
    PROVE  FiguresInv'
<1> DEFINE x == [pc |-> pc]
<1>1. x \in UploadState /\ x.pc = pc
  BY DEF UploadState
<1>2. uploads' = [uploads EXCEPT ![w] = x]
  OBVIOUS
<1> HIDE DEF x
<1>3. x.pc \notin {"link", "linking"}
  BY <1>1
<1> QED BY <1>1, <1>2, <1>3, UploadMoves DEF FiguresInv, FiguresTypeOK

LEMMA UploadKeeps ==
    ASSUME FiguresInv, NEW w \in Uploads,
           \/ FindReport(w) \/ InsertReport(w) \/ UpdateReport(w) \/ ReadBack(w)
    PROVE  FiguresInv'
<1>0. /\ result \in Result \cup {NONE} /\ report \in Report \cup {NONE}
      /\ uploads[w] \in UploadState
      /\ uploads[w].pc \in Saving => uploads[w] \in [pc : Saving, saved : Report]
  BY DEF FiguresInv, FiguresTypeOK, UploadState, Saving
<1>1. CASE FindReport(w)
  <2>1. PICK rep \in Report :
          uploads' = [uploads EXCEPT ![w] =
              [pc    |-> IF report = NONE THEN "insert" ELSE "update",
               saved |-> rep]]
    BY <1>1 DEF FindReport
  <2> DEFINE x == [pc    |-> IF report = NONE THEN "insert" ELSE "update",
                   saved |-> rep]
  <2>2. x \in UploadState /\ x.pc \notin {"link", "linking"}
    BY DEF UploadState, Saving
  <2>3. uploads' = [uploads EXCEPT ![w] = x]
    BY <2>1
  <2> HIDE DEF x
  <2> QED BY <1>0, <1>1, <2>2, <2>3, UploadMoves DEF FindReport
<1>2. CASE InsertReport(w) /\ report # NONE
  BY <1>0, <1>2, UploadEnds DEF InsertReport
<1>3. CASE (InsertReport(w) /\ report = NONE) \/ UpdateReport(w)
  <2> DEFINE x == [uploads[w] EXCEPT !.pc = "link"]
  <2>1. /\ uploads[w].pc \in {"insert", "update"}
        /\ uploads' = [uploads EXCEPT ![w] = x]
        /\ report' = uploads[w].saved /\ UNCHANGED <<official, result, submits>>
    BY <1>3 DEF InsertReport, UpdateReport
  <2>2. uploads[w] \in [pc : Saving, saved : Report]
    BY <1>0, <2>1 DEF Saving
  <2>3. x \in UploadState
    BY <2>2 DEF UploadState, Saving
  <2>4. report' \in Report
    BY <2>1, <2>2
  <2> HIDE DEF x
  <2> QED BY <1>0, <2>1, <2>3, <2>4, UploadMoves
<1>4. CASE ReadBack(w)
  <2>1. /\ uploads[w].pc = "link" /\ report \in Report
        /\ UNCHANGED <<official, report, result, submits>>
    BY <1>4 DEF ReadBack, FiguresInv, SavedFits
  <2> DEFINE x == [uploads[w] EXCEPT !.pc = "linking", !.saved = report]
  <2>2. uploads' = [uploads EXCEPT ![w] = x]
    BY <1>4, <2>1 DEF ReadBack, FiguresInv
  <2>3. uploads[w] \in [pc : Saving, saved : Report]
    BY <1>0, <2>1 DEF Saving
  <2>4. x \in UploadState
    BY <2>1, <2>3 DEF UploadState, Saving
  <2> HIDE DEF x
  <2> QED BY <1>0, <2>1, <2>2, <2>4, UploadMoves
<1> QED BY <1>1, <1>2, <1>3, <1>4

LEMMA LinkKeeps ==
    ASSUME FiguresInv, NEW w \in Uploads, LinkResult(w)
    PROVE  FiguresInv'
<1>1. /\ uploads[w] \in [pc : Saving, saved : Report]
      /\ result \in Result \cup {NONE}
      /\ UNCHANGED <<official, report, submits>>
      /\ uploads' = [uploads EXCEPT ![w] = [pc |-> "done"]]
  BY DEF LinkResult, FiguresInv, FiguresTypeOK, UploadState, Saving
<1>2. /\ result' \in Result \cup {NONE}
      /\ result \in Result => result' \in Result
  BY <1>1 DEF LinkResult, Result, Report, OrElse
<1> QED BY <1>1, <1>2, UploadEnds

LEMMA JudgeKeeps == ASSUME FiguresInv, Judge PROVE FiguresInv'
<1>1. result \in Result /\ result' \in Result
  BY DEF Judge, FiguresInv, FiguresTypeOK, Result
<1>2. \A s \in Submits : ScreenedFits(submits[s])'
  BY <1>1 DEF Judge, FiguresInv, ScreenedFits
<1>3. \A w \in Uploads : SavedFits(uploads[w])'
  BY DEF Judge, FiguresInv, SavedFits
<1> QED BY <1>1, <1>2, <1>3 DEF Judge, FiguresInv, FiguresTypeOK

LEMMA FiguresStep == FiguresInv /\ [FiguresNext]_figureVars => FiguresInv'
<1> SUFFICES ASSUME FiguresInv, [FiguresNext]_figureVars PROVE FiguresInv'
  OBVIOUS
<1>1. ASSUME NEW s \in Submits, SubmitDies(s) PROVE FiguresInv'
  BY <1>1, SubmitEnds DEF SubmitDies, FiguresInv, FiguresTypeOK
<1>2. ASSUME NEW w \in Uploads, UploadDies(w) PROVE FiguresInv'
  BY <1>2, UploadEnds DEF UploadDies, FiguresInv, FiguresTypeOK
<1>3. CASE UNCHANGED figureVars
  BY <1>3 DEF figureVars, FiguresInv, FiguresTypeOK, ScreenedFits, SavedFits
<1> QED
  BY <1>1, <1>2, <1>3, ScreenKeeps, FindKeeps, CreateKeeps, CorrectKeeps,
     UploadKeeps, LinkKeeps, JudgeKeeps DEF FiguresNext

LEMMA FiguresAlways == FiguresSpec => []FiguresInv
BY FiguresInit_Inv, FiguresStep, PTL DEF FiguresSpec

\* Results and reports hold counts of their columns, whatever order uploads,
\* corrections and reviews come in (submitResult, submitPreElectionReport).
THEOREM FiguresTypes == FiguresSpec => []FiguresTypeOK
<1>1. FiguresInv => FiguresTypeOK
  BY DEF FiguresInv
<1> QED BY <1>1, FiguresAlways, PTL
----------------------------------------------------------------------------
\* The detector and the columns agree on figures that are stored as screened.
LEMMA DetectorAgrees ==
    ASSUME NEW body \in Body, NEW r \in Voters, NEW a \in Voters,
           body.accredited # NONE => a = body.accredited,
           NEW x, x.registered = r, x.accredited = a,
           x.cast = body.cast, x.bad = body.bad
    PROVE  Detect(body, r, a) <=> Irregular(x)
<1>1. /\ body.cast \in Nat /\ body.bad \in BOOLEAN
      /\ r \in Nat \cup {NONE} /\ a \in Nat \cup {NONE}
  BY CountsAssumption DEF Body, Voters
<1> QED BY <1>1, NotNumbers DEF Detect, Irregular, OverVoting, TurnoutOverRegistered,
                                Positive


\* Only its own transaction ends a submission.
LEMMA OnlyItsTransactionEnds ==
    ASSUME FiguresInv, NEW s \in Submits, FiguresNext,
           submits[s].pc \in {"create", "correct"}, submits'[s].pc = "done"
    PROVE  Create(s) \/ Correct(s)
<1>1. ASSUME NEW t \in Submits \ {s},
             \/ Screen(t) \/ FindResult(t) \/ Create(t) \/ Correct(t) \/ SubmitDies(t)
      PROVE  FALSE
  <2>1. submits'[s] = submits[s]
    BY <1>1 DEF Screen, FindResult, Create, Correct, SubmitDies, FiguresInv
  <2> QED BY <2>1
<1>2. ~Screen(s) /\ ~FindResult(s)
  BY DEF Screen, FindResult
<1>3. ~SubmitDies(s)
  BY DEF SubmitDies, FiguresInv
<1>4. ASSUME \/ \E w \in Uploads : \/ FindReport(w) \/ InsertReport(w)
                                  \/ UpdateReport(w) \/ ReadBack(w) \/ LinkResult(w)
                                  \/ UploadDies(w)
             \/ Judge
      PROVE  FALSE
  BY <1>4 DEF FindReport, InsertReport, UpdateReport, ReadBack, LinkResult, UploadDies, Judge
<1> QED BY <1>1, <1>2, <1>3, <1>4 DEF FiguresNext

LEMMA CreatedAsScreened ==
    ASSUME FiguresInv, NEW s \in Submits, Create(s), submits'[s].pc = "done"
    PROVE  result'.anomalous <=> Irregular(result')
<1> DEFINE q == submits[s]
<1>1. q \in Screened /\ q.pc = "create"
  BY DEF Create, FiguresInv, SubmitState, Screened
<1>2. /\ q.anomalous = Detect(q.body, q.registered, q.accredited)
      /\ q.body.accredited # NONE => q.accredited = q.body.accredited
      /\ q.body \in Body /\ q.registered \in Voters /\ q.accredited \in Voters
  BY <1>1 DEF FiguresInv, ScreenedFits, Screened, UnderWay
<1>3. result = NONE
  BY DEF Create, FiguresInv
<1>4. /\ result'.registered = q.registered /\ result'.accredited = q.accredited
      /\ result'.cast = q.body.cast /\ result'.bad = q.body.bad
      /\ result'.anomalous = q.anomalous
  BY <1>3 DEF Create
<1> HIDE DEF q
<1> QED BY <1>2, <1>4, DetectorAgrees

LEMMA CorrectedAsScreened ==
    ASSUME FiguresInv, NEW s \in Submits, Correct(s),
           submits[s].registered # NONE /\ submits[s].accredited # NONE
    PROVE  result'.anomalous <=> Irregular(result')
<1> DEFINE q == submits[s]
<1>1. q \in Screened /\ q.pc = "correct"
  BY DEF Correct, FiguresInv, SubmitState, Screened
<1>2. /\ q.anomalous = Detect(q.body, q.registered, q.accredited)
      /\ q.body.accredited # NONE => q.accredited = q.body.accredited
      /\ q.body \in Body /\ q.registered \in Voters /\ q.accredited \in Voters
  BY <1>1 DEF FiguresInv, ScreenedFits, Screened, UnderWay
<1>3. /\ result'.registered = q.registered /\ result'.accredited = q.accredited
      /\ result'.cast = q.body.cast /\ result'.bad = q.body.bad
      /\ result'.anomalous = q.anomalous
  BY DEF Correct, OrElse
<1> HIDE DEF q
<1> QED BY <1>2, <1>3, DetectorAgrees

\* A submission is flagged exactly when the figures it leaves in the result
\* are irregular, for all counts, zero and NULL among them: detector, report
\* and columns treat them alike (submitResult, ResultAnomalyDetector).
THEOREM StoredAsScreened == FiguresSpec => ScreenedAsStored
<1>1. ASSUME FiguresInv, [FiguresNext]_figureVars
      PROVE  [\A s \in Submits :
                /\ submits[s].pc \in {"create", "correct"}
                /\ submits'[s].pc = "done"
                /\ \/ submits[s].pc = "create"
                   \/ submits[s].registered # NONE /\ submits[s].accredited # NONE
                => (result'.anomalous <=> Irregular(result'))]_figureVars
  <2> SUFFICES ASSUME FiguresNext, NEW s \in Submits,
                      submits[s].pc \in {"create", "correct"}, submits'[s].pc = "done",
                      \/ submits[s].pc = "create"
                      \/ submits[s].registered # NONE /\ submits[s].accredited # NONE
               PROVE  result'.anomalous <=> Irregular(result')
    BY <1>1
  <2>1. Create(s) \/ Correct(s)
    BY <1>1, OnlyItsTransactionEnds
  <2>2. CASE Create(s)
    BY <1>1, <2>2, CreatedAsScreened
  <2>3. CASE Correct(s)
    <3>1. submits[s].pc = "correct"
      BY <2>3 DEF Correct
    <3> QED BY <1>1, <2>3, <3>1, CorrectedAsScreened
  <2> QED BY <2>1, <2>2, <2>3
<1> QED BY <1>1, FiguresAlways, PTL DEF FiguresSpec, ScreenedAsStored

\* A correction never takes the link to a pre-election report away, not even
\* one that looked for the report before there was one (submitResult,
\* submitPreElectionReport).
THEOREM LinkStays == FiguresSpec => LinkIsKept
<1>1. ASSUME FiguresInv, [FiguresNext]_figureVars
      PROVE  [result # NONE /\ result.linked => result'.linked]_figureVars
  <2> SUFFICES ASSUME FiguresNext, result # NONE, result.linked
               PROVE  result'.linked
    BY <1>1
  <2>1. result \in Result
    BY <1>1 DEF FiguresInv, FiguresTypeOK
  <2>2. ASSUME NEW s \in Submits, Screen(s) \/ FindResult(s) \/ Create(s) \/ SubmitDies(s)
        PROVE  result' = result
    BY <2>2 DEF Screen, FindResult, Create, SubmitDies
  <2>3. ASSUME NEW s \in Submits, Correct(s)
        PROVE  result'.linked
    BY <2>3 DEF Correct
  <2>4. ASSUME NEW w \in Uploads,
               \/ FindReport(w) \/ InsertReport(w) \/ UpdateReport(w) \/ ReadBack(w)
               \/ UploadDies(w)
        PROVE  result' = result
    BY <2>4 DEF FindReport, InsertReport, UpdateReport, ReadBack, UploadDies
  <2>5. ASSUME NEW w \in Uploads, LinkResult(w)
        PROVE  result'.linked
    BY <2>1, <2>5 DEF LinkResult, Result
  <2>6. ASSUME Judge PROVE result'.linked
    BY <2>1, <2>6 DEF Judge, Result
  <2> QED BY <2>2, <2>3, <2>4, <2>5, <2>6 DEF FiguresNext
<1> QED BY <1>1, FiguresAlways, PTL DEF FiguresSpec, LinkIsKept
=============================================================================

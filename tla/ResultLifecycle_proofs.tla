----------------------- MODULE ResultLifecycle_proofs -----------------------
(* Safety of ResultLifecycle, and that it implements ResultRegister, for    *)
(* every number of users, campaigns, stations and requests.                 *)
EXTENDS ResultLifecycleRefinement, TLAPS

Locking == {"updated", "replaced"}

\* A request in flight has the fields its next statement uses.
RequestInv ==
    /\ \A s \in Submits :
        /\ submits[s].pc \in {"lookup", "insert", "inserted"} =>
              submits[s].user \in Users /\ submits[s].station \in Stations
        /\ submits[s].pc = "inserted" =>
              /\ submits[s].target \in ResultIds
              /\ results[submits[s].target] = NONE
              /\ \A t \in Submits : /\ submits[t].pc = "inserted"
                                    /\ submits[t].target = submits[s].target
                                    => s = t
        /\ submits[s].pc \in {"update", "updated", "replaced"} =>
              /\ submits[s].user \in Users
              /\ submits[s].target \in ResultIds
              /\ results[submits[s].target] # NONE
    /\ \A v \in Reviews :
          reviews[v].pc = "write" => /\ reviews[v].target \in ResultIds
                                    /\ results[reviews[v].target] # NONE

\* A row has at most one open correction, and what that one is about to
\* delete is all there is.
LockInv ==
    \A s \in Submits :
        /\ submits[s].pc \in Locking =>
              \A t \in Submits : /\ submits[t].pc \in Locking
                                 /\ submits[t].target = submits[s].target
                                 => s = t
        /\ submits[s].pc = "replaced" =>
              submits[s].replaced = lines[submits[s].target]

\* An open insert that names a campaign has its key to itself.
InsertInv ==
    \A s \in Submits :
        submits[s].pc = "inserted" /\ submits[s].aspirant # NONE =>
            /\ ~KeyTaken(submits[s].station, submits[s].aspirant)
            /\ \A t \in Submits :
                  /\ submits[t].pc = "inserted"
                  /\ submits[t].aspirant = submits[s].aspirant
                  /\ submits[t].station = submits[s].station
                  => s = t

\* A review between its check and its write is entitled to the row.
EntitledInv ==
    \A v \in Reviews :
        reviews[v].pc = "write" =>
            \/ reviews[v].admin
            \/ results[reviews[v].target].aspirant = NONE
            \/ reviews[v].aspirant = results[reviews[v].target].aspirant

\* A verified row names a review that has written and was entitled to it.
JudgedInv ==
    \A id \in Stored :
        results[id].verified =>
            \E v \in Reviews :
                /\ results[id].reviewer = v
                /\ reviews[v].pc \in {"purge", "done", "unpurged"}
                /\ \/ reviews[v].admin
                   \/ results[id].aspirant = NONE
                   \/ reviews[v].aspirant = results[id].aspirant

FlowInv == TypeOK /\ RequestInv

KeyInv == InsertInv /\ OneResultPerCampaign

LinesInv == LockInv /\ BreakdownIsOneSubmission

VerdictInv == EntitledInv /\ JudgedInv /\ VerifiedFlagAgrees
----------------------------------------------------------------------------
\* A stored row is a row; the row written by each transaction is one too.
LEMMA StoredRow ==
    ASSUME TypeOK, NEW id \in Stored
    PROVE  results[id] \in Row /\ id \in ResultIds
BY DEF TypeOK, Stored

LEMMA CorrectedRowType ==
    ASSUME NEW row \in Row, NEW s \in Submits,
           submits[s] \in SubmitRequest, submits[s].user \in Users
    PROVE  /\ CorrectedRow(row, s) \in Row
           /\ CorrectedRow(row, s).station = row.station
           /\ CorrectedRow(row, s).aspirant = row.aspirant
           /\ CorrectedRow(row, s).figures = s
           /\ CorrectedRow(row, s).verified = FALSE
           /\ CorrectedRow(row, s).status # "VERIFIED"
BY DEF CorrectedRow, Row, SubmitRequest, InitialStatus, AuditStatus

LEMMA NewRowType ==
    ASSUME NEW s \in Submits, submits[s] \in SubmitRequest,
           submits[s].user \in Users, submits[s].station \in Stations
    PROVE  /\ NewRow(s) \in Row
           /\ NewRow(s).station = submits[s].station
           /\ NewRow(s).aspirant = submits[s].aspirant
           /\ NewRow(s).figures = s
           /\ NewRow(s).verified = FALSE
           /\ NewRow(s).status # "VERIFIED"
BY DEF NewRow, Row, SubmitRequest, InitialStatus, AuditStatus

LEMMA JudgedRowType ==
    ASSUME NEW row \in Row, NEW v \in Reviews, reviews[v] \in ReviewRequest
    PROVE  /\ JudgedRow(row, v) \in Row
           /\ JudgedRow(row, v).station = row.station
           /\ JudgedRow(row, v).aspirant = row.aspirant
           /\ JudgedRow(row, v).figures = row.figures
           /\ JudgedRow(row, v).reviewer = v
           /\ JudgedRow(row, v).verified <=> JudgedRow(row, v).status = "VERIFIED"
BY DEF JudgedRow, Row, ReviewRequest
----------------------------------------------------------------------------
LEMMA FlowInit == Init => FlowInv
BY DEF Init, FlowInv, TypeOK, RequestInv, BlankSubmit, BlankReview,
       SubmitRequest, SubmitPc, ReviewRequest, ReviewPc, Campaigns, AuditStatus

LEMMA FlowStep == FlowInv /\ [Next]_vars => FlowInv'
<1> SUFFICES ASSUME FlowInv, [Next]_vars
             PROVE  TypeOK' /\ RequestInv'
    BY DEF FlowInv
<1> USE DEF FlowInv
<1>1. ASSUME NEW s \in Submits, StartSubmit(s)
      PROVE  TypeOK' /\ RequestInv'
  <2>0. submits[s] \in SubmitRequest
    BY DEF TypeOK
  <2>1. PICK u \in Users, named \in Campaigns, st \in Stations, x \in BOOLEAN :
           submits' = [submits EXCEPT ![s] =
              [@ EXCEPT !.pc = "lookup",
                        !.user = u,
                        !.aspirant = EffectiveAspirant(u, named),
                        !.station = st,
                        !.anomalous = x]]
    BY <1>1 DEF StartSubmit
  <2> DEFINE r == [submits[s] EXCEPT !.pc = "lookup",
                                     !.user = u,
                                     !.aspirant = EffectiveAspirant(u, named),
                                     !.station = st,
                                     !.anomalous = x]
  <2>2. EffectiveAspirant(u, named) \in Campaigns
    BY DEF EffectiveAspirant, TypeOK
  <2>3. /\ r \in SubmitRequest
        /\ r.pc = "lookup" /\ r.user = u /\ r.station = st
    BY <2>0, <2>2 DEF SubmitRequest, SubmitPc
  <2>4. submits' = [submits EXCEPT ![s] = r]
    BY <2>1
  <2> HIDE DEF r
  <2> QED
    BY <1>1, <2>3, <2>4 DEF StartSubmit, TypeOK, RequestInv
<1>2. ASSUME NEW s \in Submits, LookupMissing(s)
      PROVE  TypeOK' /\ RequestInv'
    BY <1>2 DEF LookupMissing, TypeOK, RequestInv, SubmitRequest, SubmitPc
<1>3. ASSUME NEW s \in Submits, LookupExisting(s)
      PROVE  TypeOK' /\ RequestInv'
  <2>0. submits[s] \in SubmitRequest
    BY DEF TypeOK
  <2>1. PICK id \in Existing(submits[s].station, submits[s].aspirant) :
           submits' = [submits EXCEPT ![s] =
              IF Correctable(id) THEN [@ EXCEPT !.pc = "update", !.target = id]
                                 ELSE BlankSubmit("conflict")]
    BY <1>3 DEF LookupExisting
  <2> DEFINE r == IF Correctable(id)
                    THEN [submits[s] EXCEPT !.pc = "update", !.target = id]
                    ELSE BlankSubmit("conflict")
  <2>2. id \in ResultIds /\ results[id] # NONE
    BY DEF Existing, Stored
  <2>3. /\ r \in SubmitRequest
        /\ \/ r.pc = "conflict"
           \/ r.pc = "update" /\ r.target = id /\ r.user = submits[s].user
    BY <2>0, <2>2 DEF SubmitRequest, SubmitPc, BlankSubmit, Campaigns
  <2>4. submits' = [submits EXCEPT ![s] = r]
    BY <2>1
  <2> HIDE DEF r
  <2> QED
    BY <1>3, <2>2, <2>3, <2>4 DEF LookupExisting, TypeOK, RequestInv
<1>4. ASSUME NEW s \in Submits, InsertRow(s)
      PROVE  TypeOK' /\ RequestInv'
  <2>0. submits[s] \in SubmitRequest
    BY DEF TypeOK
  <2>1. PICK id \in FreshIds :
           submits' = [submits EXCEPT ![s] =
              [@ EXCEPT !.pc = "inserted", !.target = id]]
    BY <1>4 DEF InsertRow
  <2> DEFINE r == [submits[s] EXCEPT !.pc = "inserted", !.target = id]
  <2>2. /\ id \in ResultIds /\ results[id] = NONE
        /\ \A t \in Submits : submits[t].pc = "inserted" => submits[t].target # id
    BY DEF FreshIds, Stored
  <2>3. /\ r \in SubmitRequest
        /\ r.pc = "inserted" /\ r.target = id
        /\ r.user = submits[s].user /\ r.station = submits[s].station
    BY <2>0, <2>2 DEF SubmitRequest, SubmitPc
  <2>4. submits' = [submits EXCEPT ![s] = r]
    BY <2>1
  <2> HIDE DEF r
  <2> QED
    BY <1>4, <2>2, <2>3, <2>4 DEF InsertRow, TypeOK, RequestInv
<1>5. ASSUME NEW s \in Submits, InsertDuplicate(s)
      PROVE  TypeOK' /\ RequestInv'
    BY <1>5 DEF InsertDuplicate, BlankSubmit, TypeOK, RequestInv,
                SubmitRequest, SubmitPc, Campaigns
<1>6. ASSUME NEW s \in Submits, CommitInsert(s)
      PROVE  TypeOK' /\ RequestInv'
  <2>0. submits[s] \in SubmitRequest
    BY DEF TypeOK
  <2> DEFINE id == submits[s].target
             row == NewRow(s)
             r == [submits[s] EXCEPT !.pc = "purge"]
  <2>1. id \in ResultIds
    BY <1>6 DEF CommitInsert, RequestInv
  <2>2. row \in Row /\ row # NONE
    BY <1>6, NewRowType, NoneAssumption DEF CommitInsert, TypeOK, RequestInv
  <2>3. r \in SubmitRequest /\ r.pc = "purge"
    BY <2>0 DEF SubmitRequest, SubmitPc
  <2>4. /\ results' = [results EXCEPT ![id] = row]
        /\ lines' = [lines EXCEPT ![id] = {s}]
        /\ submits' = [submits EXCEPT ![s] = r]
        /\ UNCHANGED <<campaign, reviews>>
    BY <1>6 DEF CommitInsert
  <2>5. \A t \in Submits \ {s} : submits[t].pc = "inserted" => submits[t].target # id
    BY <1>6 DEF CommitInsert, RequestInv
  <2> HIDE DEF id, row, r
  <2> QED
    BY <2>1, <2>2, <2>3, <2>4, <2>5 DEF TypeOK, RequestInv
<1>7. ASSUME NEW s \in Submits, UpdateRow(s)
      PROVE  TypeOK' /\ RequestInv'
    BY <1>7 DEF UpdateRow, TypeOK, RequestInv, SubmitRequest, SubmitPc
<1>8. ASSUME NEW s \in Submits, DeleteLines(s)
      PROVE  TypeOK' /\ RequestInv'
  <2>0. submits[s] \in SubmitRequest
    BY DEF TypeOK
  <2> DEFINE r == [submits[s] EXCEPT !.pc = "replaced",
                                     !.replaced = lines[submits[s].target]]
  <2>1. submits[s].target \in ResultIds /\ lines[submits[s].target] \in SUBSET Submits
    BY <1>8 DEF DeleteLines, TypeOK, RequestInv
  <2>2. /\ r \in SubmitRequest
        /\ r.pc = "replaced" /\ r.target = submits[s].target
        /\ r.user = submits[s].user
    BY <2>0, <2>1 DEF SubmitRequest, SubmitPc
  <2>3. submits' = [submits EXCEPT ![s] = r]
    BY <1>8 DEF DeleteLines
  <2> HIDE DEF r
  <2> QED
    BY <1>8, <2>2, <2>3 DEF DeleteLines, TypeOK, RequestInv
<1>9. ASSUME NEW s \in Submits, CommitUpdate(s)
      PROVE  TypeOK' /\ RequestInv'
  <2>0. submits[s] \in SubmitRequest
    BY DEF TypeOK
  <2> DEFINE id == submits[s].target
             row == CorrectedRow(results[id], s)
             r == [submits[s] EXCEPT !.pc = "purge", !.replaced = {}]
  <2>1. id \in ResultIds /\ results[id] \in Row /\ results[id] # NONE
    BY <1>9 DEF CommitUpdate, TypeOK, RequestInv
  <2>2. row \in Row /\ row # NONE
    BY <1>9, <2>1, CorrectedRowType, NoneAssumption
       DEF CommitUpdate, TypeOK, RequestInv
  <2>3. r \in SubmitRequest /\ r.pc = "purge"
    BY <2>0 DEF SubmitRequest, SubmitPc
  <2>4. /\ results' = [results EXCEPT ![id] = row]
        /\ lines' = [lines EXCEPT ![id] = (lines[id] \ submits[s].replaced)
                                             \cup {s}]
        /\ submits' = [submits EXCEPT ![s] = r]
        /\ UNCHANGED <<campaign, reviews>>
    BY <1>9 DEF CommitUpdate
  <2> HIDE DEF id, row, r
  <2>5. TypeOK'
    BY <2>1, <2>2, <2>3, <2>4 DEF TypeOK
  <2>6. RequestInv'
    BY <2>1, <2>2, <2>3, <2>4 DEF TypeOK, RequestInv
  <2> QED
    BY <2>5, <2>6
<1>10. ASSUME NEW s \in Submits, PurgeAfterSubmit(s)
       PROVE  TypeOK' /\ RequestInv'
    BY <1>10 DEF PurgeAfterSubmit, TypeOK, RequestInv, SubmitRequest, SubmitPc
<1>11. ASSUME NEW s \in Submits, SubmitFails(s)
       PROVE  TypeOK' /\ RequestInv'
    BY <1>11 DEF SubmitFails, BlankSubmit, TypeOK, RequestInv, SubmitRequest,
                 SubmitPc, Campaigns
<1>12. ASSUME NEW v \in Reviews, ReviewRead(v)
       PROVE  TypeOK' /\ RequestInv'
    BY <1>12 DEF ReviewRead, Stored, BlankReview, TypeOK, RequestInv,
                 ReviewRequest, ReviewPc, Campaigns, AuditStatus
<1>13. ASSUME NEW v \in Reviews, ReviewWrite(v)
       PROVE  TypeOK' /\ RequestInv'
  <2>0. reviews[v] \in ReviewRequest
    BY DEF TypeOK
  <2> DEFINE id == reviews[v].target
             row == JudgedRow(results[id], v)
             r == [reviews[v] EXCEPT !.pc = "purge"]
  <2>1. id \in ResultIds /\ results[id] \in Row /\ results[id] # NONE
    BY <1>13 DEF ReviewWrite, TypeOK, RequestInv
  <2>2. row \in Row /\ row # NONE
    BY <1>13, <2>1, JudgedRowType, NoneAssumption DEF TypeOK
  <2>3. r \in ReviewRequest /\ r.pc = "purge" /\ r.target = id
    BY <2>0 DEF ReviewRequest, ReviewPc
  <2>4. /\ results' = [results EXCEPT ![id] = row]
        /\ reviews' = [reviews EXCEPT ![v] = r]
        /\ UNCHANGED <<campaign, lines, submits>>
    BY <1>13 DEF ReviewWrite
  <2> HIDE DEF id, row, r
  <2>5. TypeOK'
    BY <2>1, <2>2, <2>3, <2>4 DEF TypeOK
  <2>6. RequestInv'
    BY <2>1, <2>2, <2>3, <2>4 DEF TypeOK, RequestInv
  <2> QED
    BY <2>5, <2>6
<1>14. ASSUME NEW v \in Reviews, PurgeAfterReview(v)
       PROVE  TypeOK' /\ RequestInv'
    BY <1>14 DEF PurgeAfterReview, TypeOK, RequestInv, ReviewRequest, ReviewPc
<1>15. ASSUME NEW v \in Reviews, ReviewFails(v)
       PROVE  TypeOK' /\ RequestInv'
    BY <1>15 DEF ReviewFails, BlankReview, TypeOK, RequestInv, ReviewRequest,
                 ReviewPc, Campaigns, AuditStatus
<1>16. ASSUME NEW u \in Mobile, MoveUser(u)
       PROVE  TypeOK' /\ RequestInv'
    BY <1>16, MobileAssumption DEF MoveUser, TypeOK, RequestInv
<1>17. CASE UNCHANGED vars
    BY <1>17 DEF vars, TypeOK, RequestInv
<1> QED
    BY <1>1, <1>2, <1>3, <1>4, <1>5, <1>6, <1>7, <1>8, <1>9, <1>10, <1>11,
       <1>12, <1>13, <1>14, <1>15, <1>16, <1>17
       DEF Next, SubmitStep, ReviewStep

\* Type correctness: whatever interleaving of requests, failures and moves,
\* every row, breakdown and request keeps to its columns and fields.
THEOREM TypeCorrect == Spec => []TypeOK
<1>1. Spec => []FlowInv
  BY FlowInit, FlowStep, PTL DEF Spec
<1>2. FlowInv => TypeOK
  BY DEF FlowInv
<1> QED
  BY <1>1, <1>2, PTL
----------------------------------------------------------------------------
\* A step that keeps the key of every stored row and opens no insert.
LEMMA KeyFrame ==
    ASSUME KeyInv,
           Stored' = Stored,
           \A id \in Stored : /\ results'[id].station = results[id].station
                             /\ results'[id].aspirant = results[id].aspirant,
           \A s \in Submits : submits'[s].pc = "inserted" => submits'[s] = submits[s]
    PROVE  KeyInv'
<1>1. \A st, a : KeyTaken(st, a)' <=> KeyTaken(st, a)
  BY DEF KeyTaken
<1>2. InsertInv'
  <2> SUFFICES ASSUME NEW s \in Submits,
                      submits'[s].pc = "inserted", submits'[s].aspirant # NONE
               PROVE  /\ ~KeyTaken(submits[s].station, submits[s].aspirant)'
                      /\ submits'[s] = submits[s]
                      /\ \A t \in Submits :
                            /\ submits'[t].pc = "inserted"
                            /\ submits'[t].aspirant = submits'[s].aspirant
                            /\ submits'[t].station = submits'[s].station
                            => s = t
    BY DEF InsertInv, KeyTaken
  <2> QED
    BY <1>1 DEF KeyInv, InsertInv
<1>3. OneResultPerCampaign'
  BY DEF KeyInv, OneResultPerCampaign
<1> QED
  BY <1>2, <1>3 DEF KeyInv

LEMMA KeyStep == FlowInv /\ KeyInv /\ [Next]_vars => KeyInv'
<1> SUFFICES ASSUME FlowInv, KeyInv, [Next]_vars
             PROVE  KeyInv'
    OBVIOUS
<1>1. ASSUME NEW s \in Submits, InsertRow(s)
      PROVE  KeyInv'
  <2>0. submits[s] \in SubmitRequest
    BY DEF FlowInv, TypeOK
  <2>1. PICK id \in FreshIds :
           submits' = [submits EXCEPT ![s] =
              [@ EXCEPT !.pc = "inserted", !.target = id]]
    BY <1>1 DEF InsertRow
  <2> DEFINE r == [submits[s] EXCEPT !.pc = "inserted", !.target = id]
  <2>2. /\ r.station = submits[s].station
        /\ r.aspirant = submits[s].aspirant
    BY <2>0 DEF SubmitRequest
  <2>3. submits' = [submits EXCEPT ![s] = r]
    BY <2>1
  <2> HIDE DEF r
  <2>4. results' = results /\ Stored' = Stored
    BY <1>1 DEF InsertRow, Stored
  <2>5. \A st, a : KeyTaken(st, a)' <=> KeyTaken(st, a)
    BY <2>4 DEF KeyTaken
  <2>6. OneResultPerCampaign'
    BY <2>4 DEF KeyInv, OneResultPerCampaign
  <2>7. /\ submits'[s] = r
        /\ \A t \in Submits : t # s => submits'[t] = submits[t]
    BY <2>3 DEF FlowInv, TypeOK
  <2>8. /\ ~KeyTaken(submits[s].station, submits[s].aspirant)
        /\ submits[s].aspirant # NONE =>
              \A t \in Submits : ~ /\ submits[t].pc = "inserted"
                                   /\ submits[t].station = submits[s].station
                                   /\ submits[t].aspirant = submits[s].aspirant
    BY <1>1 DEF InsertRow, KeyPending
  <2>9. InsertInv'
    <3> SUFFICES ASSUME NEW p \in Submits,
                        submits'[p].pc = "inserted", submits'[p].aspirant # NONE
                 PROVE  /\ ~KeyTaken(submits[p].station, submits[p].aspirant)'
                        /\ \A t \in Submits :
                              /\ submits'[t].pc = "inserted"
                              /\ submits'[t].aspirant = submits'[p].aspirant
                              /\ submits'[t].station = submits'[p].station
                              => p = t
      BY DEF InsertInv
    <3> QED
      BY <2>2, <2>5, <2>7, <2>8 DEF KeyInv, InsertInv
  <2> QED
    BY <2>6, <2>9 DEF KeyInv
<1>2. ASSUME NEW s \in Submits, CommitInsert(s)
      PROVE  KeyInv'
  <2> DEFINE i == submits[s].target
             st == submits[s].station
             a == submits[s].aspirant
  <2>1. /\ submits[s].pc = "inserted"
        /\ submits' = [submits EXCEPT ![s].pc = "purge"]
        /\ results' = [results EXCEPT ![i] = NewRow(s)]
    BY <1>2 DEF CommitInsert
  <2>2. i \in ResultIds /\ results[i] = NONE
    BY <2>1 DEF FlowInv, RequestInv
  <2>3. /\ NewRow(s) \in Row
        /\ NewRow(s).station = st
        /\ NewRow(s).aspirant = a
    BY <2>1, NewRowType DEF FlowInv, TypeOK, RequestInv
  <2>4. /\ results'[i] = NewRow(s)
        /\ \A id \in ResultIds : id # i => results'[id] = results[id]
        /\ Stored' = Stored \cup {i}
    BY <2>1, <2>2, <2>3, NoneAssumption DEF Stored, FlowInv, TypeOK
  <2>5. /\ submits'[s].pc # "inserted"
        /\ \A t \in Submits : t # s => submits'[t] = submits[t]
    BY <2>1 DEF FlowInv, TypeOK, SubmitRequest
  <2> HIDE DEF i, st, a
  <2>6. a # NONE =>
           /\ \A id \in Stored : ~ /\ results[id].station = st
                                   /\ results[id].aspirant = a
           /\ \A t \in Submits :
                 /\ submits[t].pc = "inserted"
                 /\ submits[t].aspirant = a
                 /\ submits[t].station = st
                 => s = t
    BY <2>1 DEF KeyInv, InsertInv, KeyTaken, st, a
  <2>7. Stored \subseteq ResultIds /\ i \notin Stored
    BY <2>2 DEF Stored
  <2>8. OneResultPerCampaign'
    BY <2>3, <2>4, <2>6, <2>7 DEF KeyInv, OneResultPerCampaign
  <2>9. InsertInv'
    <3> SUFFICES ASSUME NEW p \in Submits,
                        submits'[p].pc = "inserted", submits'[p].aspirant # NONE
                 PROVE  /\ ~KeyTaken(submits[p].station, submits[p].aspirant)'
                        /\ \A t \in Submits :
                              /\ submits'[t].pc = "inserted"
                              /\ submits'[t].aspirant = submits'[p].aspirant
                              /\ submits'[t].station = submits'[p].station
                              => p = t
      BY DEF InsertInv
    <3>1. p # s /\ submits'[p] = submits[p]
      BY <2>5
    <3>2. ~KeyTaken(submits[p].station, submits[p].aspirant)
      BY <3>1 DEF KeyInv, InsertInv
    <3>3. ~ /\ submits[p].station = st
            /\ submits[p].aspirant = a
      BY <2>6, <3>1
    <3> QED
      BY <2>3, <2>4, <2>5, <2>7, <3>1, <3>2, <3>3
         DEF KeyInv, InsertInv, KeyTaken
  <2> QED
    BY <2>8, <2>9 DEF KeyInv
<1>3. ASSUME NEW s \in Submits, CommitUpdate(s)
      PROVE  KeyInv'
  <2> DEFINE i == submits[s].target
  <2>1. /\ submits[s].pc = "replaced"
        /\ results' = [results EXCEPT ![i] = CorrectedRow(results[i], s)]
        /\ submits' = [submits EXCEPT ![s] =
              [@ EXCEPT !.pc = "purge", !.replaced = {}]]
    BY <1>3 DEF CommitUpdate
  <2>2. /\ i \in Stored
        /\ submits[s].user \in Users
        /\ submits[s] \in SubmitRequest
    BY <2>1 DEF FlowInv, RequestInv, TypeOK, Stored
  <2>3. /\ results[i] \in Row
        /\ i \in ResultIds
    BY <2>2, StoredRow DEF FlowInv
  <2>4. /\ CorrectedRow(results[i], s) \in Row
        /\ CorrectedRow(results[i], s).station = results[i].station
        /\ CorrectedRow(results[i], s).aspirant = results[i].aspirant
    BY <2>2, <2>3, CorrectedRowType
  <2>5. submits'[s].pc # "inserted"
    BY <2>1, <2>2 DEF FlowInv, TypeOK, SubmitRequest
  <2>6. \A t \in Submits : t # s => submits'[t] = submits[t]
    BY <2>1 DEF FlowInv, TypeOK
  <2> HIDE DEF i
  <2>7. /\ results'[i] = CorrectedRow(results[i], s)
        /\ \A id \in ResultIds : id # i => results'[id] = results[id]
    BY <2>1, <2>3 DEF FlowInv, TypeOK, i
  <2>8. Stored' = Stored
    BY <2>2, <2>4, <2>7, NoneAssumption DEF Stored
  <2>9. \A id \in Stored : /\ results'[id].station = results[id].station
                           /\ results'[id].aspirant = results[id].aspirant
    BY <2>4, <2>7 DEF Stored
  <2> QED
    BY <2>5, <2>6, <2>8, <2>9, KeyFrame
<1>4. ASSUME NEW v \in Reviews, ReviewWrite(v)
      PROVE  KeyInv'
  <2> DEFINE i == reviews[v].target
  <2>1. /\ reviews[v].pc = "write"
        /\ results' = [results EXCEPT ![i] = JudgedRow(results[i], v)]
        /\ submits' = submits
    BY <1>4 DEF ReviewWrite
  <2>2. /\ i \in Stored
        /\ reviews[v] \in ReviewRequest
    BY <2>1 DEF FlowInv, RequestInv, TypeOK, Stored
  <2>3. /\ results[i] \in Row
        /\ i \in ResultIds
    BY <2>2, StoredRow DEF FlowInv
  <2>4. /\ JudgedRow(results[i], v) \in Row
        /\ JudgedRow(results[i], v).station = results[i].station
        /\ JudgedRow(results[i], v).aspirant = results[i].aspirant
    BY <2>2, <2>3, JudgedRowType
  <2> HIDE DEF i
  <2>5. /\ results'[i] = JudgedRow(results[i], v)
        /\ \A id \in ResultIds : id # i => results'[id] = results[id]
    BY <2>1, <2>3 DEF FlowInv, TypeOK, i
  <2>6. Stored' = Stored
    BY <2>2, <2>4, <2>5, NoneAssumption DEF Stored
  <2>7. \A id \in Stored : /\ results'[id].station = results[id].station
                           /\ results'[id].aspirant = results[id].aspirant
    BY <2>4, <2>5 DEF Stored
  <2> QED
    BY <2>1, <2>6, <2>7, KeyFrame
<1>5. ASSUME NEW s \in Submits,
             \/ StartSubmit(s) \/ LookupMissing(s) \/ LookupExisting(s)
             \/ InsertDuplicate(s) \/ UpdateRow(s) \/ DeleteLines(s)
             \/ PurgeAfterSubmit(s) \/ SubmitFails(s)
      PROVE  KeyInv'
  <2>0. submits[s] \in SubmitRequest
    BY DEF FlowInv, TypeOK
  <2>1. results' = results /\ Stored' = Stored
    BY <1>5 DEF StartSubmit, LookupMissing, LookupExisting, InsertDuplicate,
                UpdateRow, DeleteLines, PurgeAfterSubmit, SubmitFails, Stored
  <2>2. /\ \A t \in Submits : t # s => submits'[t] = submits[t]
        /\ submits'[s].pc # "inserted"
    <3>1. CASE StartSubmit(s)
      BY <3>1, <2>0 DEF StartSubmit, FlowInv, TypeOK, SubmitRequest
    <3>2. CASE LookupExisting(s)
      <4>1. PICK id \in ResultIds :
               \/ submits' = [submits EXCEPT ![s] =
                                [@ EXCEPT !.pc = "update", !.target = id]]
               \/ submits' = [submits EXCEPT ![s] = BlankSubmit("conflict")]
        BY <3>2 DEF LookupExisting, Existing, Stored
      <4>2. CASE submits' = [submits EXCEPT ![s] =
                               [@ EXCEPT !.pc = "update", !.target = id]]
        BY <4>2, <2>0 DEF FlowInv, TypeOK, SubmitRequest
      <4>3. CASE submits' = [submits EXCEPT ![s] = BlankSubmit("conflict")]
        BY <4>3 DEF BlankSubmit, FlowInv, TypeOK
      <4> QED
        BY <4>1, <4>2, <4>3
    <3>3. CASE DeleteLines(s)
      BY <3>3, <2>0 DEF DeleteLines, FlowInv, TypeOK, SubmitRequest
    <3>4. CASE \/ LookupMissing(s) \/ InsertDuplicate(s) \/ UpdateRow(s)
               \/ PurgeAfterSubmit(s) \/ SubmitFails(s)
      BY <3>4, <2>0 DEF LookupMissing, InsertDuplicate, UpdateRow,
                        PurgeAfterSubmit, SubmitFails, BlankSubmit,
                        FlowInv, TypeOK, SubmitRequest
    <3> QED
      BY <1>5, <3>1, <3>2, <3>3, <3>4
  <2> QED
    BY <2>1, <2>2, KeyFrame
<1>6. ASSUME \/ UNCHANGED vars
             \/ \E v \in Reviews : \/ ReviewRead(v) \/ PurgeAfterReview(v)
                                   \/ ReviewFails(v)
             \/ \E u \in Mobile : MoveUser(u)
      PROVE  KeyInv'
  <2>1. results' = results /\ submits' = submits
    BY <1>6 DEF vars, ReviewRead, PurgeAfterReview, ReviewFails, MoveUser
  <2>2. Stored' = Stored
    BY <2>1 DEF Stored
  <2> QED
    BY <2>1, <2>2, KeyFrame
<1> QED
  BY <1>1, <1>2, <1>3, <1>4, <1>5, <1>6 DEF Next, SubmitStep, ReviewStep

\* One result per station and campaign, for every number of agents and every
\* interleaving of their lookups, inserts, rollbacks and moves.
THEOREM UniqueResult == Spec => []OneResultPerCampaign
<1>1. Init => KeyInv
  BY DEF Init, KeyInv, InsertInv, OneResultPerCampaign, Stored, BlankSubmit
<1>2. Spec => [](FlowInv /\ KeyInv)
  BY <1>1, FlowInit, FlowStep, KeyStep, PTL DEF Spec
<1>3. KeyInv => OneResultPerCampaign
  BY DEF KeyInv
<1> QED
  BY <1>2, <1>3, PTL
----------------------------------------------------------------------------
\* A step that opens no correction and writes neither totals nor breakdown.
LEMMA LinesFrame ==
    ASSUME LinesInv,
           lines' = lines,
           Stored' = Stored,
           \A id \in Stored : results'[id].figures = results[id].figures,
           \A s \in Submits : submits'[s].pc \in Locking => submits'[s] = submits[s]
    PROVE  LinesInv'
<1>1. LockInv'
  BY DEF LinesInv, LockInv, Locking
<1>2. BreakdownIsOneSubmission'
  BY DEF LinesInv, BreakdownIsOneSubmission
<1> QED
  BY <1>1, <1>2 DEF LinesInv

LEMMA LinesStep == FlowInv /\ LinesInv /\ [Next]_vars => LinesInv'
<1> SUFFICES ASSUME FlowInv, LinesInv, [Next]_vars
             PROVE  LinesInv'
    OBVIOUS
<1>1. ASSUME NEW s \in Submits, CommitInsert(s)
      PROVE  LinesInv'
  <2> DEFINE i == submits[s].target
  <2>1. /\ submits[s].pc = "inserted"
        /\ submits' = [submits EXCEPT ![s].pc = "purge"]
        /\ results' = [results EXCEPT ![i] = NewRow(s)]
        /\ lines' = [lines EXCEPT ![i] = {s}]
    BY <1>1 DEF CommitInsert
  <2>2. i \in ResultIds /\ results[i] = NONE
    BY <2>1 DEF FlowInv, RequestInv
  <2>3. NewRow(s) \in Row /\ NewRow(s).figures = s
    BY <2>1, NewRowType DEF FlowInv, TypeOK, RequestInv
  <2>4. /\ submits'[s].pc \notin Locking
        /\ \A t \in Submits : t # s => submits'[t] = submits[t]
    BY <2>1 DEF FlowInv, TypeOK, SubmitRequest, Locking
  <2>5. \A t \in Submits : submits[t].pc \in Locking => submits[t].target # i
    BY <2>2 DEF FlowInv, RequestInv, Locking
  <2> HIDE DEF i
  <2>6. /\ results'[i] = NewRow(s) /\ lines'[i] = {s}
        /\ \A id \in ResultIds : id # i => /\ results'[id] = results[id]
                                           /\ lines'[id] = lines[id]
        /\ Stored' = Stored \cup {i}
    BY <2>1, <2>2, <2>3, NoneAssumption DEF Stored, FlowInv, TypeOK
  <2>7. \A t \in Submits :
           submits'[t].pc \in Locking =>
             /\ submits'[t] = submits[t]
             /\ lines'[submits[t].target] = lines[submits[t].target]
    BY <2>4, <2>5, <2>6 DEF FlowInv, RequestInv, Locking
  <2>8. LockInv'
    BY <2>7 DEF LinesInv, LockInv, Locking
  <2>9. BreakdownIsOneSubmission'
    BY <2>3, <2>6 DEF LinesInv, BreakdownIsOneSubmission
  <2> QED
    BY <2>8, <2>9 DEF LinesInv
<1>2. ASSUME NEW s \in Submits, UpdateRow(s)
      PROVE  LinesInv'
  <2> DEFINE r == [submits[s] EXCEPT !.pc = "updated"]
  <2>1. /\ submits' = [submits EXCEPT ![s] = r]
        /\ lines' = lines /\ results' = results
        /\ ~RowLocked(submits[s].target)
    BY <1>2 DEF UpdateRow
  <2>2. r.target = submits[s].target /\ r.pc = "updated"
    BY DEF FlowInv, TypeOK, SubmitRequest
  <2> HIDE DEF r
  <2>3. /\ submits'[s] = r
        /\ \A t \in Submits : t # s => submits'[t] = submits[t]
    BY <2>1 DEF FlowInv, TypeOK
  <2>4. LockInv'
    BY <2>1, <2>2, <2>3 DEF LinesInv, LockInv, RowLocked, Locking
  <2>5. BreakdownIsOneSubmission'
    BY <2>1 DEF LinesInv, BreakdownIsOneSubmission, Stored
  <2> QED
    BY <2>4, <2>5 DEF LinesInv
<1>3. ASSUME NEW s \in Submits, DeleteLines(s)
      PROVE  LinesInv'
  <2> DEFINE i == submits[s].target
             r == [submits[s] EXCEPT !.pc = "replaced", !.replaced = lines[i]]
  <2>1. /\ submits' = [submits EXCEPT ![s] = r]
        /\ lines' = lines /\ results' = results
        /\ submits[s].pc = "updated"
    BY <1>3 DEF DeleteLines
  <2>2. r.target = i /\ r.pc = "replaced" /\ r.replaced = lines[i]
    BY DEF FlowInv, TypeOK, SubmitRequest
  <2> HIDE DEF r
  <2>3. /\ submits'[s] = r
        /\ \A t \in Submits : t # s => submits'[t] = submits[t]
    BY <2>1 DEF FlowInv, TypeOK
  <2>4. LockInv'
    BY <2>1, <2>2, <2>3 DEF LinesInv, LockInv, Locking
  <2>5. BreakdownIsOneSubmission'
    BY <2>1 DEF LinesInv, BreakdownIsOneSubmission, Stored
  <2> QED
    BY <2>4, <2>5 DEF LinesInv
<1>4. ASSUME NEW s \in Submits, CommitUpdate(s)
      PROVE  LinesInv'
  <2> DEFINE i == submits[s].target
  <2>1. /\ submits[s].pc = "replaced"
        /\ results' = [results EXCEPT ![i] = CorrectedRow(results[i], s)]
        /\ lines' = [lines EXCEPT ![i] = (lines[i] \ submits[s].replaced) \cup {s}]
        /\ submits' = [submits EXCEPT ![s] =
              [@ EXCEPT !.pc = "purge", !.replaced = {}]]
    BY <1>4 DEF CommitUpdate
  <2>2. /\ i \in Stored
        /\ submits[s].user \in Users
        /\ submits[s] \in SubmitRequest
        /\ submits[s].replaced = lines[i]
    BY <2>1 DEF FlowInv, RequestInv, TypeOK, Stored, LinesInv, LockInv
  <2>3. results[i] \in Row /\ i \in ResultIds
    BY <2>2, StoredRow DEF FlowInv
  <2>4. /\ CorrectedRow(results[i], s) \in Row
        /\ CorrectedRow(results[i], s).figures = s
    BY <2>2, <2>3, CorrectedRowType
  <2>5. submits'[s].pc \notin Locking
    BY <2>1, <2>2 DEF FlowInv, TypeOK, SubmitRequest, Locking
  <2>6. \A t \in Submits : t # s => submits'[t] = submits[t]
    BY <2>1 DEF FlowInv, TypeOK
  <2>7. \A t \in Submits :
           t # s /\ submits[t].pc \in Locking => submits[t].target # i
    BY <2>1 DEF LinesInv, LockInv, Locking
  <2> HIDE DEF i
  <2>8. /\ results'[i] = CorrectedRow(results[i], s) /\ lines'[i] = {s}
        /\ \A id \in ResultIds : id # i => /\ results'[id] = results[id]
                                           /\ lines'[id] = lines[id]
    BY <2>1, <2>2, <2>3 DEF FlowInv, TypeOK
  <2>9. Stored' = Stored
    BY <2>2, <2>4, <2>8, NoneAssumption DEF Stored
  <2>10. \A t \in Submits :
            submits'[t].pc \in Locking =>
              /\ submits'[t] = submits[t]
              /\ lines'[submits[t].target] = lines[submits[t].target]
    BY <2>5, <2>6, <2>7, <2>8 DEF FlowInv, RequestInv, Locking
  <2>11. LockInv'
    BY <2>10 DEF LinesInv, LockInv, Locking
  <2>12. BreakdownIsOneSubmission'
    BY <2>2, <2>4, <2>8, <2>9 DEF LinesInv, BreakdownIsOneSubmission
  <2> QED
    BY <2>11, <2>12 DEF LinesInv
<1>5. ASSUME NEW v \in Reviews, ReviewWrite(v)
      PROVE  LinesInv'
  <2> DEFINE i == reviews[v].target
  <2>1. /\ reviews[v].pc = "write"
        /\ results' = [results EXCEPT ![i] = JudgedRow(results[i], v)]
        /\ submits' = submits
        /\ lines' = lines
    BY <1>5 DEF ReviewWrite
  <2>2. i \in Stored /\ reviews[v] \in ReviewRequest
    BY <2>1 DEF FlowInv, RequestInv, TypeOK, Stored
  <2>3. results[i] \in Row /\ i \in ResultIds
    BY <2>2, StoredRow DEF FlowInv
  <2>4. /\ JudgedRow(results[i], v) \in Row
        /\ JudgedRow(results[i], v).figures = results[i].figures
    BY <2>2, <2>3, JudgedRowType
  <2> HIDE DEF i
  <2>5. /\ results'[i] = JudgedRow(results[i], v)
        /\ \A id \in ResultIds : id # i => results'[id] = results[id]
    BY <2>1, <2>3 DEF FlowInv, TypeOK, i
  <2>6. Stored' = Stored
    BY <2>2, <2>4, <2>5, NoneAssumption DEF Stored
  <2>7. \A id \in Stored : results'[id].figures = results[id].figures
    BY <2>4, <2>5 DEF Stored
  <2> QED
    BY <2>1, <2>6, <2>7, LinesFrame
<1>6. ASSUME NEW s \in Submits,
             \/ StartSubmit(s) \/ LookupMissing(s) \/ LookupExisting(s)
             \/ InsertRow(s) \/ InsertDuplicate(s)
             \/ PurgeAfterSubmit(s) \/ SubmitFails(s)
      PROVE  LinesInv'
  <2>0. submits[s] \in SubmitRequest
    BY DEF FlowInv, TypeOK
  <2>1. results' = results /\ Stored' = Stored /\ lines' = lines
    BY <1>6 DEF StartSubmit, LookupMissing, LookupExisting, InsertRow,
                InsertDuplicate, PurgeAfterSubmit, SubmitFails, Stored
  <2>2. /\ \A t \in Submits : t # s => submits'[t] = submits[t]
        /\ submits'[s].pc \notin Locking
    <3>1. CASE StartSubmit(s)
      BY <3>1, <2>0 DEF StartSubmit, FlowInv, TypeOK, SubmitRequest, Locking
    <3>2. CASE LookupExisting(s)
      <4>1. PICK id \in ResultIds :
               \/ submits' = [submits EXCEPT ![s] =
                                [@ EXCEPT !.pc = "update", !.target = id]]
               \/ submits' = [submits EXCEPT ![s] = BlankSubmit("conflict")]
        BY <3>2 DEF LookupExisting, Existing, Stored
      <4>2. CASE submits' = [submits EXCEPT ![s] =
                               [@ EXCEPT !.pc = "update", !.target = id]]
        BY <4>2, <2>0 DEF FlowInv, TypeOK, SubmitRequest, Locking
      <4>3. CASE submits' = [submits EXCEPT ![s] = BlankSubmit("conflict")]
        BY <4>3 DEF BlankSubmit, FlowInv, TypeOK, Locking
      <4> QED
        BY <4>1, <4>2, <4>3
    <3>3. CASE InsertRow(s)
      BY <3>3, <2>0 DEF InsertRow, FlowInv, TypeOK, SubmitRequest, Locking
    <3>4. CASE \/ LookupMissing(s) \/ InsertDuplicate(s)
               \/ PurgeAfterSubmit(s) \/ SubmitFails(s)
      BY <3>4, <2>0 DEF LookupMissing, InsertDuplicate,
                        PurgeAfterSubmit, SubmitFails, BlankSubmit,
                        FlowInv, TypeOK, SubmitRequest, Locking
    <3> QED
      BY <1>6, <3>1, <3>2, <3>3, <3>4
  <2> QED
    BY <2>1, <2>2, LinesFrame
<1>7. ASSUME \/ UNCHANGED vars
             \/ \E v \in Reviews : \/ ReviewRead(v) \/ PurgeAfterReview(v)
                                   \/ ReviewFails(v)
             \/ \E u \in Mobile : MoveUser(u)
      PROVE  LinesInv'
  <2>1. results' = results /\ submits' = submits /\ lines' = lines
    BY <1>7 DEF vars, ReviewRead, PurgeAfterReview, ReviewFails, MoveUser
  <2>2. Stored' = Stored
    BY <2>1 DEF Stored
  <2> QED
    BY <2>1, <2>2, LinesFrame
<1> QED
  BY <1>1, <1>2, <1>3, <1>4, <1>5, <1>6, <1>7 DEF Next, SubmitStep, ReviewStep

\* The breakdown by party of a stored result is the one its totals came with,
\* however many corrections of it were open at a time or rolled back.
THEOREM BreakdownIntegrity == Spec => []BreakdownIsOneSubmission
<1>1. Init => LinesInv
  BY DEF Init, LinesInv, LockInv, Locking, BreakdownIsOneSubmission, Stored,
         BlankSubmit
<1>2. Spec => [](FlowInv /\ LinesInv)
  BY <1>1, FlowInit, FlowStep, LinesStep, PTL DEF Spec
<1>3. LinesInv => BreakdownIsOneSubmission
  BY DEF LinesInv
<1> QED
  BY <1>2, <1>3, PTL
----------------------------------------------------------------------------
\* A step keeps who made a review and of which row.
Follows(v) == /\ reviews'[v].admin = reviews[v].admin
              /\ reviews'[v].aspirant = reviews[v].aspirant
              /\ reviews'[v].target = reviews[v].target

LEMMA VerdictStep == FlowInv /\ VerdictInv /\ [Next]_vars => VerdictInv'
<1> SUFFICES ASSUME FlowInv, VerdictInv, [Next]_vars
             PROVE  VerdictInv'
    OBVIOUS
<1>1. ASSUME NEW s \in Submits, CommitInsert(s)
      PROVE  VerdictInv'
  <2> DEFINE i == submits[s].target
  <2>1. /\ submits[s].pc = "inserted"
        /\ results' = [results EXCEPT ![i] = NewRow(s)]
        /\ reviews' = reviews
    BY <1>1 DEF CommitInsert
  <2>2. i \in ResultIds /\ results[i] = NONE
    BY <2>1 DEF FlowInv, RequestInv
  <2>3. /\ NewRow(s) \in Row
        /\ NewRow(s).verified = FALSE
        /\ NewRow(s).status # "VERIFIED"
    BY <2>1, NewRowType DEF FlowInv, TypeOK, RequestInv
  <2> HIDE DEF i
  <2>4. /\ results'[i] = NewRow(s)
        /\ \A id \in ResultIds : id # i => results'[id] = results[id]
        /\ Stored' = Stored \cup {i}
    BY <2>1, <2>2, <2>3, NoneAssumption DEF Stored, FlowInv, TypeOK
  <2>5. EntitledInv'
    BY <2>1, <2>2, <2>4 DEF FlowInv, RequestInv, VerdictInv, EntitledInv
  <2>6. JudgedInv'
    BY <2>1, <2>3, <2>4 DEF VerdictInv, JudgedInv, Stored
  <2>7. VerifiedFlagAgrees'
    BY <2>3, <2>4 DEF VerdictInv, VerifiedFlagAgrees, Stored
  <2> QED
    BY <2>5, <2>6, <2>7 DEF VerdictInv
<1>2. ASSUME NEW s \in Submits, CommitUpdate(s)
      PROVE  VerdictInv'
  <2> DEFINE i == submits[s].target
  <2>1. /\ submits[s].pc = "replaced"
        /\ results' = [results EXCEPT ![i] = CorrectedRow(results[i], s)]
        /\ reviews' = reviews
    BY <1>2 DEF CommitUpdate
  <2>2. /\ i \in Stored
        /\ submits[s].user \in Users
        /\ submits[s] \in SubmitRequest
    BY <2>1 DEF FlowInv, RequestInv, TypeOK, Stored
  <2>3. results[i] \in Row /\ i \in ResultIds
    BY <2>2, StoredRow DEF FlowInv
  <2>4. /\ CorrectedRow(results[i], s) \in Row
        /\ CorrectedRow(results[i], s).aspirant = results[i].aspirant
        /\ CorrectedRow(results[i], s).verified = FALSE
        /\ CorrectedRow(results[i], s).status # "VERIFIED"
    BY <2>2, <2>3, CorrectedRowType
  <2> HIDE DEF i
  <2>5. /\ results'[i] = CorrectedRow(results[i], s)
        /\ \A id \in ResultIds : id # i => results'[id] = results[id]
    BY <2>1, <2>2, <2>3 DEF FlowInv, TypeOK
  <2>6. Stored' = Stored
    BY <2>2, <2>4, <2>5, NoneAssumption DEF Stored
  <2>7. EntitledInv'
    BY <2>1, <2>4, <2>5 DEF FlowInv, RequestInv, VerdictInv, EntitledInv
  <2>8. JudgedInv'
    BY <2>1, <2>4, <2>5, <2>6 DEF VerdictInv, JudgedInv, Stored
  <2>9. VerifiedFlagAgrees'
    BY <2>4, <2>5, <2>6 DEF VerdictInv, VerifiedFlagAgrees, Stored
  <2> QED
    BY <2>7, <2>8, <2>9 DEF VerdictInv
<1>3. ASSUME NEW v \in Reviews, ReviewRead(v)
      PROVE  VerdictInv'
  <2>1. PICK admin \in BOOLEAN, verdict \in AuditStatus, id \in Stored,
             a \in Campaigns :
           reviews' = [reviews EXCEPT ![v] =
              IF MayReview(admin, a, results[id])
                THEN [pc |-> "write", admin |-> admin, aspirant |-> a,
                      target |-> id, verdict |-> verdict]
                ELSE BlankReview("refused")]
    BY <1>3 DEF ReviewRead, Campaigns
  <2>2. results' = results /\ Stored' = Stored /\ reviews[v].pc = "idle"
    BY <1>3 DEF ReviewRead, Stored
  <2>3. \A w \in Reviews : w # v => reviews'[w] = reviews[w]
    BY <2>1 DEF FlowInv, TypeOK
  <2>4. reviews'[v].pc = "write" =>
           \/ reviews'[v].admin
           \/ results[reviews'[v].target].aspirant = NONE
           \/ reviews'[v].aspirant = results[reviews'[v].target].aspirant
    <3>1. CASE MayReview(admin, a, results[id])
      <4>1. reviews'[v] = [pc |-> "write", admin |-> admin, aspirant |-> a,
                           target |-> id, verdict |-> verdict]
        BY <2>1, <3>1 DEF FlowInv, TypeOK
      <4> QED
        BY <3>1, <4>1 DEF MayReview
    <3>2. CASE ~MayReview(admin, a, results[id])
      <4>1. reviews'[v] = BlankReview("refused")
        BY <2>1, <3>2 DEF FlowInv, TypeOK
      <4> QED
        BY <4>1 DEF BlankReview
    <3> QED
      BY <3>1, <3>2
  <2>5. EntitledInv'
    BY <2>2, <2>3, <2>4 DEF VerdictInv, EntitledInv
  <2>6. JudgedInv'
    BY <2>2, <2>3 DEF VerdictInv, JudgedInv
  <2>7. VerifiedFlagAgrees'
    BY <2>2 DEF VerdictInv, VerifiedFlagAgrees
  <2> QED
    BY <2>5, <2>6, <2>7 DEF VerdictInv
<1>4. ASSUME NEW v \in Reviews, ReviewWrite(v)
      PROVE  VerdictInv'
  <2> DEFINE i == reviews[v].target
  <2>1. /\ reviews[v].pc = "write"
        /\ results' = [results EXCEPT ![i] = JudgedRow(results[i], v)]
        /\ reviews' = [reviews EXCEPT ![v].pc = "purge"]
    BY <1>4 DEF ReviewWrite
  <2>2. i \in Stored /\ reviews[v] \in ReviewRequest
    BY <2>1 DEF FlowInv, RequestInv, TypeOK, Stored
  <2>3. results[i] \in Row /\ i \in ResultIds
    BY <2>2, StoredRow DEF FlowInv
  <2>4. /\ JudgedRow(results[i], v) \in Row
        /\ JudgedRow(results[i], v).aspirant = results[i].aspirant
        /\ JudgedRow(results[i], v).reviewer = v
        /\ JudgedRow(results[i], v).verified
              <=> JudgedRow(results[i], v).status = "VERIFIED"
    BY <2>2, <2>3, JudgedRowType
  <2>5. /\ reviews'[v].pc = "purge" /\ Follows(v)
        /\ \A w \in Reviews : w # v => reviews'[w] = reviews[w]
    BY <2>1, <2>2 DEF FlowInv, TypeOK, ReviewRequest, Follows
  <2>6. \/ reviews[v].admin
        \/ results[i].aspirant = NONE
        \/ reviews[v].aspirant = results[i].aspirant
    BY <2>1 DEF VerdictInv, EntitledInv
  <2> HIDE DEF i
  <2>7. /\ results'[i] = JudgedRow(results[i], v)
        /\ \A id \in ResultIds : id # i => results'[id] = results[id]
    BY <2>1, <2>3 DEF FlowInv, TypeOK
  <2>8. Stored' = Stored
    BY <2>2, <2>4, <2>7, NoneAssumption DEF Stored
  <2>9. EntitledInv'
    BY <2>4, <2>5, <2>7 DEF FlowInv, RequestInv, VerdictInv, EntitledInv
  <2>10. JudgedInv'
    BY <2>4, <2>5, <2>6, <2>7, <2>8
       DEF VerdictInv, JudgedInv, Stored, Follows
  <2>11. VerifiedFlagAgrees'
    BY <2>4, <2>7, <2>8 DEF VerdictInv, VerifiedFlagAgrees, Stored
  <2> QED
    BY <2>9, <2>10, <2>11 DEF VerdictInv
<1>5. ASSUME NEW v \in Reviews, PurgeAfterReview(v) \/ ReviewFails(v)
      PROVE  VerdictInv'
  <2>1. results' = results /\ Stored' = Stored
    BY <1>5 DEF PurgeAfterReview, ReviewFails, Stored
  <2>2. /\ \A w \in Reviews : w # v => reviews'[w] = reviews[w]
        /\ reviews'[v].pc # "write"
        /\ reviews[v].pc = "purge" => /\ Follows(v)
                                      /\ reviews'[v].pc \in {"done", "unpurged"}
        /\ reviews[v].pc \in {"write", "purge"}
    BY <1>5 DEF PurgeAfterReview, ReviewFails, BlankReview, FlowInv, TypeOK,
                ReviewRequest, Follows
  <2>3. EntitledInv'
    BY <2>1, <2>2 DEF VerdictInv, EntitledInv
  <2>4. JudgedInv'
    BY <2>1, <2>2 DEF VerdictInv, JudgedInv, Follows
  <2>5. VerifiedFlagAgrees'
    BY <2>1 DEF VerdictInv, VerifiedFlagAgrees
  <2> QED
    BY <2>3, <2>4, <2>5 DEF VerdictInv
<1>6. ASSUME \/ UNCHANGED vars
             \/ \E s \in Submits :
                  \/ StartSubmit(s) \/ LookupMissing(s) \/ LookupExisting(s)
                  \/ InsertRow(s) \/ InsertDuplicate(s) \/ UpdateRow(s)
                  \/ DeleteLines(s) \/ PurgeAfterSubmit(s) \/ SubmitFails(s)
             \/ \E u \in Mobile : MoveUser(u)
      PROVE  VerdictInv'
  <2>1. results' = results /\ reviews' = reviews
    BY <1>6 DEF vars, StartSubmit, LookupMissing, LookupExisting, InsertRow,
                InsertDuplicate, UpdateRow, DeleteLines, PurgeAfterSubmit,
                SubmitFails, MoveUser
  <2>2. Stored' = Stored
    BY <2>1 DEF Stored
  <2> QED
    BY <2>1, <2>2 DEF VerdictInv, EntitledInv, JudgedInv, VerifiedFlagAgrees
<1> QED
  BY <1>1, <1>2, <1>3, <1>4, <1>5, <1>6 DEF Next, SubmitStep, ReviewStep

LEMMA VerdictAlways == Spec => []VerdictInv
<1>1. Init => VerdictInv
  BY DEF Init, VerdictInv, EntitledInv, JudgedInv, VerifiedFlagAgrees, Stored,
         BlankReview
<1>2. Spec => [](FlowInv /\ VerdictInv)
  BY <1>1, FlowInit, FlowStep, VerdictStep, PTL DEF Spec
<1> QED
  BY <1>2, PTL

\* The flag the tallies select on and the status reviewers see agree after any
\* race between corrections and reviews of the same result.
THEOREM VerifiedFlag == Spec => []VerifiedFlagAgrees
<1>1. VerdictInv => VerifiedFlagAgrees
  BY DEF VerdictInv
<1> QED
  BY <1>1, VerdictAlways, PTL

\* No result counts that a rival campaign verified, whoever moves where
\* between the check of verifyResult and its write.
THEOREM VerifiedRight == Spec => []VerifiedByRight
<1>1. VerdictInv => VerifiedByRight
  BY DEF VerdictInv, JudgedInv, VerifiedByRight
<1> QED
  BY <1>1, VerdictAlways, PTL
----------------------------------------------------------------------------
\* Campaigns whose teams do not change: a submission never lands in the result
\* of another campaign.

InFlight == {"lookup", "insert", "inserted", "update", "updated", "replaced",
             "purge", "done", "unpurged"}

Correcting == {"update", "updated", "replaced"}

\* Everyone is in a campaign, submits for it, and is in the one of the results
\* uploaded; a correction has a row of its own station and campaign.
TeamInv ==
    /\ campaign \in [Users -> Aspirants]
    /\ \A id \in Stored : results[id].aspirant = campaign[results[id].uploader]
    /\ \A s \in Submits :
         /\ submits[s].pc \in InFlight =>
              submits[s].user \in Users /\ submits[s].aspirant = campaign[submits[s].user]
         /\ submits[s].pc \in Correcting =>
              /\ results[submits[s].target].station = submits[s].station
              /\ results[submits[s].target].aspirant = submits[s].aspirant
    /\ CampaignOwnsFigures
----------------------------------------------------------------------------
\* A row keeps its key: station, campaign and that of its uploader.
KeyKept(id) ==
    /\ results'[id].station = results[id].station
    /\ results'[id].aspirant = results[id].aspirant
    /\ campaign[results'[id].uploader] = campaign[results[id].uploader]

LEMMA TeamFrame ==
    ASSUME FlowInv, TeamInv, campaign' = campaign, NEW s \in Submits,
           submits' \in [Submits -> SubmitRequest],
           \A t \in Submits \ {s} : submits'[t] = submits[t],
           Stored \subseteq Stored',
           \A id \in Stored : KeyKept(id),
           \A id \in Stored' \ Stored : results'[id].aspirant = campaign[results'[id].uploader],
           submits'[s].pc \in InFlight =>
             submits'[s].user \in Users /\ submits'[s].aspirant = campaign[submits'[s].user],
           submits'[s].pc \in Correcting =>
             /\ results'[submits'[s].target].station = submits'[s].station
             /\ results'[submits'[s].target].aspirant = submits'[s].aspirant,
           submits'[s].pc \in {"purge", "done", "unpurged"} =>
             /\ submits'[s].target \in Stored'
             /\ results'[submits'[s].target].station = submits'[s].station
             /\ results'[submits'[s].target].aspirant = submits'[s].aspirant
    PROVE  TeamInv'
<1>1. \A id \in Stored' : results'[id].aspirant = campaign[results'[id].uploader]
  BY DEF TeamInv, KeyKept
<1>2. ASSUME NEW t \in Submits \ {s}
      PROVE  /\ submits'[t].pc \in InFlight =>
                  /\ submits'[t].user \in Users
                  /\ submits'[t].aspirant = campaign[submits'[t].user]
             /\ submits'[t].pc \in Correcting =>
                  /\ results'[submits'[t].target].station = submits'[t].station
                  /\ results'[submits'[t].target].aspirant = submits'[t].aspirant
             /\ submits'[t].pc \in {"purge", "done", "unpurged"} =>
                  /\ submits'[t].target \in Stored'
                  /\ results'[submits'[t].target].station = submits'[t].station
                  /\ submits'[t].aspirant # NONE =>
                       results'[submits'[t].target].aspirant = submits'[t].aspirant
  <2>1. submits[t].pc \in Correcting => submits[t].target \in Stored
    BY DEF FlowInv, RequestInv, Correcting, Stored
  <2>2. submits[t].pc \in {"purge", "done", "unpurged"} => submits[t].target \in Stored
    BY DEF TeamInv, CampaignOwnsFigures
  <2>3. submits'[t] = submits[t]
    OBVIOUS
  <2> QED BY <2>1, <2>2, <2>3 DEF TeamInv, CampaignOwnsFigures, KeyKept
<1>3. CampaignOwnsFigures'
  BY <1>2 DEF CampaignOwnsFigures
<1> QED BY <1>1, <1>2, <1>3 DEF TeamInv

\* A request that writes no row.
LEMMA RequestMovesOn ==
    ASSUME FlowInv, TeamInv, NEW s \in Submits, NEW x \in SubmitRequest,
           submits' = [submits EXCEPT ![s] = x], UNCHANGED <<campaign, results>>,
           x.pc \in InFlight => x.user \in Users /\ x.aspirant = campaign[x.user],
           x.pc \in Correcting \cup {"purge", "done", "unpurged"} =>
             /\ x.target \in Stored
             /\ results[x.target].station = x.station
             /\ results[x.target].aspirant = x.aspirant
    PROVE  TeamInv'
<1>1. /\ submits' \in [Submits -> SubmitRequest] /\ submits'[s] = x
      /\ \A t \in Submits \ {s} : submits'[t] = submits[t]
  BY DEF FlowInv, TypeOK
<1>2. Stored' = Stored /\ \A id \in Stored : KeyKept(id)
  BY DEF Stored, KeyKept
<1> QED BY <1>1, <1>2, TeamFrame

\* A request goes on with what it has.
LEMMA RequestGoesOn ==
    ASSUME FlowInv, TeamInv, NEW s \in Submits, NEW x \in SubmitRequest,
           submits' = [submits EXCEPT ![s] = x], UNCHANGED <<campaign, results>>,
           submits[s].pc \in InFlight,
           x.user = submits[s].user, x.aspirant = submits[s].aspirant,
           x.station = submits[s].station,
           \/ x.pc \notin Correcting \cup {"purge", "done", "unpurged"}
           \/ /\ x.target = submits[s].target
              /\ \/ submits[s].pc \in Correcting /\ x.pc \in Correcting
                 \/ submits[s].pc = "purge"
    PROVE  TeamInv'
<1>1. submits[s].user \in Users /\ submits[s].aspirant = campaign[submits[s].user]
  BY DEF TeamInv
<1>2. submits[s].aspirant # NONE
  BY <1>1, NoneAssumption DEF TeamInv
<1>3. x.pc \in Correcting \cup {"purge", "done", "unpurged"} =>
        /\ x.target \in Stored
        /\ results[x.target].station = x.station
        /\ results[x.target].aspirant = x.aspirant
  BY <1>2 DEF FlowInv, RequestInv, Correcting, Stored, TeamInv, CampaignOwnsFigures
<1> QED BY <1>1, <1>3, RequestMovesOn

LEMMA CommitInsertKeepsTeams ==
    ASSUME FlowInv, TeamInv, NEW s \in Submits, CommitInsert(s)
    PROVE  TeamInv'
<1> DEFINE i == submits[s].target
           x == [submits[s] EXCEPT !.pc = "purge"]
<1>1. /\ submits[s].pc = "inserted" /\ submits[s] \in SubmitRequest
      /\ i \in ResultIds /\ results[i] = NONE
      /\ submits[s].user \in Users /\ submits[s].station \in Stations
      /\ submits[s].aspirant = campaign[submits[s].user]
  BY DEF CommitInsert, FlowInv, TypeOK, RequestInv, TeamInv, InFlight
<1>2. /\ NewRow(s) \in Row /\ NewRow(s).station = submits[s].station
      /\ NewRow(s).aspirant = submits[s].aspirant
  BY <1>1, NewRowType
<1>3. NewRow(s).uploader = submits[s].user
  BY DEF NewRow
<1>4. /\ submits' = [submits EXCEPT ![s] = x] /\ x \in SubmitRequest
      /\ x.pc = "purge" /\ x.target = i /\ x.station = submits[s].station
      /\ x.user = submits[s].user /\ x.aspirant = submits[s].aspirant
  BY <1>1 DEF CommitInsert, SubmitRequest, SubmitPc
<1> HIDE DEF x
<1>5. /\ submits' \in [Submits -> SubmitRequest] /\ submits'[s] = x
      /\ \A t \in Submits \ {s} : submits'[t] = submits[t]
  BY <1>4 DEF FlowInv, TypeOK
<1>6. /\ results'[i] = NewRow(s) /\ results'[i] # NONE /\ campaign' = campaign
      /\ \A j \in ResultIds \ {i} : results'[j] = results[j]
  BY <1>1, <1>2, NoneAssumption DEF CommitInsert, FlowInv, TypeOK
<1>7. /\ Stored \subseteq Stored' /\ Stored' \ Stored = {i}
      /\ \A id \in Stored : KeyKept(id)
  BY <1>1, <1>6 DEF Stored, KeyKept
<1> HIDE DEF i
<1>8. x.pc \notin Correcting /\ i \in Stored'
  BY <1>4, <1>7 DEF Correcting
<1> QED BY <1>1, <1>2, <1>3, <1>4, <1>5, <1>6, <1>7, <1>8, TeamFrame

LEMMA CommitUpdateKeepsTeams ==
    ASSUME FlowInv, TeamInv, NEW s \in Submits, CommitUpdate(s)
    PROVE  TeamInv'
<1> DEFINE i == submits[s].target
           x == [submits[s] EXCEPT !.pc = "purge", !.replaced = {}]
<1>1. /\ submits[s].pc = "replaced" /\ submits[s] \in SubmitRequest
      /\ i \in Stored /\ results[i] \in Row
      /\ submits[s].user \in Users
      /\ submits[s].aspirant = campaign[submits[s].user]
      /\ results[i].station = submits[s].station
      /\ results[i].aspirant = submits[s].aspirant
      /\ results[i].aspirant = campaign[results[i].uploader]
  BY DEF CommitUpdate, FlowInv, TypeOK, RequestInv, TeamInv, InFlight, Correcting, Stored
<1>2. PICK row \in Row : row = results[i]
  BY <1>1
<1>3. /\ CorrectedRow(row, s) \in Row
      /\ CorrectedRow(row, s).station = row.station
      /\ CorrectedRow(row, s).aspirant = row.aspirant
  BY <1>1, CorrectedRowType
<1>4. CorrectedRow(row, s).uploader = submits[s].user
  BY <1>2 DEF CorrectedRow, Row
<1>5. /\ submits' = [submits EXCEPT ![s] = x] /\ x \in SubmitRequest
      /\ x.pc = "purge" /\ x.target = i /\ x.station = submits[s].station
      /\ x.user = submits[s].user /\ x.aspirant = submits[s].aspirant
  BY <1>1 DEF CommitUpdate, SubmitRequest, SubmitPc
<1> HIDE DEF x
<1>6. /\ submits' \in [Submits -> SubmitRequest] /\ submits'[s] = x
      /\ \A t \in Submits \ {s} : submits'[t] = submits[t]
  BY <1>5 DEF FlowInv, TypeOK
<1>7. /\ results'[i] = CorrectedRow(row, s) /\ results'[i] # NONE /\ campaign' = campaign
      /\ \A j \in ResultIds \ {i} : results'[j] = results[j]
  BY <1>1, <1>2, <1>3, NoneAssumption DEF CommitUpdate, FlowInv, TypeOK, Stored
<1>8. Stored' = Stored
  BY <1>1, <1>7 DEF Stored
<1>9. \A id \in Stored : KeyKept(id)
  BY <1>1, <1>2, <1>3, <1>4, <1>7 DEF Stored, KeyKept
<1> HIDE DEF i
<1>10. x.pc \notin Correcting
  BY <1>5 DEF Correcting
<1>11. /\ submits'[s].user \in Users /\ submits'[s].aspirant = campaign[submits'[s].user]
       /\ submits'[s].target \in Stored'
       /\ results'[submits'[s].target].station = submits'[s].station
       /\ results'[submits'[s].target].aspirant = submits'[s].aspirant
       /\ submits'[s].pc \notin Correcting
  BY <1>1, <1>2, <1>3, <1>5, <1>6, <1>7, <1>8, <1>10
<1>12. Stored \subseteq Stored' /\ Stored' \ Stored = {}
  BY <1>8
<1> QED BY <1>6, <1>7, <1>9, <1>11, <1>12, TeamFrame

\* A step that keeps the requests, the teams and the keys of rows.
LEMMA ReviewKeepsTeams ==
    ASSUME FlowInv, TeamInv, UNCHANGED <<campaign, submits>>,
           Stored' = Stored, \A id \in Stored : KeyKept(id)
    PROVE  TeamInv'
<1>1. \A s \in Submits : submits[s].pc \in Correcting => submits[s].target \in Stored
  BY DEF FlowInv, RequestInv, Correcting, Stored
<1>2. CampaignOwnsFigures'
  BY DEF TeamInv, CampaignOwnsFigures, KeyKept
<1> QED BY <1>1, <1>2 DEF TeamInv, KeyKept

LEMMA ReviewWriteKeepsTeams ==
    ASSUME FlowInv, TeamInv, NEW v \in Reviews, ReviewWrite(v)
    PROVE  TeamInv'
<1> DEFINE i == reviews[v].target
<1>1. /\ reviews[v] \in ReviewRequest /\ i \in ResultIds /\ results[i] # NONE
      /\ results[i] \in Row
  BY DEF ReviewWrite, FlowInv, TypeOK, RequestInv
<1>2. PICK row \in Row : row = results[i]
  BY <1>1
<1>3. /\ JudgedRow(row, v) \in Row
      /\ JudgedRow(row, v).station = row.station
      /\ JudgedRow(row, v).aspirant = row.aspirant
  BY <1>1, JudgedRowType
<1>4. JudgedRow(row, v).uploader = row.uploader
  BY <1>2 DEF JudgedRow, Row
<1>5. /\ results'[i] = JudgedRow(row, v) /\ results'[i] # NONE
      /\ \A j \in ResultIds \ {i} : results'[j] = results[j]
  BY <1>1, <1>2, <1>3, NoneAssumption DEF ReviewWrite, FlowInv, TypeOK
<1>6. Stored' = Stored /\ \A id \in Stored : KeyKept(id)
  BY <1>1, <1>2, <1>3, <1>4, <1>5 DEF Stored, KeyKept
<1> QED BY <1>6, ReviewKeepsTeams DEF ReviewWrite

LEMMA StartKeepsTeams ==
    ASSUME FlowInv, TeamInv, NEW s \in Submits, StartSubmit(s)
    PROVE  TeamInv'
<1>1. submits[s] \in SubmitRequest
  BY DEF FlowInv, TypeOK
<1>2. PICK u \in Users, named \in Campaigns, st \in Stations, b \in BOOLEAN :
         submits' = [submits EXCEPT ![s] =
            [@ EXCEPT !.pc = "lookup",
                      !.user = u,
                      !.aspirant = EffectiveAspirant(u, named),
                      !.station = st,
                      !.anomalous = b]]
  BY DEF StartSubmit
<1> DEFINE x == [submits[s] EXCEPT !.pc = "lookup",
                                   !.user = u,
                                   !.aspirant = EffectiveAspirant(u, named),
                                   !.station = st,
                                   !.anomalous = b]
<1>3. EffectiveAspirant(u, named) = campaign[u] /\ campaign[u] \in Campaigns
  BY NoneAssumption DEF EffectiveAspirant, TeamInv, Campaigns
<1>4. x \in SubmitRequest /\ x.pc = "lookup" /\ x.user = u /\ x.aspirant = campaign[u]
  BY <1>1, <1>3 DEF SubmitRequest, SubmitPc
<1>5. submits' = [submits EXCEPT ![s] = x]
  BY <1>2
<1> HIDE DEF x
<1>6. x.pc \notin Correcting \cup {"purge", "done", "unpurged"}
  BY <1>4 DEF Correcting
<1>7. UNCHANGED <<campaign, results>>
  BY DEF StartSubmit
<1> QED BY <1>4, <1>5, <1>6, <1>7, RequestMovesOn

LEMMA LookupKeepsTeams ==
    ASSUME FlowInv, TeamInv, NEW s \in Submits, LookupExisting(s)
    PROVE  TeamInv'
<1>1. /\ submits[s] \in SubmitRequest /\ submits[s].pc = "lookup"
      /\ submits[s].user \in Users
      /\ submits[s].aspirant = campaign[submits[s].user]
      /\ UNCHANGED <<campaign, results>>
  BY DEF LookupExisting, FlowInv, TypeOK, TeamInv, InFlight
<1>2. submits[s].aspirant # NONE
  BY <1>1, NoneAssumption DEF TeamInv
<1>3. PICK id \in Existing(submits[s].station, submits[s].aspirant) :
         submits' = [submits EXCEPT ![s] =
             IF Correctable(id) THEN [@ EXCEPT !.pc = "update", !.target = id]
                                ELSE BlankSubmit("conflict")]
  BY DEF LookupExisting
<1>4. /\ id \in Stored /\ id \in ResultIds
      /\ results[id].station = submits[s].station
      /\ results[id].aspirant = submits[s].aspirant
  BY <1>2, <1>3 DEF Existing, Stored, TeamInv
<1> HIDE DEF Correctable
<1>5. CASE Correctable(id)
  <2> DEFINE x == [submits[s] EXCEPT !.pc = "update", !.target = id]
  <2>1. /\ x \in SubmitRequest /\ x.pc = "update" /\ x.target = id
        /\ x.user = submits[s].user /\ x.station = submits[s].station
        /\ x.aspirant = submits[s].aspirant
    BY <1>1, <1>4 DEF SubmitRequest, SubmitPc
  <2>2. submits' = [submits EXCEPT ![s] = x]
    BY <1>3, <1>5
  <2> HIDE DEF x
  <2> QED BY <1>1, <1>4, <2>1, <2>2, RequestMovesOn
<1>6. CASE ~Correctable(id)
  <2> DEFINE x == BlankSubmit("conflict")
  <2>1. x \in SubmitRequest /\ x.pc = "conflict"
    BY DEF BlankSubmit, SubmitRequest, SubmitPc, Campaigns
  <2>2. submits' = [submits EXCEPT ![s] = x]
    BY <1>3, <1>6
  <2> HIDE DEF x
  <2>3. x.pc \notin InFlight /\ x.pc \notin Correcting \cup {"purge", "done", "unpurged"}
    BY <2>1 DEF InFlight, Correcting
  <2> QED BY <1>1, <2>1, <2>2, <2>3, RequestMovesOn
<1> QED BY <1>5, <1>6

\* A refused or failed request keeps nothing.
LEMMA FailureKeepsTeams ==
    ASSUME FlowInv, TeamInv, NEW s \in Submits, UNCHANGED <<campaign, results>>,
           submits' = [submits EXCEPT ![s] = BlankSubmit("failed")]
    PROVE  TeamInv'
<1> DEFINE x == BlankSubmit("failed")
<1>1. x \in SubmitRequest /\ x.pc = "failed"
  BY DEF BlankSubmit, SubmitRequest, SubmitPc, Campaigns
<1>2. submits' = [submits EXCEPT ![s] = x]
  OBVIOUS
<1> HIDE DEF x
<1>3. x.pc \notin InFlight /\ x.pc \notin Correcting \cup {"purge", "done", "unpurged"}
  BY <1>1 DEF InFlight, Correcting
<1> QED BY <1>1, <1>2, <1>3, RequestMovesOn

LEMMA SubmitKeepsTeams ==
    ASSUME FlowInv, TeamInv, NEW s \in Submits, SubmitStep(s)
    PROVE  TeamInv'
<1>1. submits[s] \in SubmitRequest
  BY DEF FlowInv, TypeOK
<1>2. CASE LookupMissing(s)
  <2> DEFINE x == [submits[s] EXCEPT !.pc = "insert"]
  <2>1. /\ submits[s].pc = "lookup" /\ UNCHANGED <<campaign, results>>
        /\ submits' = [submits EXCEPT ![s] = x]
    BY <1>2 DEF LookupMissing
  <2>2. /\ x \in SubmitRequest /\ x.pc = "insert" /\ x.user = submits[s].user
        /\ x.aspirant = submits[s].aspirant /\ x.station = submits[s].station
    BY <1>1 DEF SubmitRequest, SubmitPc
  <2> HIDE DEF x
  <2>3. /\ submits[s].pc \in InFlight
        /\ x.pc \notin Correcting \cup {"purge", "done", "unpurged"}
    BY <2>1, <2>2 DEF InFlight, Correcting
  <2> QED BY <2>1, <2>2, <2>3, RequestGoesOn
<1>3. CASE LookupExisting(s)
  BY <1>3, LookupKeepsTeams
<1>4. CASE InsertRow(s)
  <2>1. /\ submits[s].pc = "insert" /\ UNCHANGED <<campaign, results>>
        /\ submits[s].pc \in InFlight
    BY <1>4 DEF InsertRow, InFlight
  <2>2. PICK id \in FreshIds :
          submits' = [submits EXCEPT ![s] =
              [@ EXCEPT !.pc = "inserted", !.target = id]]
    BY <1>4 DEF InsertRow
  <2> DEFINE x == [submits[s] EXCEPT !.pc = "inserted", !.target = id]
  <2>3. id \in ResultIds
    BY <2>2 DEF FreshIds
  <2>4. /\ x \in SubmitRequest /\ x.pc = "inserted" /\ x.user = submits[s].user
        /\ x.aspirant = submits[s].aspirant /\ x.station = submits[s].station
    BY <1>1, <2>3 DEF SubmitRequest, SubmitPc
  <2>5. submits' = [submits EXCEPT ![s] = x]
    BY <2>2
  <2> HIDE DEF x
  <2>6. x.pc \notin Correcting \cup {"purge", "done", "unpurged"}
    BY <2>4 DEF Correcting
  <2> QED BY <2>1, <2>4, <2>5, <2>6, RequestGoesOn
<1>5. CASE InsertDuplicate(s)
  BY <1>5, FailureKeepsTeams DEF InsertDuplicate
<1>6. CASE CommitInsert(s)
  BY <1>6, CommitInsertKeepsTeams
<1>7. CASE UpdateRow(s)
  <2> DEFINE x == [submits[s] EXCEPT !.pc = "updated"]
  <2>1. /\ submits[s].pc = "update" /\ UNCHANGED <<campaign, results>>
        /\ submits' = [submits EXCEPT ![s] = x]
    BY <1>7 DEF UpdateRow
  <2>2. /\ x \in SubmitRequest /\ x.pc = "updated" /\ x.user = submits[s].user
        /\ x.aspirant = submits[s].aspirant /\ x.station = submits[s].station
        /\ x.target = submits[s].target
    BY <1>1 DEF SubmitRequest, SubmitPc
  <2> HIDE DEF x
  <2>3. submits[s].pc \in InFlight /\ submits[s].pc \in Correcting /\ x.pc \in Correcting
    BY <2>1, <2>2 DEF InFlight, Correcting
  <2> QED BY <2>1, <2>2, <2>3, RequestGoesOn
<1>8. CASE DeleteLines(s)
  <2> DEFINE x == [submits[s] EXCEPT !.pc = "replaced",
                                     !.replaced = lines[submits[s].target]]
  <2>1. /\ submits[s].pc = "updated" /\ UNCHANGED <<campaign, results>>
        /\ submits' = [submits EXCEPT ![s] = x]
    BY <1>8 DEF DeleteLines
  <2>2. lines[submits[s].target] \in SUBSET Submits
    BY <2>1 DEF FlowInv, TypeOK, RequestInv
  <2>3. /\ x \in SubmitRequest /\ x.pc = "replaced" /\ x.user = submits[s].user
        /\ x.aspirant = submits[s].aspirant /\ x.station = submits[s].station
        /\ x.target = submits[s].target
    BY <1>1, <2>2 DEF SubmitRequest, SubmitPc
  <2> HIDE DEF x
  <2>4. submits[s].pc \in InFlight /\ submits[s].pc \in Correcting /\ x.pc \in Correcting
    BY <2>1, <2>3 DEF InFlight, Correcting
  <2> QED BY <2>1, <2>3, <2>4, RequestGoesOn
<1>9. CASE CommitUpdate(s)
  BY <1>9, CommitUpdateKeepsTeams
<1>10. CASE PurgeAfterSubmit(s)
  <2> DEFINE x == [submits[s] EXCEPT !.pc = "done"]
  <2>1. /\ submits[s].pc = "purge" /\ UNCHANGED <<campaign, results>>
        /\ submits' = [submits EXCEPT ![s] = x]
    BY <1>10 DEF PurgeAfterSubmit
  <2>2. /\ x \in SubmitRequest /\ x.pc = "done" /\ x.user = submits[s].user
        /\ x.aspirant = submits[s].aspirant /\ x.station = submits[s].station
        /\ x.target = submits[s].target
    BY <1>1 DEF SubmitRequest, SubmitPc
  <2> HIDE DEF x
  <2>3. submits[s].pc \in InFlight
    BY <2>1 DEF InFlight
  <2> QED BY <2>1, <2>2, <2>3, RequestGoesOn
<1> QED
  BY <1>2, <1>3, <1>4, <1>5, <1>6, <1>7, <1>8, <1>9, <1>10 DEF SubmitStep

LEMMA SubmitFailsKeepsTeams ==
    ASSUME FlowInv, TeamInv, NEW s \in Submits, SubmitFails(s)
    PROVE  TeamInv'
<1>1. UNCHANGED <<campaign, results>> /\ submits[s] \in SubmitRequest
  BY DEF SubmitFails, FlowInv, TypeOK
<1>2. CASE submits[s].pc = "purge"
  <2> DEFINE x == [submits[s] EXCEPT !.pc = "unpurged"]
  <2>1. submits' = [submits EXCEPT ![s] = x]
    BY <1>2 DEF SubmitFails
  <2>2. /\ x \in SubmitRequest /\ x.pc = "unpurged" /\ x.user = submits[s].user
        /\ x.aspirant = submits[s].aspirant /\ x.station = submits[s].station
        /\ x.target = submits[s].target
    BY <1>1 DEF SubmitRequest, SubmitPc
  <2> HIDE DEF x
  <2>3. submits[s].pc \in InFlight
    BY <1>2 DEF InFlight
  <2> QED BY <1>1, <1>2, <2>1, <2>2, <2>3, RequestGoesOn
<1>3. CASE submits[s].pc # "purge"
  BY <1>1, <1>3, FailureKeepsTeams DEF SubmitFails
<1> QED BY <1>2, <1>3

LEMMA TeamInit == Init => TeamInv
<1> SUFFICES ASSUME Init PROVE TeamInv
  OBVIOUS
<1>1. Stored = {} /\ \A s \in Submits : submits[s].pc = "idle"
  BY DEF Init, Stored, BlankSubmit
<1> QED BY <1>1 DEF Init, TeamInv, InFlight, Correcting, CampaignOwnsFigures

LEMMA TeamStep ==
    ASSUME FlowInv, TeamInv, Mobile = {}, [Next]_vars
    PROVE  TeamInv'
<1>1. ASSUME NEW s \in Submits, StartSubmit(s) \/ SubmitStep(s) \/ SubmitFails(s)
      PROVE  TeamInv'
  BY <1>1, StartKeepsTeams, SubmitKeepsTeams, SubmitFailsKeepsTeams
<1>2. ASSUME NEW v \in Reviews, ReviewRead(v) \/ PurgeAfterReview(v) \/ ReviewFails(v)
      PROVE  TeamInv'
  <2>1. UNCHANGED <<campaign, results, submits>>
    BY <1>2 DEF ReviewRead, PurgeAfterReview, ReviewFails
  <2>2. Stored' = Stored /\ \A id \in Stored : KeyKept(id)
    BY <2>1 DEF Stored, KeyKept
  <2> QED BY <2>1, <2>2, ReviewKeepsTeams
<1>3. ASSUME NEW v \in Reviews, ReviewWrite(v)
      PROVE  TeamInv'
  BY <1>3, ReviewWriteKeepsTeams
<1>4. CASE UNCHANGED vars
  <2>1. UNCHANGED <<campaign, results, submits>>
    BY <1>4 DEF vars
  <2>2. Stored' = Stored /\ \A id \in Stored : KeyKept(id)
    BY <2>1 DEF Stored, KeyKept
  <2> QED BY <2>1, <2>2, ReviewKeepsTeams
<1> QED
  BY <1>1, <1>2, <1>3, <1>4 DEF Next, ReviewStep
----------------------------------------------------------------------------
\* While nobody is moved between campaigns, no interleaving of lookups,
\* inserts, corrections and reviews puts the figures of one campaign's agent
\* into the result of another (submitResult).
THEOREM FiguresStayInCampaign ==
    Mobile = {} => (Spec => []CampaignOwnsFigures)
<1> SUFFICES ASSUME Mobile = {} PROVE Spec => []CampaignOwnsFigures
  OBVIOUS
<1>1. Init => FlowInv /\ TeamInv
  BY FlowInit, TeamInit
<1>2. FlowInv /\ TeamInv /\ [Next]_vars => (FlowInv /\ TeamInv)'
  BY FlowStep, TeamStep
<1>3. FlowInv /\ TeamInv => CampaignOwnsFigures
  BY DEF TeamInv
<1> QED BY <1>1, <1>2, <1>3, PTL DEF Spec
----------------------------------------------------------------------------
\* What the statements of the requests keep between them.
StatementInv == FlowInv /\ KeyInv /\ LinesInv

LEMMA StatementInvAlways == Spec => []StatementInv
<1>1. Init => StatementInv
  BY FlowInit DEF Init, StatementInv, KeyInv, InsertInv, OneResultPerCampaign, Stored,
     BlankSubmit, LinesInv, LockInv, Locking, BreakdownIsOneSubmission
<1>2. StatementInv /\ [Next]_vars => StatementInv'
  BY FlowStep, KeyStep, LinesStep DEF StatementInv
<1> QED BY <1>1, <1>2, PTL DEF Spec
----------------------------------------------------------------------------
Keys == Stations \X Aspirants

\* A campaign has one row at a station, and its entry is that row.
LEMMA EntryAt ==
    StatementInv =>
      \A k \in Keys : /\ RowsOf(k) = {} => registerBar[k] = NONE
                      /\ \A id \in RowsOf(k) : registerBar[k] = EntryOf(id)
<1> SUFFICES ASSUME StatementInv, NEW k \in Keys
             PROVE  /\ RowsOf(k) = {} => registerBar[k] = NONE
                    /\ \A id \in RowsOf(k) : registerBar[k] = EntryOf(id)
    OBVIOUS
<1>1. RowsOf(k) = {} => registerBar[k] = NONE
  BY DEF registerBar, Keys
<1>2. ASSUME NEW id \in RowsOf(k)
      PROVE  registerBar[k] = EntryOf(id)
  <2>1. PICK i : i = CHOOSE j \in RowsOf(k) : TRUE
    OBVIOUS
  <2>2. i \in RowsOf(k)
    BY <2>1
  <2>3. i \in Stored /\ id \in Stored /\ k[2] # NONE
    BY <2>2, NoneAssumption DEF RowsOf, Keys
  <2>4. i = id
    BY <2>2, <2>3 DEF RowsOf, StatementInv, KeyInv, OneResultPerCampaign
  <2>5. registerBar[k] = EntryOf(i)
    BY <2>1 DEF registerBar, Keys
  <2> QED BY <2>4, <2>5
<1> QED BY <1>1, <1>2

LEMMA EntryAtNext ==
    StatementInv' =>
      (\A k \in Keys : /\ RowsOf(k) = {} => registerBar[k] = NONE
                       /\ \A id \in RowsOf(k) : registerBar[k] = EntryOf(id))'
BY EntryAt, PTL

\* A step that writes one row, and not its key, changes the entry of that key.
LEMMA OneEntryChanges ==
    ASSUME StatementInv, StatementInv', NEW id \in ResultIds,
           \A j \in ResultIds \ {id} : results'[j] = results[j] /\ lines'[j] = lines[j],
           results'[id] # NONE,
           results[id] # NONE => /\ results'[id].station = results[id].station
                                 /\ results'[id].aspirant = results[id].aspirant,
           NEW k, k = <<results'[id].station, results'[id].aspirant>>
    PROVE  /\ \A j \in Keys \ {k} : registerBar'[j] = registerBar[j]
           /\ k \in Keys => registerBar'[k] = EntryOf(id)'
<1>1. ASSUME NEW j \in Keys \ {k}
      PROVE  registerBar'[j] = registerBar[j]
  <2>1. j[1] # results'[id].station \/ j[2] # results'[id].aspirant
    BY <1>1 DEF Keys
  <2>2. /\ \A i \in RowsOf(j) : i \in RowsOf(j)' /\ EntryOf(i)' = EntryOf(i)
        /\ \A i \in RowsOf(j)' : i \in RowsOf(j)
    BY <2>1 DEF RowsOf, Stored, EntryOf
  <2>3. CASE RowsOf(j) = {}
    <3>1. RowsOf(j)' = {}
      BY <2>2, <2>3
    <3> QED BY <1>1, <2>3, <3>1, EntryAt, EntryAtNext
  <2>4. CASE RowsOf(j) # {}
    <3>1. PICK i : i \in RowsOf(j)
      BY <2>4
    <3>2. registerBar[j] = EntryOf(i) /\ registerBar'[j] = EntryOf(i)'
      BY <1>1, <2>2, <3>1, EntryAt, EntryAtNext
    <3> QED BY <2>2, <3>1, <3>2
  <2> QED BY <2>3, <2>4
<1>2. ASSUME k \in Keys PROVE registerBar'[k] = EntryOf(id)'
  <2>1. id \in RowsOf(k)'
    BY DEF RowsOf, Stored
  <2> QED BY <1>2, <2>1, EntryAtNext
<1> QED BY <1>1, <1>2

\* The entries as a function of their keys.
LEMMA EntriesDomain ==
    /\ registerBar = [k \in Keys |-> registerBar[k]]
    /\ registerBar' = [k \in Keys |-> registerBar'[k]]
BY DEF registerBar, Keys

\* A step that writes no row of a campaign changes no entry.
LEMMA NoEntryChanges ==
    ASSUME StatementInv, StatementInv', results' = results, lines' = lines
    PROVE  registerBar' = registerBar
<1>1. ASSUME NEW k \in Keys
      PROVE  registerBar'[k] = registerBar[k]
  <2>1. /\ \A i : i \in RowsOf(k)' <=> i \in RowsOf(k)
        /\ \A i : EntryOf(i)' = EntryOf(i)
    BY DEF RowsOf, Stored, EntryOf
  <2>2. CASE RowsOf(k) = {}
    BY <1>1, <2>1, <2>2, EntryAt, EntryAtNext
  <2>3. CASE RowsOf(k) # {}
    <3>1. PICK i : i \in RowsOf(k)
      BY <2>3
    <3> QED BY <1>1, <2>1, <3>1, EntryAt, EntryAtNext
  <2> QED BY <2>2, <2>3
<1> QED BY <1>1, EntriesDomain

\* A step of the register: one entry changes, of a key of a campaign; or none.
LEMMA EntryWritten ==
    ASSUME StatementInv, StatementInv', NEW id \in ResultIds,
           \A j \in ResultIds \ {id} : results'[j] = results[j] /\ lines'[j] = lines[j],
           results'[id] # NONE,
           results[id] # NONE => /\ results'[id].station = results[id].station
                                 /\ results'[id].aspirant = results[id].aspirant
    PROVE  IF results'[id].aspirant = NONE THEN registerBar' = registerBar
           ELSE \E k \in Keys :
                  /\ registerBar' = [registerBar EXCEPT ![k] = EntryOf(id)']
                  /\ results[id] # NONE => registerBar[k] = EntryOf(id)
<1>1. PICK k : k = <<results'[id].station, results'[id].aspirant>>
  OBVIOUS
<1>2. results'[id] \in Row
  BY DEF StatementInv, FlowInv, TypeOK
<1>3. CASE results'[id].aspirant = NONE
  <2>1. k \notin Keys
    BY <1>1, <1>3, NoneAssumption DEF Keys
  <2>2. \A j \in Keys : registerBar'[j] = registerBar[j]
    BY <1>1, <2>1, OneEntryChanges
  <2> QED BY <1>3, <2>2, EntriesDomain
<1>4. CASE results'[id].aspirant # NONE
  <2>1. k \in Keys
    BY <1>1, <1>2, <1>4 DEF Keys, Row, Campaigns
  <2>2. /\ \A j \in Keys \ {k} : registerBar'[j] = registerBar[j]
        /\ registerBar'[k] = EntryOf(id)'
    BY <1>1, <2>1, OneEntryChanges
  <2>3. registerBar' = [registerBar EXCEPT ![k] = EntryOf(id)']
    BY <2>1, <2>2, EntriesDomain
  <2>4. results[id] # NONE => id \in RowsOf(k)
    BY <1>1 DEF RowsOf, Stored
  <2>5. results[id] # NONE => registerBar[k] = EntryOf(id)
    BY <2>1, <2>4, EntryAt
  <2> QED BY <1>4, <2>1, <2>3, <2>5
<1> QED BY <1>3, <1>4
----------------------------------------------------------------------------
Past == {"purge", "done", "unpurged"}

\* A submission enters when its transaction commits.
LEMMA CommitEnters ==
    ASSUME StatementInv, StatementInv', NEW s \in Submits,
           CommitInsert(s) \/ CommitUpdate(s)
    PROVE  Register!RegisterNext
<1>0. submits \in [Submits -> SubmitRequest] /\ lines \in [ResultIds -> SUBSET Submits]
      /\ results \in [ResultIds -> Row \cup {NONE}]
  BY DEF StatementInv, FlowInv, TypeOK
<1>1. /\ submits[s].pc \notin Past
      /\ submits'[s].pc = "purge"
      /\ \A t \in Submits \ {s} : submits'[t] = submits[t]
  <2>1. CASE CommitInsert(s)
    BY <1>0, <2>1 DEF CommitInsert, SubmitRequest, Past
  <2>2. CASE CommitUpdate(s)
    BY <1>0, <2>2 DEF CommitUpdate, SubmitRequest, Past
  <2> QED BY <2>1, <2>2
<1>2. s \notin enteredBar /\ enteredBar' = enteredBar \cup {s}
  BY <1>1 DEF enteredBar, Past
<1>3. PICK id \in ResultIds :
        /\ id = submits[s].target
        /\ \A j \in ResultIds \ {id} : results'[j] = results[j] /\ lines'[j] = lines[j]
        /\ results'[id] # NONE
        /\ results[id] # NONE => /\ results'[id].station = results[id].station
                                 /\ results'[id].aspirant = results[id].aspirant
        /\ results'[id].figures = s /\ lines'[id] = {s}
        /\ results'[id].status \in {"PENDING", "FLAGGED"}
  <2> DEFINE id == submits[s].target
  <2>1. CASE CommitInsert(s)
    <3>1. /\ submits[s].pc = "inserted" /\ submits[s] \in SubmitRequest
          /\ id \in ResultIds /\ results[id] = NONE
          /\ submits[s].user \in Users /\ submits[s].station \in Stations
      BY <1>0, <2>1 DEF CommitInsert, StatementInv, FlowInv, RequestInv
    <3>2. NewRow(s) \in Row /\ NewRow(s).figures = s
      BY <3>1, NewRowType
    <3>3. NewRow(s).status \in {"PENDING", "FLAGGED"}
      BY DEF NewRow, InitialStatus
    <3>4. /\ results'[id] = NewRow(s) /\ lines'[id] = {s}
          /\ \A j \in ResultIds \ {id} : results'[j] = results[j] /\ lines'[j] = lines[j]
      BY <1>0, <2>1, <3>1 DEF CommitInsert
    <3> QED BY <3>1, <3>2, <3>3, <3>4, NoneAssumption
  <2>2. CASE CommitUpdate(s)
    <3>1. /\ submits[s].pc = "replaced" /\ submits[s] \in SubmitRequest
          /\ id \in ResultIds /\ results[id] # NONE /\ results[id] \in Row
          /\ submits[s].user \in Users
      BY <1>0, <2>2 DEF CommitUpdate, StatementInv, FlowInv, RequestInv
    <3>2. PICK row \in Row : row = results[id]
      BY <3>1
    <3>3. /\ CorrectedRow(row, s) \in Row /\ CorrectedRow(row, s).figures = s
          /\ CorrectedRow(row, s).station = row.station
          /\ CorrectedRow(row, s).aspirant = row.aspirant
      BY <3>1, CorrectedRowType
    <3>4. CorrectedRow(row, s).status \in {"PENDING", "FLAGGED"}
      BY <3>2 DEF CorrectedRow, InitialStatus, Row
    <3>5. submits[s].replaced = lines[id]
      BY <3>1 DEF StatementInv, LinesInv, LockInv
    <3>6. /\ results'[id] = CorrectedRow(row, s) /\ lines'[id] = {s}
          /\ \A j \in ResultIds \ {id} : results'[j] = results[j] /\ lines'[j] = lines[j]
      BY <1>0, <2>2, <3>1, <3>2, <3>5 DEF CommitUpdate
    <3> QED BY <3>1, <3>2, <3>3, <3>4, <3>6, NoneAssumption
  <2> QED BY <2>1, <2>2
<1>4. CASE results'[id].aspirant = NONE
  <2>1. registerBar' = registerBar
    BY <1>3, <1>4, EntryWritten
  <2> QED BY <1>2, <2>1 DEF Register!RegisterNext, Register!EnterUnassigned
<1>5. CASE results'[id].aspirant # NONE
  <2>1. PICK k \in Keys : registerBar' = [registerBar EXCEPT ![k] = EntryOf(id)']
    BY <1>3, <1>5, EntryWritten
  <2>2. PICK standing \in {"PENDING", "FLAGGED"} :
          EntryOf(id)' = [figures |-> s, breakdown |-> {s}, standing |-> standing]
    BY <1>3 DEF EntryOf
  <2>3. Register!Enter(k, s)
    BY <1>2, <2>1, <2>2 DEF Register!Enter, Register!Submitted
  <2> QED BY <2>3 DEF Register!RegisterNext, Register!Keys, Keys
<1> QED BY <1>4, <1>5

\* A verdict is a review of the entry, or of no campaign's row.
LEMMA VerdictReviews ==
    ASSUME StatementInv, StatementInv', NEW v \in Reviews, ReviewWrite(v)
    PROVE  Register!RegisterNext \/ UNCHANGED <<registerBar, enteredBar>>
<1>1. /\ results \in [ResultIds -> Row \cup {NONE}] /\ reviews[v] \in ReviewRequest
      /\ reviews[v].pc = "write" /\ lines' = lines /\ submits' = submits
  BY DEF StatementInv, FlowInv, TypeOK, ReviewWrite
<1>2. enteredBar' = enteredBar
  BY <1>1 DEF enteredBar
<1>3. PICK id \in ResultIds : id = reviews[v].target /\ results[id] # NONE
  BY <1>1 DEF StatementInv, FlowInv, RequestInv
<1>4. PICK row \in Row : row = results[id]
  BY <1>1, <1>3
<1>5. /\ JudgedRow(row, v) \in Row
      /\ JudgedRow(row, v).station = row.station
      /\ JudgedRow(row, v).aspirant = row.aspirant
      /\ JudgedRow(row, v).figures = row.figures
  BY <1>1, JudgedRowType
<1>6. /\ results'[id] = JudgedRow(row, v)
      /\ \A j \in ResultIds \ {id} : results'[j] = results[j] /\ lines'[j] = lines[j]
  BY <1>1, <1>3, <1>4 DEF ReviewWrite
<1>7. CASE row.aspirant = NONE
  <2>1. registerBar' = registerBar
    BY <1>4, <1>5, <1>6, <1>7, EntryWritten, NoneAssumption
  <2> QED BY <1>2, <2>1
<1>8. CASE row.aspirant # NONE
  <2>1. PICK k \in Keys : /\ registerBar' = [registerBar EXCEPT ![k] = EntryOf(id)']
                          /\ registerBar[k] = EntryOf(id)
    BY <1>3, <1>4, <1>5, <1>6, <1>8, EntryWritten, NoneAssumption
  <2>2. PICK standing \in Register!Standing : standing = JudgedRow(row, v).status
    BY <1>5 DEF Row, AuditStatus, Register!Standing
  <2>3. EntryOf(id)' = [registerBar[k] EXCEPT !.standing = standing]
    BY <1>1, <1>4, <1>5, <1>6, <2>1, <2>2 DEF EntryOf
  <2>4. registerBar[k] # NONE
    <3>1. lines[id] \in SUBSET Submits /\ row.figures \in Submits
          /\ row.status \in Register!Standing
      BY <1>4 DEF StatementInv, FlowInv, TypeOK, Row, AuditStatus, Register!Standing
    <3>2. EntryOf(id) \in Register!Entry
      BY <1>4, <3>1 DEF EntryOf, Register!Entry
    <3> QED BY <2>1, <3>2, NoEntryAssumption
  <2>5. Register!Review(k)
    BY <1>2, <2>1, <2>2, <2>3, <2>4 DEF Register!Review
  <2> QED BY <2>5 DEF Register!RegisterNext, Register!Keys, Keys
<1> QED BY <1>7, <1>8

\* A step that writes no row and ends no transaction well is a stutter.
LEMMA OthersStutter ==
    ASSUME StatementInv, StatementInv', results' = results, lines' = lines,
           \A s \in Submits : submits'[s].pc \in Past <=> submits[s].pc \in Past
    PROVE  UNCHANGED <<registerBar, enteredBar>>
<1>1. registerBar' = registerBar
  BY NoEntryChanges
<1>2. enteredBar' = enteredBar
  BY DEF enteredBar, Past
<1> QED BY <1>1, <1>2

LEMMA InitImplements ==
    ASSUME Init, StatementInv
    PROVE  Register!RegisterInit
<1>1. Stored = {}
  BY DEF Init, Stored
<1>2. \A k \in Keys : RowsOf(k) = {}
  BY <1>1 DEF RowsOf
<1>3. registerBar = [k \in Keys |-> NONE]
  BY <1>2, EntryAt, EntriesDomain
<1>4. enteredBar = {}
  BY DEF Init, BlankSubmit, enteredBar
<1> QED BY <1>3, <1>4 DEF Register!RegisterInit, Register!Keys, Keys

LEMMA StepImplements ==
    ASSUME StatementInv, StatementInv', [Next]_vars
    PROVE  [Register!RegisterNext]_<<registerBar, enteredBar>>
<1>0. /\ submits \in [Submits -> SubmitRequest]
      /\ \A s \in Submits : submits[s] \in SubmitRequest
  BY DEF StatementInv, FlowInv, TypeOK
<1>1. ASSUME NEW s \in Submits, CommitInsert(s) \/ CommitUpdate(s)
      PROVE  Register!RegisterNext
  BY <1>1, CommitEnters
<1>2. ASSUME NEW v \in Reviews, ReviewWrite(v)
      PROVE  Register!RegisterNext \/ UNCHANGED <<registerBar, enteredBar>>
  BY <1>2, VerdictReviews
<1>3. ASSUME NEW s \in Submits,
             \/ StartSubmit(s) \/ LookupMissing(s) \/ LookupExisting(s) \/ InsertRow(s)
             \/ InsertDuplicate(s) \/ UpdateRow(s) \/ DeleteLines(s)
      PROVE  UNCHANGED <<registerBar, enteredBar>>
  <2>1. results' = results /\ lines' = lines
    BY <1>3 DEF StartSubmit, LookupMissing, LookupExisting, InsertRow, InsertDuplicate,
         UpdateRow, DeleteLines
  <2>2. submits[s].pc \notin Past
    BY <1>3 DEF StartSubmit, LookupMissing, LookupExisting, InsertRow, InsertDuplicate,
         UpdateRow, DeleteLines, Past
  <2>3. submits'[s].pc \notin Past /\ \A t \in Submits \ {s} : submits'[t] = submits[t]
    <3>1. CASE StartSubmit(s)
      BY <1>0, <3>1 DEF StartSubmit, SubmitRequest, Past
    <3>2. CASE LookupMissing(s)
      BY <1>0, <3>2 DEF LookupMissing, SubmitRequest, Past
    <3>3. CASE LookupExisting(s)
      <4>1. PICK id \in Existing(submits[s].station, submits[s].aspirant) :
              submits' = [submits EXCEPT ![s] =
                IF Correctable(id) THEN [@ EXCEPT !.pc = "update", !.target = id]
                                   ELSE BlankSubmit("conflict")]
        BY <3>3 DEF LookupExisting
      <4>2. BlankSubmit("conflict").pc = "conflict"
        BY DEF BlankSubmit
      <4>3. [submits[s] EXCEPT !.pc = "update", !.target = id].pc = "update"
        BY <1>0 DEF SubmitRequest
      <4> QED BY <1>0, <4>1, <4>2, <4>3 DEF Past
    <3>4. CASE InsertRow(s)
      BY <1>0, <3>4 DEF InsertRow, SubmitRequest, Past
    <3>5. CASE InsertDuplicate(s)
      BY <1>0, <3>5 DEF InsertDuplicate, BlankSubmit, Past
    <3>6. CASE UpdateRow(s)
      BY <1>0, <3>6 DEF UpdateRow, SubmitRequest, Past
    <3>7. CASE DeleteLines(s)
      BY <1>0, <3>7 DEF DeleteLines, SubmitRequest, Past
    <3> QED BY <1>3, <3>1, <3>2, <3>3, <3>4, <3>5, <3>6, <3>7
  <2>4. \A t \in Submits : submits'[t].pc \in Past <=> submits[t].pc \in Past
    BY <1>0, <2>2, <2>3
  <2> QED BY <2>1, <2>4, OthersStutter
<1>4. ASSUME NEW s \in Submits, PurgeAfterSubmit(s) \/ SubmitFails(s)
      PROVE  UNCHANGED <<registerBar, enteredBar>>
  <2>1. results' = results /\ lines' = lines
    BY <1>4 DEF PurgeAfterSubmit, SubmitFails
  <2>2. CASE submits[s].pc = "purge"
    <3>1. PICK pc \in {"done", "unpurged"} : submits' = [submits EXCEPT ![s].pc = pc]
      BY <1>4, <2>2 DEF PurgeAfterSubmit, SubmitFails
    <3>2. \A t \in Submits : submits'[t].pc \in Past <=> submits[t].pc \in Past
      BY <1>0, <2>2, <3>1 DEF SubmitRequest, Past
    <3> QED BY <2>1, <3>2, OthersStutter
  <2>3. CASE submits[s].pc # "purge"
    <3>1. /\ submits' = [submits EXCEPT ![s] = BlankSubmit("failed")]
          /\ submits[s].pc \notin Past
      BY <1>4, <2>3 DEF PurgeAfterSubmit, SubmitFails, Past
    <3>2. \A t \in Submits : submits'[t].pc \in Past <=> submits[t].pc \in Past
      BY <1>0, <3>1 DEF BlankSubmit, Past
    <3> QED BY <2>1, <3>2, OthersStutter
  <2> QED BY <2>2, <2>3
<1>5. CASE UNCHANGED <<results, lines, submits>>
  BY <1>5, OthersStutter
<1>6. ASSUME NEW v \in Reviews, ReviewRead(v) \/ PurgeAfterReview(v) \/ ReviewFails(v)
      PROVE  UNCHANGED <<results, lines, submits>>
  BY <1>6 DEF ReviewRead, PurgeAfterReview, ReviewFails
<1>7. ASSUME NEW u \in Mobile, MoveUser(u)
      PROVE  UNCHANGED <<results, lines, submits>>
  BY <1>7 DEF MoveUser
<1>8. UNCHANGED vars => UNCHANGED <<results, lines, submits>>
  BY DEF vars
<1> QED BY <1>1, <1>2, <1>3, <1>4, <1>5, <1>6, <1>7, <1>8
        DEF Next, SubmitStep, ReviewStep
----------------------------------------------------------------------------
\* However the statements of submissions, reviews, moves and failures
\* interleave, readers of committed rows see a register whose entries change one
\* at a time and whole (createTransactional, updateTransactional,
\* updateAuditStatus).
THEOREM LifecycleImplementsRegister == Spec => ImplementsRegister
<1>1. Init /\ StatementInv => Register!RegisterInit
  BY InitImplements
<1>2. StatementInv /\ StatementInv' /\ [Next]_vars
        => [Register!RegisterNext]_<<registerBar, enteredBar>>
  BY StepImplements
<1> QED BY <1>1, <1>2, StatementInvAlways, PTL
        DEF Spec, ImplementsRegister, Register!RegisterSpec
=============================================================================

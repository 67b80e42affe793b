---------------------------- MODULE MCBulkUpload ----------------------------
(* Small instances of BulkUpload for TLC.                                  *)
EXTENDS BulkUpload

CONSTANTS p, q, c, d, n, m

Row(parent, code, name) == [parent |-> parent, code |-> code, name |-> name]

\* Rows with the name or the code of an earlier one, and a file with an empty
\* cell.
MCFiles ==
    [parent : {NONE, p}, headers : {TRUE},
     rows : {<<Row(p, c, n), Row(p, d, n), Row(q, c, m), Row(q, d, m)>>}]
      \cup [parent : {q}, headers : BOOLEAN, rows : {<<Row(EMPTY, d, EMPTY)>>}]

MCBatches == {<<[code |-> c, name |-> n]>>}

MCWanted == {Row(p, d, n)}
=============================================================================

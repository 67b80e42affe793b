---------------------- MODULE ResultLifecycleRefinement ----------------------
(* ResultLifecycle implements ResultRegister: many statements of many       *)
(* concurrent requests look like single updates of a register.             *)
EXTENDS ResultLifecycle

\* The rows that hold the result of a campaign at a station.
RowsOf(k) == {id \in Stored : /\ results[id].station = k[1]
                              /\ results[id].aspirant = k[2]}

\* The entry the committed row and its committed breakdown amount to.
EntryOf(id) == [figures   |-> results[id].figures,
                breakdown |-> lines[id],
                standing  |-> results[id].status]

registerBar ==
    [k \in Stations \X Aspirants |->
        IF RowsOf(k) = {} THEN NONE ELSE EntryOf(CHOOSE id \in RowsOf(k) : TRUE)]

enteredBar == {s \in Submits : submits[s].pc \in {"purge", "done", "unpurged"}}

Register == INSTANCE ResultRegister
                WITH register <- registerBar, entered <- enteredBar

ASSUME NoEntryAssumption == NONE \notin Register!Entry

\* Every behaviour of the requests, failures included, is a behaviour of the
\* register (createTransactional, updateTransactional, updateAuditStatus).
ImplementsRegister == Register!RegisterSpec
=============================================================================

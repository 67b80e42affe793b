------------------------------- MODULE Saves -------------------------------
(***************************************************************************)
(* TypeORM's Repository.save of an entity that has an id.  It selects the  *)
(* row, and the lists that join tables hold, compares what it has found    *)
(* with the entity, and only then begins a transaction, in which it writes *)
(* what differs: the entity is the copy here, what was selected is found,  *)
(* and what the transaction meets is now.  Columns and lists that do not   *)
(* differ stay as they are, whoever has written them in the meantime.      *)
(***************************************************************************)

\* A column is updated when the copy differs from what was found.
Column(now, copy, found) == IF copy # found THEN copy ELSE now

\* Rows of a join table are inserted and deleted one by one.
List(now, copy, found) == (now \cup (copy \ found)) \ (found \ copy)

\* An insertion of a row that is there by now fails, and the save with it.
Clash(now, copy, found) == (copy \ found) \cap now # {}
=============================================================================

---------------------------- MODULE TransferStore ----------------------------
(***************************************************************************)
(* The transfers table of TransferResumeManager (resume.rs) as a function   *)
(* from ids to records, one operator per statement. Every statement runs    *)
(* under one mutex and is committed when it returns (journal_mode=WAL,      *)
(* synchronous=FULL), so a crash keeps exactly the statements that ended.   *)
(***************************************************************************)
EXTENDS Integers

Final == {"completed", "failed"}
Statuses == Final \cup {"pending", "in_progress"}
Records == [status : Statuses, bytes : Nat, size : Nat]

EmptyStore == [id \in {} |-> {}]

CreateTransfer(db, id, size) ==
  [r \in DOMAIN db \cup {id} |->
     IF r = id THEN [status |-> "pending", bytes |-> 0, size |-> size] ELSE db[r]]

\* UPDATE ... WHERE id = ?: no row, no effect and no error.
Where(db, id, row) == [r \in DOMAIN db |-> IF r = id THEN row ELSE db[r]]

\* Sets the status too, whatever it was.
UpdateProgress(db, id, n) ==
  Where(db, id, [status |-> "in_progress", bytes |-> n, size |-> db[id].size])

CompleteTransfer(db, id) ==
  Where(db, id, [status |-> "completed", bytes |-> db[id].size, size |-> db[id].size])

\* Mutant of FailTransfer: the failure is not stored.
FailUnstored(db, id) == db

FailTransfer(db, id) ==
  Where(db, id, [status |-> "failed", bytes |-> db[id].bytes, size |-> db[id].size])

\* What cmd_send looks for in list_transfers: a record of the same file and peer
\* that is neither completed nor failed.
OpenTransfers(db) == {id \in DOMAIN db : db[id].status \notin Final}
=============================================================================

-------------------------- MODULE TransactionState --------------------------
(***************************************************************************)
(* The states of a transaction record and the transitions the store        *)
(* accepts (internal/state/transaction.go).  A record is one JSON file     *)
(* under /run/podlaz/transactions; "absent" says that there is no file.    *)
(***************************************************************************)

TxStates == {"planned", "applying", "applied", "verifying", "committed",
             "rolling_back", "rolled_back", "failed"}

\* The states of a file on disk, the missing file included.
FileStates == TxStates \cup {"absent"}

\* What validTransition accepts besides the self-transition.
Successors == [planned      |-> {"applying", "failed", "rolling_back"},
               applying     |-> {"applied", "failed", "rolling_back"},
               applied      |-> {"verifying", "failed", "rolling_back"},
               verifying    |-> {"committed", "failed", "rolling_back"},
               committed    |-> {"failed", "rolling_back"},
               rolling_back |-> {"rolled_back", "failed"},
               failed       |-> {"rolling_back"},
               rolled_back  |-> {}]

ValidTransition(from, to) ==
  /\ from \in TxStates
  /\ to = from \/ to \in Successors[from]

\* The records recovery reports as cleanup candidates.
RequiresCleanup(state) == state \in TxStates \ {"committed", "rolled_back"}
=============================================================================

------------------------------- MODULE UndoLog -------------------------------
(***************************************************************************)
(* What the record of a TUN transaction promises, apart from states, files *)
(* and commands: an undo log.  It is written once, names only things that  *)
(* are there, and is not given up while one of them still is.  The promise *)
(* is made to one user of the log: it ends when a second one works on the  *)
(* same host at the same time.                                             *)
(***************************************************************************)
CONSTANT Items      \* what a transaction may put on the host

VARIABLES present,  \* what it has on the host
          log,      \* what it can still find and undo
          alone     \* nobody else has worked on host and log meanwhile

Init == present = {} /\ log = {} /\ alone = TRUE

\* Something is put on the host: only before the log is written.
Do(S) == /\ log = {}
         /\ present' = present \cup S
         /\ UNCHANGED <<log, alone>>

\* The log is written.
Log(S) == /\ log = {} /\ S \subseteq present
          /\ log' = S
          /\ UNCHANGED <<present, alone>>

\* Something is removed from the host, logged or not.
Undo(S) == /\ present' = present \ S
           /\ UNCHANGED <<log, alone>>

\* The log is given up.
Forget == /\ log \cap present = {}
          /\ log' = {}
          /\ UNCHANGED <<present, alone>>

\* A second user comes: nothing is promised from here on.
Interfere == /\ alone' = FALSE
             /\ present' \in SUBSET Items /\ log' \in SUBSET Items

Next == \/ alone /\ ((\E S \in SUBSET Items : Do(S) \/ Log(S) \/ Undo(S)) \/ Forget)
        \/ Interfere

Spec == Init /\ [][Next]_<<present, log, alone>>
=============================================================================

--------------------------- MODULE TunTransaction ---------------------------
(***************************************************************************)
(* One TUN transaction in full: every networking step that the executor    *)
(* applies and undoes, every write of the record, a daemon that crashes    *)
(* between any two of them, and `podlaz recover --execute` as often as the *)
(* user asks for it.  XrayManager has the races of several calls and keeps *)
(* the steps together; here one connect and its disconnect run alone, and  *)
(* the processes are only the child entries of the record.                 *)
(***************************************************************************)
EXTENDS TransactionState, Naturals, Sequences, FiniteSets

CONSTANTS
  StepsMayFail,      \* a command, a probe or a file write may return an error
  HalfSteps,         \* a step may fail with its resource in place
  Foreign,           \* routes and rules like ours that may be there before
  RuntimeDirKept,    \* /run/podlaz outlives a crash of the daemon
  RecoverMayOverlap, \* recover runs while a connect or disconnect is served
  MaxCrashes         \* bound on the crashes of the daemon

ASSUME TransactionAssumption ==
  /\ {StepsMayFail, HalfSteps, RuntimeDirKept, RecoverMayOverlap} \subseteq BOOLEAN
  /\ Foreign \subseteq {"bypassRoute", "bypassRule", "tableRule"}
  /\ MaxCrashes \in Nat

VARIABLES
  host,      \* what is on the host under each name of the plan: ours or not
  file,      \* the transaction file
  copy,      \* tx, the copy of the record that the handler holds
  pc, at,    \* the handler: its next section, and a position in Plan
  undoing,   \* whose rollback it runs: "steps", "plan" or "record"
  plan,      \* the plan of that rollback
  errs,      \* the rollback has met an error
  rec,       \* the recover handler
  crashes,   \* the crashes so far
  overlapped \* history: recover has run in the middle of another call

handler == <<copy, pc, at, undoing, plan, errs>>
vars    == <<host, file, handler, rec, crashes, overlapped>>

-----------------------------------------------------------------------------
(* Data.                                                                   *)

\* The order of executor.Apply; Rollback goes through it backwards.
Plan == <<"link", "defaultRoute", "bypassRoute", "bypassRule", "tableRule",
          "dns", "table">>
Items == {Plan[i] : i \in DOMAIN Plan}

\* The order in which recovery undoes a record.  DNS is always skipped: the
\* backend's name it looks for is not the one the planner writes.
RecoveryPlan == <<"table", "bypassRule", "tableRule", "defaultRoute",
                  "bypassRoute", "link">>

\* What a step accepts when an identical one is there: it does nothing then,
\* and reports nothing.
Adoptable == {"bypassRoute", "bypassRule", "tableRule"}

Record     == [state : FileStates, steps : SUBSET Items, children : BOOLEAN]
NoFile     == [state |-> "absent", steps |-> {}, children |-> FALSE]
In(r, s)   == [r EXCEPT !.state = s]
Candidates == {"tx", "table", "link"}
NoRecovery == [pc |-> "idle", found |-> {}, copy |-> NoFile, at |-> 0, failed |-> FALSE]

Init ==
  /\ \E there \in SUBSET Foreign :
       host = [x \in Items |-> IF x \in there THEN "foreign" ELSE "none"]
  /\ file = NoFile /\ copy = NoFile
  /\ pc = "idle" /\ at = 0 /\ undoing = "none" /\ plan = {} /\ errs = FALSE
  /\ rec = NoRecovery /\ crashes = 0 /\ overlapped = FALSE

Ours == {x \in Items : host[x] = "ours"}
Add(x) == host' = [host EXCEPT ![x] = "ours"]

\* Deletion is by name, whoever the resource belongs to.  The kernel and
\* resolved drop the default route and the per-link DNS with the link.
Remove(x) == host' = [y \in Items |->
  IF y = x \/ (x = "link" /\ y \in {"defaultRoute", "dns"}) THEN "none" ELSE host[y]]

\* A deletion that succeeds, or fails before or after the resource is gone.
RemoveOrFail(x, ok, failed) ==
  \/ Remove(x) /\ ok
  \/ StepsMayFail /\ (Remove(x) \/ UNCHANGED host) /\ failed

\* BUG: a save that writes the file in place leaves half a record behind.
MaybeSavedInPlace(records) == file' \in {file, In(file, "torn")} \cup records
\* A save that fails may have replaced the file already.
MaybeSaved(records) == file' \in {file} \cup records

Continue(from, to) == /\ pc = from /\ pc' = to
                      /\ UNCHANGED <<at, undoing, plan, errs, rec, crashes>>
StartUndo(from, how, what, record) ==
  /\ pc = from /\ pc' = "rollback"
  /\ undoing' = how /\ plan' = what /\ copy' = record
  /\ UNCHANGED <<at, errs, rec, crashes>>

-----------------------------------------------------------------------------
(* Connect.                                                                *)

\* Save the planned record, move it to applying and load it.
CreateTx ==
  /\ \/ /\ Continue("idle", "apply")
        /\ file' = In(NoFile, "applying") /\ copy' = file'
     \/ /\ StepsMayFail
        /\ Continue("idle", "failed")
        /\ MaybeSaved({In(NoFile, "planned"), In(NoFile, "applying")})
        /\ UNCHANGED copy
  /\ UNCHANGED host

\* BUG: an identical route or rule that was there is reported as applied.
ReportedAlways(x) == {x}
Reported(x) == IF host[x] = "none" THEN {x} ELSE {}

\* The next step of executor.Apply.  A step that fails is not reported; it may
\* have failed after its first command, or after its own revert failed (DNS
\* and the table).
ApplyStep ==
  LET x == Plan[at + 1]
  IN /\ pc = "apply"
     /\ \/ /\ \/ host[x] = "none" /\ Add(x)
              \/ host[x] # "none" /\ x \in Adoptable /\ UNCHANGED host
           /\ copy' = [copy EXCEPT !.steps = @ \cup Reported(x)]
           /\ at' = (at + 1) % Len(Plan)
           /\ pc' = IF at + 1 = Len(Plan) THEN "record" ELSE "apply"
           /\ UNCHANGED <<undoing, plan, errs, rec, crashes>>
        \/ /\ StepsMayFail
           /\ UNCHANGED host \/ (HalfSteps /\ host[x] = "none" /\ Add(x))
           /\ StartUndo("apply", "steps", copy.steps, copy)
     /\ UNCHANGED file

\* Save the steps that were applied.
RecordSteps ==
  /\ \/ /\ Continue("record", "move")
        /\ file' = copy
        /\ UNCHANGED copy
     \/ /\ StepsMayFail
        /\ MaybeSaved({copy})
        /\ StartUndo("record", "steps", copy.steps, copy)
  /\ UNCHANGED host

\* Move the file to applied and to verifying, and load it: after an error of
\* the load alone, nothing is rolled back.
MoveToVerifying ==
  /\ \/ /\ file.state = "applying"
        /\ Continue("move", "verify")
        /\ file' = In(file, "verifying") /\ copy' = file'
     \/ /\ StepsMayFail \/ file.state # "applying"
        /\ IF file.state = "applying"
             THEN MaybeSaved({In(file, "applied"), In(file, "verifying")})
             ELSE UNCHANGED file
        /\ StartUndo("move", "steps", copy.steps, copy)
     \/ /\ StepsMayFail /\ file.state = "applying"
        /\ Continue("move", "failed")
        /\ file' = In(file, "verifying")
        /\ UNCHANGED copy
  /\ UNCHANGED host

\* executor.Verify: everything in the plan is there, whoever it belongs to.
Verify ==
  /\ \/ /\ \A x \in Items : host[x] # "none"
        /\ Continue("verify", "processes")
        /\ UNCHANGED copy
     \/ /\ StepsMayFail \/ \E x \in Items : host[x] = "none"
        /\ StartUndo("verify", "steps", copy.steps, copy)
  /\ UNCHANGED <<host, file>>

\* Start Xray and tun2socks, adding each to the record, and probe the
\* connection: an error undoes the whole plan.
StartProcesses ==
  LET WithChildren == [file EXCEPT !.children = TRUE]
  IN /\ \/ /\ file.state # "absent"
           /\ Continue("processes", "commit")
           /\ file' = WithChildren
        \/ /\ StepsMayFail \/ file.state = "absent"
           /\ IF file.state = "absent" THEN UNCHANGED file ELSE MaybeSaved({WithChildren})
           /\ StartUndo("processes", "plan", Items, copy)
     /\ UNCHANGED <<host, copy>>

CommitTx ==
  LET Committable == ValidTransition(file.state, "committed")
  IN /\ \/ /\ Committable
           /\ Continue("commit", "connected")
           /\ file' = In(file, "committed")
        \/ /\ StepsMayFail \/ ~Committable
           /\ IF Committable THEN MaybeSaved({In(file, "committed")}) ELSE UNCHANGED file
           /\ StartUndo("commit", "plan", Items, copy)
     /\ UNCHANGED <<host, copy>>

-----------------------------------------------------------------------------
(* Disconnect, and the rollbacks of a connect.                             *)

\* The plan of the rollback is that of the file, read in BeginRollback.
DisconnectTun ==
  /\ StartUndo("connected", "record", {}, copy)
  /\ UNCHANGED <<host, file>>

\* BUG: a disconnect that undoes the whole plan.
PlanFromRecordWhole(record) == Items

\* tunPlanFromTransaction: DNS and the table come from the desired plan when
\* they are not among the recorded steps.
PlanFromRecord(record) == record.steps \cup {"dns", "table"}

\* Save the steps (rollbackTunFailure) or load the record (the others), stop
\* the recorded processes and say rolling_back.
BeginRollback ==
  LET mark    == undoing = "steps"
      record  == IF mark THEN copy ELSE file
      Rolling == In(record, "rolling_back")
      Fail    == /\ Continue("rollback", "failed")
                 /\ UNCHANGED copy
  IN /\ \/ /\ ValidTransition(record.state, "rolling_back")
           /\ file' = Rolling /\ copy' = Rolling
           /\ pc' = "undo" /\ at' = Len(Plan)
           /\ plan' = IF undoing = "record" THEN PlanFromRecord(record) ELSE plan
           /\ errs' \in {FALSE, StepsMayFail /\ record.children}
           /\ pc = "rollback"
           /\ UNCHANGED <<undoing, rec, crashes>>
        \/ /\ StepsMayFail /\ record.state # "absent"
           /\ Fail
           /\ MaybeSaved({Rolling} \cup IF mark THEN {copy, In(copy, "failed")} ELSE {})
        \/ /\ ~ValidTransition(record.state, "rolling_back")
           /\ Fail
           /\ UNCHANGED file
     /\ UNCHANGED host

\* BUG: an error of one step is lost.
UndoStepQuietly ==
  /\ pc = "undo" /\ at > 0
  /\ at' = at - 1
  /\ \/ Plan[at] \notin plan /\ UNCHANGED host
     \/ Plan[at] \in plan /\ RemoveOrFail(Plan[at], TRUE, TRUE)
  /\ UNCHANGED <<file, copy, pc, undoing, plan, errs, rec, crashes>>

\* executor.Rollback goes on after an error.
UndoStep ==
  /\ pc = "undo" /\ at > 0
  /\ at' = at - 1
  /\ \/ Plan[at] \notin plan /\ UNCHANGED <<host, errs>>
     \/ /\ Plan[at] \in plan
        /\ RemoveOrFail(Plan[at], UNCHANGED errs, errs' = TRUE)
  /\ UNCHANGED <<file, copy, pc, undoing, plan, rec, crashes>>

\* Say rolled_back, or failed when rollbackTunFailure met an error.
EndRollback ==
  LET Done(to) == /\ at = 0 /\ Continue("undo", to)
  IN /\ \/ /\ ~errs
           /\ Done(IF undoing = "record" THEN "remove" ELSE "failed")
           /\ file' = In(copy, "rolled_back") /\ copy' = file'
        \/ /\ ~errs /\ StepsMayFail
           /\ Done("failed")
           /\ MaybeSaved({In(copy, "rolled_back")})
           /\ UNCHANGED copy
        \/ /\ errs
           /\ Done("failed")
           /\ MaybeSaved(IF undoing = "steps" THEN {In(copy, "failed")} ELSE {})
           /\ UNCHANGED copy
     /\ UNCHANGED host

RemoveTxFile ==
  /\ \/ Continue("remove", "done") /\ file' = NoFile
     \/ StepsMayFail /\ Continue("remove", "failed") /\ UNCHANGED file
  /\ UNCHANGED <<host, copy>>

-----------------------------------------------------------------------------
(* Crash and recovery.                                                     *)

\* The daemon dies and is started again: its memory is gone, what is on the
\* host is not.
Crash ==
  /\ crashes < MaxCrashes
  /\ crashes' = crashes + 1
  /\ pc' = "restarted" /\ at' = 0 /\ copy' = NoFile
  /\ undoing' = "none" /\ plan' = {} /\ errs' = FALSE
  /\ rec' = NoRecovery
  /\ file' = IF RuntimeDirKept THEN file ELSE NoFile
  /\ UNCHANGED host

Served     == pc \in {"idle", "connected", "failed", "done", "restarted"}
Recovering == rec.pc \notin {"idle", "done"}

RecoverStep(from, to) == /\ rec.pc = from
                         /\ rec' = [rec EXCEPT !.pc = to]
                         /\ UNCHANGED <<handler, crashes>>

\* The scan; a command that fails is a warning and no candidate.
Scan ==
  LET seen == {c \in Candidates : IF c = "tx" THEN RequiresCleanup(file.state)
                                              ELSE host[c] # "none"}
  IN /\ ~Recovering
     /\ Served \/ RecoverMayOverlap
     /\ \E found \in {seen} \cup (IF StepsMayFail THEN SUBSET seen ELSE {}) :
          rec' = [NoRecovery EXCEPT !.pc = "tx", !.found = found]
     /\ UNCHANGED <<host, file, handler, crashes>>

\* The transaction candidate: the file is read again.
RecoverTx ==
  /\ rec.pc = "tx"
  /\ rec' = IF "tx" \in rec.found /\ RequiresCleanup(file.state)
              THEN [rec EXCEPT !.pc = "undo", !.at = 1, !.copy = file]
              ELSE [rec EXCEPT !.pc = "table"]
  /\ UNCHANGED <<host, file, handler, crashes>>

RecoverUndo ==
  LET x == RecoveryPlan[rec.at]
      Next(failed) == rec' = [rec EXCEPT !.at = @ + 1, !.failed = @ \/ failed]
  IN /\ rec.pc = "undo" /\ rec.at <= Len(RecoveryPlan)
     /\ IF x \in rec.copy.steps
          THEN RemoveOrFail(x, Next(FALSE), Next(TRUE))
          ELSE Next(FALSE) /\ UNCHANGED host
     /\ UNCHANGED <<file, handler, crashes>>

\* Children are always skipped, their identity is not known any more.
Skipped(record) == record.children \/ "dns" \in record.steps

\* BUG: the record goes although a step could not be undone.
ForgetTxAnyway ==
  /\ rec.at > Len(RecoveryPlan)
  /\ RecoverStep("undo", "table")
  /\ IF Skipped(rec.copy) THEN UNCHANGED file ELSE file' = NoFile
  /\ UNCHANGED host

\* The record is only removed when nothing failed and nothing was skipped.
ForgetTx ==
  /\ rec.at > Len(RecoveryPlan)
  /\ RecoverStep("undo", "table")
  /\ IF rec.failed \/ Skipped(rec.copy)
       THEN UNCHANGED file
       ELSE file' = NoFile \/ (StepsMayFail /\ UNCHANGED file)
  /\ UNCHANGED host

\* The table and the link that the scan saw, whoever they belong to.
RecoverFound(x, to) ==
  /\ RecoverStep(x, to)
  /\ IF x \in rec.found THEN RemoveOrFail(x, TRUE, TRUE) ELSE UNCHANGED host
  /\ UNCHANGED file

-----------------------------------------------------------------------------
Handle == CreateTx \/ ApplyStep \/ RecordSteps \/ MoveToVerifying \/ Verify
          \/ StartProcesses \/ CommitTx \/ DisconnectTun
          \/ BeginRollback \/ UndoStep \/ EndRollback \/ RemoveTxFile

Recover == Scan \/ RecoverTx \/ RecoverUndo \/ ForgetTx
           \/ RecoverFound("table", "link") \/ RecoverFound("link", "done")

Next == \/ /\ ~Recovering \/ RecoverMayOverlap
           /\ Handle
           /\ overlapped' = (overlapped \/ Recovering)
        \/ /\ Recover
           /\ overlapped' = (overlapped \/ ~Served)
        \/ Crash /\ UNCHANGED overlapped

Spec == Init /\ [][Next]_vars

-----------------------------------------------------------------------------
(* Properties.                                                             *)

TypeOK ==
  /\ host \in [Items -> {"none", "ours", "foreign"}]
  /\ file \in Record /\ copy \in Record
  /\ pc \in {"idle", "apply", "record", "move", "verify", "processes", "commit",
             "connected", "rollback", "undo", "remove", "failed", "done", "restarted"}
  /\ at \in 0 .. Len(Plan)
  /\ undoing \in {"none", "steps", "plan", "record"}
  /\ plan \in SUBSET Items /\ errs \in BOOLEAN
  /\ rec.pc \in {"idle", "tx", "undo", "table", "link", "done"}
  /\ rec.found \in SUBSET Candidates /\ rec.copy \in Record
  /\ rec.at \in 0 .. Len(RecoveryPlan) + 1 /\ rec.failed \in BOOLEAN
  /\ crashes \in 0 .. MaxCrashes /\ overlapped \in BOOLEAN

\* The record of a transaction is an undo log: whatever fails, and wherever
\* the daemon dies, no step that was recorded is forgotten while it is on the
\* host, by the rollbacks, the disconnect or recovery, as long as recovery is
\* not asked for in the middle of another call.
Undoing == INSTANCE UndoLog WITH
  present <- Ours,
  log <- IF file.state \in {"absent", "rolled_back"} THEN {} ELSE file.steps,
  alone <- ~overlapped
IsUndoLog == Undoing!Spec

\* A record that says rolled_back leaves at most one thing behind: what the
\* step that failed half-way had created (rollbackPlanFromAppliedSteps).
RolledBackLeavesOneStep ==
  file.state = "rolled_back" => Cardinality(Ours) <= 1

\* A committed record names everything the transaction has on the host, and
\* nothing that was there before it (IPRouteExecutor.Add and its likes).
CommittedRecordIsExact ==
  file.state = "committed" =>
    /\ Ours \subseteq file.steps
    /\ \A x \in file.steps : host[x] # "foreign"

\* Neither a disconnect, nor the rollback of recorded steps, nor recovery ever
\* deletes a route or a rule that was there before the connect: only the
\* runner, which rolls back its whole plan, does.
ForeignOutlivesRecords ==
  [][\A x \in Items : host[x] = "foreign" /\ host'[x] # "foreign" =>
       pc = "undo" /\ undoing = "plan"]_vars

\* Rollback removes only what the transaction applied.
RollbackOnlyApplied ==
  [][\A x \in Items : host[x] = "foreign" => host'[x] = "foreign"]_vars

\* After a crash, one recovery in which no command fails leaves nothing of the
\* transaction on the host.
RecoverableAfterCrash ==
  pc = "restarted" /\ rec.pc = "done" => Ours = {}

\* After a crash, one recovery in which no command fails leaves nothing to
\* recover, unless the record names a process.
RecoveryFinishes ==
  pc = "restarted" /\ rec.pc = "done" /\ ~file.children =>
    ~RequiresCleanup(file.state)
=============================================================================

------------------------ MODULE TunTransaction_proofs ------------------------
(***************************************************************************)
(* One transaction with its crashes and recoveries, for any choice of the  *)
(* constants: what of it may fail, what was on the host before, how often  *)
(* the daemon dies.  TypeCorrect, ForeignKept, CommittedExact and          *)
(* RolledBackLeavesOne are properties of TunTransaction; RecordIsUndoLog   *)
(* is its refinement of UndoLog.  Each rests on an invariant of its own,   *)
(* proved after the lemmas on what a step does: TypeInv, ForeignInv (what  *)
(* was there before is in no plan but the runner's), StageInv (the file    *)
(* and the copy follow the stages), OneStepInv (what a rollback has left   *)
(* to do) and LogInv (what one user of the log knows of it).               *)
(***************************************************************************)
EXTENDS TunTransaction, FiniteSetTheorems, TLAPS

-----------------------------------------------------------------------------
(* The plan and the order of recovery, once and for all.                   *)

LEMMA PlanFacts ==
  /\ Len(Plan) = 7
  /\ Items = {"link", "defaultRoute", "bypassRoute", "bypassRule", "tableRule",
              "dns", "table"}
  /\ \A i \in 1 .. 7 : Plan[i] \in Items
  /\ \A x \in Items : \E i \in 1 .. 7 : Plan[i] = x
<1>1. /\ Len(Plan) = 7 /\ DOMAIN Plan = 1 .. 7
      /\ Plan[1] = "link" /\ Plan[2] = "defaultRoute" /\ Plan[3] = "bypassRoute"
      /\ Plan[4] = "bypassRule" /\ Plan[5] = "tableRule" /\ Plan[6] = "dns"
      /\ Plan[7] = "table"
  BY DEF Plan
<1>2. \A i \in 1 .. 7 : i = 1 \/ i = 2 \/ i = 3 \/ i = 4 \/ i = 5 \/ i = 6 \/ i = 7
  OBVIOUS
<1> QED
  BY <1>1, <1>2 DEF Items

LEMMA RecoveryPlanFacts ==
  /\ Len(RecoveryPlan) = 6
  /\ \A i \in 1 .. 6 : RecoveryPlan[i] \in Items \ {"dns"}
  /\ \A x \in Items \ {"dns"} : \E i \in 1 .. 6 : RecoveryPlan[i] = x
<1>1. /\ Len(RecoveryPlan) = 6
      /\ RecoveryPlan[1] = "table" /\ RecoveryPlan[2] = "bypassRule"
      /\ RecoveryPlan[3] = "tableRule" /\ RecoveryPlan[4] = "defaultRoute"
      /\ RecoveryPlan[5] = "bypassRoute" /\ RecoveryPlan[6] = "link"
  BY DEF RecoveryPlan
<1>2. \A i \in 1 .. 6 : i = 1 \/ i = 2 \/ i = 3 \/ i = 4 \/ i = 5 \/ i = 6
  OBVIOUS
<1> QED
  BY <1>1, <1>2, PlanFacts

-----------------------------------------------------------------------------
(* Types.                                                                  *)

Recovery == [pc : {"idle", "tx", "undo", "table", "link", "done"},
             found : SUBSET Candidates, copy : Record, at : 0 .. 7, failed : BOOLEAN]

\* TypeOK with what keeps the positions in the two plans in their range.
TypeInv ==
  /\ TypeOK
  /\ rec \in Recovery
  /\ pc = "idle" => at = 0
  /\ pc = "apply" => at < 7
  /\ rec.pc = "undo" => rec.at >= 1

LEMMA RecordTypes ==
  /\ NoFile \in Record /\ NoRecovery \in Recovery
  /\ \A r \in Record : \A s \in FileStates : In(r, s) \in Record
  /\ \A r \in Record : [r EXCEPT !.children = TRUE] \in Record
  /\ \A r \in Record : \A S \in SUBSET Items : [r EXCEPT !.steps = @ \cup S] \in Record
<1>1. NoFile \in Record /\ NoRecovery \in Recovery
  BY DEF NoFile, NoRecovery, Record, Recovery, FileStates, Candidates
<1>2. \A r \in Record : \A s \in FileStates : In(r, s) \in Record
  BY DEF In, Record
<1>3. \A r \in Record : [r EXCEPT !.children = TRUE] \in Record
  BY DEF Record
<1>4. \A r \in Record : \A S \in SUBSET Items : [r EXCEPT !.steps = @ \cup S] \in Record
  BY DEF Record
<1> QED
  BY <1>1, <1>2, <1>3, <1>4

\* What recovery writes to its own state.
LEMMA RecoverySets ==
  ASSUME NEW r \in Recovery
  PROVE  /\ \A n \in 0 .. 7 : \A b \in BOOLEAN :
              [r EXCEPT !.at = n, !.failed = b] \in Recovery
         /\ \A c \in Record : [r EXCEPT !.pc = "undo", !.at = 1, !.copy = c] \in Recovery
         /\ [r EXCEPT !.pc = "table"] \in Recovery
<1>1. ASSUME NEW n \in 0 .. 7, NEW b \in BOOLEAN
      PROVE  [r EXCEPT !.at = n, !.failed = b] \in Recovery
  BY DEF Recovery
<1>2. ASSUME NEW c \in Record PROVE [r EXCEPT !.pc = "undo", !.at = 1, !.copy = c] \in Recovery
  <2>1. [r EXCEPT !.pc = "undo"] \in Recovery
    BY DEF Recovery
  <2>2. \A q \in Recovery : [q EXCEPT !.at = 1] \in Recovery
    BY DEF Recovery
  <2>3. \A q \in Recovery : [q EXCEPT !.copy = c] \in Recovery
    BY DEF Recovery
  <2> QED
    BY <2>1, <2>2, <2>3, Zenon
<1>3. [r EXCEPT !.pc = "table"] \in Recovery
  BY DEF Recovery
<1> QED
  BY <1>1, <1>2, <1>3

LEMMA StatesInFile ==
  {"planned", "applying", "applied", "verifying", "committed", "rolling_back",
   "rolled_back", "failed", "absent"} = FileStates
BY DEF FileStates, TxStates

\* What removes something from the host or leaves it alone.
Shrinks == \A x \in Items : host'[x] # host[x] => host'[x] = "none"

LEMMA RemoveType ==
  ASSUME host \in [Items -> {"none", "ours", "foreign"}], NEW x, Remove(x)
  PROVE  host' \in [Items -> {"none", "ours", "foreign"}] /\ Shrinks
BY DEF Remove, Shrinks

USE TransactionAssumption

\* The three actions that write several fields, or combine outcomes.
LEMMA ScanShape ==
  ASSUME Scan
  PROVE  \E found \in SUBSET Candidates :
           rec' = [pc |-> "tx", found |-> found, copy |-> NoFile, at |-> 0, failed |-> FALSE]
<1>1. PICK found \in SUBSET Candidates :
        rec' = [NoRecovery EXCEPT !.pc = "tx", !.found = found]
  BY DEF Scan
<1> QED
  BY <1>1 DEF NoRecovery

LEMMA RecoverUndoShape ==
  ASSUME TypeInv, RecoverUndo
  PROVE  /\ \E b \in BOOLEAN : rec' = [rec EXCEPT !.at = @ + 1, !.failed = b]
         /\ UNCHANGED <<file, handler, crashes>>
         /\ Remove(RecoveryPlan[rec.at]) \/ UNCHANGED host
<1>1. rec.failed \in BOOLEAN
  BY DEF TypeInv, TypeOK
<1>2. (rec.failed \/ FALSE) \in BOOLEAN /\ (rec.failed \/ TRUE) \in BOOLEAN
  BY <1>1
<1> QED
  BY <1>2, Zenon DEF RecoverUndo, RemoveOrFail

LEMMA UndoStepShape ==
  ASSUME TypeInv, UndoStep
  PROVE  /\ pc = "undo" /\ at > 0 /\ at' = at - 1
         /\ UNCHANGED <<file, copy, pc, undoing, plan, rec, crashes>>
         /\ errs' \in BOOLEAN
         /\ Remove(Plan[at]) \/ UNCHANGED host
         /\ errs' = FALSE => errs = FALSE /\ (Plan[at] \notin plan \/ Remove(Plan[at]))
<1>1. errs \in BOOLEAN
  BY DEF TypeInv, TypeOK
<1> QED
  BY <1>1, Zenon DEF UndoStep, RemoveOrFail

LEMMA TypeInit == Init => TypeInv
<1> SUFFICES ASSUME Init PROVE TypeInv
  OBVIOUS
<1>1. host \in [Items -> {"none", "ours", "foreign"}]
  BY DEF Init
<1>2. rec \in Recovery /\ file \in Record /\ copy \in Record
  BY RecordTypes DEF Init
<1>3. rec.pc = "idle" /\ rec.found = {} /\ rec.copy = NoFile /\ rec.at = 0
      /\ rec.failed = FALSE
  BY DEF Init, NoRecovery
<1> QED
  <2>1. 0 \in 0 .. Len(Plan) /\ 0 \in 0 .. Len(RecoveryPlan) + 1 /\ 0 \in 0 .. MaxCrashes
    BY PlanFacts, RecoveryPlanFacts
  <2> QED
    BY <1>1, <1>2, <1>3, <2>1, RecordTypes DEF Init, TypeInv, TypeOK

LEMMA TypeCreateTx ==
  ASSUME TypeInv, CreateTx, overlapped' \in BOOLEAN PROVE TypeInv'
<1>1. file' \in Record /\ copy' \in Record
  BY RecordTypes, StatesInFile DEF TypeInv, TypeOK, CreateTx, MaybeSaved
<1> QED
  BY <1>1 DEF TypeInv, TypeOK, CreateTx, Continue

LEMMA TypeApplyStep ==
  ASSUME TypeInv, ApplyStep, overlapped' \in BOOLEAN PROVE TypeInv'
<1>1. pc = "apply" /\ at \in 0 .. 6 /\ Plan[at + 1] \in Items
  BY PlanFacts DEF TypeInv, TypeOK, ApplyStep
<1>2. host' \in [Items -> {"none", "ours", "foreign"}]
  BY <1>1 DEF TypeInv, TypeOK, ApplyStep, Add
<1>3. copy' \in Record
  <2>1. Reported(Plan[at + 1]) \subseteq Items
    BY <1>1 DEF Reported
  <2>2. copy' = copy \/ copy' = [copy EXCEPT !.steps = @ \cup Reported(Plan[at + 1])]
    BY DEF ApplyStep, StartUndo
  <2>3. PICK S \in SUBSET Items : copy' = copy \/ copy' = [copy EXCEPT !.steps = @ \cup S]
    BY <2>1, <2>2
  <2>4. copy \in Record
    BY DEF TypeInv, TypeOK
  <2> QED
    BY <2>3, <2>4, RecordTypes
<1>4. copy.steps \subseteq Items
  BY DEF TypeInv, TypeOK, Record
<1>5. CASE StartUndo("apply", "steps", copy.steps, copy)
  BY <1>1, <1>2, <1>3, <1>4, <1>5 DEF TypeInv, TypeOK, ApplyStep, StartUndo
<1>6. CASE /\ at' = (at + 1) % Len(Plan)
           /\ pc' = IF at + 1 = Len(Plan) THEN "record" ELSE "apply"
           /\ UNCHANGED <<file, undoing, plan, errs, rec, crashes>>
  <2>1. at' \in 0 .. 6
    BY <1>1, <1>6, PlanFacts
  <2> QED
    BY <1>1, <1>2, <1>3, <1>6, <2>1, PlanFacts DEF TypeInv, TypeOK
<1> QED
  BY <1>5, <1>6 DEF ApplyStep

LEMMA TypeConnecting ==
  ASSUME TypeInv, overlapped' \in BOOLEAN,
         RecordSteps \/ MoveToVerifying \/ Verify \/ StartProcesses \/ CommitTx \/ DisconnectTun
  PROVE  TypeInv'
<1>1. file' \in Record /\ copy' \in Record
  BY RecordTypes, StatesInFile DEF TypeInv, TypeOK, RecordSteps, MoveToVerifying, Verify,
     StartProcesses, CommitTx, DisconnectTun, MaybeSaved, Continue, StartUndo
<1>2. copy.steps \subseteq Items
  BY DEF TypeInv, TypeOK, Record
<1>3. UNCHANGED host
  BY DEF RecordSteps, MoveToVerifying, Verify, StartProcesses, CommitTx, DisconnectTun
<1>4. ASSUME NEW from, NEW to, Continue(from, to),
             to \in {"move", "verify", "failed", "processes", "commit", "connected"}
      PROVE  TypeInv'
  BY <1>1, <1>3, <1>4 DEF TypeInv, TypeOK, Continue
<1>5. ASSUME NEW from, NEW how \in {"steps", "plan", "record"}, NEW what \in SUBSET Items,
             NEW record, StartUndo(from, how, what, record)
      PROVE  TypeInv'
  BY <1>1, <1>3, <1>5 DEF TypeInv, TypeOK, StartUndo
<1>6. CASE RecordSteps \/ MoveToVerifying
  BY <1>6, <1>2, <1>4, <1>5 DEF RecordSteps, MoveToVerifying
<1>7. CASE Verify \/ StartProcesses
  BY <1>7, <1>2, <1>4, <1>5 DEF Verify, StartProcesses
<1>8. CASE CommitTx \/ DisconnectTun
  BY <1>8, <1>2, <1>4, <1>5 DEF CommitTx, DisconnectTun
<1> QED
  BY <1>6, <1>7, <1>8

LEMMA TypeBeginRollback ==
  ASSUME TypeInv, BeginRollback, overlapped' \in BOOLEAN PROVE TypeInv'
<1>1. file' \in Record /\ copy' \in Record
  BY RecordTypes, StatesInFile DEF TypeInv, TypeOK, BeginRollback, MaybeSaved, Continue
<1>2. UNCHANGED host
  BY DEF BeginRollback
<1>3. CASE Continue("rollback", "failed")
  BY <1>1, <1>2, <1>3 DEF TypeInv, TypeOK, Continue
<1>4. CASE /\ pc' = "undo" /\ at' = Len(Plan)
           /\ plan' \in {PlanFromRecord(file), PlanFromRecord(copy), plan}
           /\ errs' \in BOOLEAN /\ UNCHANGED <<undoing, rec, crashes>>
  <2>1. plan' \subseteq Items
    BY <1>4, PlanFacts DEF PlanFromRecord, TypeInv, TypeOK, Record
  <2> QED
    BY <1>1, <1>2, <1>4, <2>1, PlanFacts DEF TypeInv, TypeOK
<1>5. file \in Record /\ copy \in Record
  BY DEF TypeInv, TypeOK
<1> QED
  BY <1>3, <1>4, <1>5 DEF BeginRollback, Record

LEMMA TypeRollback ==
  ASSUME TypeInv, UndoStep \/ EndRollback \/ RemoveTxFile, overlapped' \in BOOLEAN
  PROVE  TypeInv'
<1>1. CASE UndoStep
  <2>1. host' \in [Items -> {"none", "ours", "foreign"}]
    BY <1>1, UndoStepShape, RemoveType DEF TypeInv, TypeOK
  <2>2. at' \in 0 .. 7
    <3>1. at \in 0 .. 7 /\ at > 0 /\ at' = at - 1
      BY <1>1, UndoStepShape, PlanFacts DEF TypeInv, TypeOK
    <3> QED
      BY <3>1
  <2> QED
    BY <1>1, <2>1, <2>2, UndoStepShape, PlanFacts DEF TypeInv, TypeOK
<1>2. CASE EndRollback \/ RemoveTxFile
  <2>1. file' \in Record /\ copy' \in Record /\ UNCHANGED host
    BY <1>2, RecordTypes, StatesInFile
       DEF TypeInv, TypeOK, EndRollback, RemoveTxFile, MaybeSaved
  <2> QED
    BY <1>2, <2>1 DEF TypeInv, TypeOK, EndRollback, RemoveTxFile, Continue
<1> QED
  BY <1>1, <1>2

LEMMA TypeCrash ==
  ASSUME TypeInv, Crash, overlapped' \in BOOLEAN PROVE TypeInv'
<1>1. file' \in Record /\ copy' \in Record /\ rec' \in Recovery /\ rec'.pc = "idle"
  BY RecordTypes DEF TypeInv, TypeOK, Crash, NoRecovery
<1>2. crashes' \in 0 .. MaxCrashes
  BY DEF TypeInv, TypeOK, Crash
<1>3. /\ rec'.found \in SUBSET Candidates /\ rec'.copy \in Record
      /\ rec'.at \in 0 .. Len(RecoveryPlan) + 1 /\ rec'.failed \in BOOLEAN
  BY <1>1, RecoveryPlanFacts DEF Recovery
<1>4. 0 \in 0 .. Len(Plan)
  BY PlanFacts
<1> QED
  BY <1>1, <1>2, <1>3, <1>4 DEF TypeInv, TypeOK, Crash

LEMMA TypeRecover ==
  ASSUME TypeInv, Recover, overlapped' \in BOOLEAN PROVE TypeInv'
<1>1. host' \in [Items -> {"none", "ours", "foreign"}]
  <2>1. \/ UNCHANGED host
        \/ \E x : Remove(x)
    BY RecoverUndoShape DEF Recover, Scan, RecoverTx, ForgetTx, RecoverFound, RemoveOrFail
  <2> QED
    BY <2>1, RemoveType DEF TypeInv, TypeOK
<1>2. file' \in Record
  BY RecordTypes DEF TypeInv, TypeOK, Recover, Scan, RecoverTx, RecoverUndo, ForgetTx,
     RecoverFound
<1>3. UNCHANGED <<handler, crashes>>
  BY DEF Recover, Scan, RecoverTx, RecoverUndo, ForgetTx, RecoverFound, RecoverStep
<1>4. rec' \in Recovery /\ (rec'.pc = "undo" => rec'.at >= 1)
  <2>1. CASE Scan
    <3>1. PICK found \in SUBSET Candidates :
            rec' = [pc |-> "tx", found |-> found, copy |-> NoFile, at |-> 0,
                    failed |-> FALSE]
      BY <2>1, ScanShape
    <3>2. NoFile \in Record
      BY RecordTypes
    <3> QED
      BY <3>1, <3>2 DEF Recovery
  <2>2. CASE RecoverTx
    <3>1. \/ rec' = [rec EXCEPT !.pc = "undo", !.at = 1, !.copy = file]
          \/ rec' = [rec EXCEPT !.pc = "table"]
      BY <2>2 DEF RecoverTx
    <3>2. rec \in Recovery /\ file \in Record
      BY DEF TypeInv, TypeOK
    <3>3. CASE rec' = [rec EXCEPT !.pc = "undo", !.at = 1, !.copy = file]
      <4>1. rec' \in Recovery
        BY <3>2, <3>3, RecoverySets
      <4> QED
        BY <4>1, <3>3 DEF Recovery
    <3>4. CASE rec' = [rec EXCEPT !.pc = "table"]
      BY <3>2, <3>4 DEF Recovery
    <3> QED
      BY <3>1, <3>3, <3>4
  <2>3. CASE RecoverUndo
    <3>1. PICK b \in BOOLEAN : rec' = [rec EXCEPT !.at = @ + 1, !.failed = b]
      BY <2>3, RecoverUndoShape
    <3>2. rec \in Recovery /\ rec.at >= 1 /\ rec.at <= 6 /\ rec.pc = "undo"
      BY <2>3, RecoverUndoShape, RecoveryPlanFacts DEF TypeInv, RecoverUndo
    <3>3. rec.at + 1 \in 0 .. 7 /\ rec.at + 1 >= 1
      BY <3>2 DEF Recovery
    <3>4. PICK n \in 0 .. 7 : n >= 1 /\ rec' = [rec EXCEPT !.at = n, !.failed = b]
      BY <3>1, <3>3
    <3> QED
      BY <3>2, <3>4 DEF Recovery
  <2>4. CASE ForgetTx \/ RecoverFound("table", "link") \/ RecoverFound("link", "done")
    BY <2>4 DEF ForgetTx, RecoverFound, RecoverStep, TypeInv, TypeOK, Recovery
  <2> QED
    BY <2>1, <2>2, <2>3, <2>4 DEF Recover
<1>5. /\ rec'.pc \in {"idle", "tx", "undo", "table", "link", "done"}
      /\ rec'.found \in SUBSET Candidates /\ rec'.copy \in Record
      /\ rec'.at \in 0 .. Len(RecoveryPlan) + 1 /\ rec'.failed \in BOOLEAN
  BY <1>4, RecoveryPlanFacts DEF Recovery
<1> QED
  BY <1>1, <1>2, <1>3, <1>4, <1>5 DEF TypeInv, TypeOK, handler

LEMMA TypeNext == TypeInv /\ [Next]_vars => TypeInv'
<1> SUFFICES ASSUME TypeInv, [Next]_vars PROVE TypeInv'
  OBVIOUS
<1>1. CASE UNCHANGED vars
  BY <1>1 DEF TypeInv, TypeOK, vars, handler
<1>2. CASE Next
  <2>1. overlapped' \in BOOLEAN
    BY <1>2 DEF Next, TypeInv, TypeOK, Served, Recovering
  <2> QED
    BY <1>2, <2>1, TypeCreateTx, TypeApplyStep, TypeConnecting, TypeBeginRollback,
       TypeRollback, TypeCrash, TypeRecover DEF Next, Handle
<1> QED
  BY <1>1, <1>2

\* Every variable keeps its type, and the handler and recovery stay within
\* their plans.
THEOREM TypeCorrect == Spec => []TypeOK
<1>1. TypeInv => TypeOK
  BY DEF TypeInv
<1> QED
  BY <1>1, TypeInit, TypeNext, PTL DEF Spec

-----------------------------------------------------------------------------
(* How a step moves things between host, file, copy and plan.              *)

\* Every action but ApplyStep removes things from the host or leaves it alone,
\* and none makes a foreign thing of one that was not.
Others == \/ CreateTx \/ RecordSteps \/ MoveToVerifying \/ Verify \/ StartProcesses
          \/ CommitTx \/ DisconnectTun \/ BeginRollback \/ UndoStep \/ EndRollback
          \/ RemoveTxFile \/ Recover \/ Crash

LEMMA HostShrinks ==
  ASSUME TypeInv, Others \/ UNCHANGED host PROVE Shrinks /\ Ours' \subseteq Ours
<1>1. UNCHANGED host \/ \E x : Remove(x)
  BY UndoStepShape, RecoverUndoShape DEF Others, CreateTx, RecordSteps, MoveToVerifying, Verify,
     StartProcesses, CommitTx, DisconnectTun, BeginRollback, EndRollback, RemoveTxFile,
     Crash, Recover, Scan, RecoverTx, ForgetTx, RecoverFound, RemoveOrFail
<1>2. Shrinks
  BY <1>1, RemoveType DEF Shrinks, TypeInv, TypeOK
<1> QED
  BY <1>2 DEF Shrinks, Ours

LEMMA HostGrows ==
  ASSUME TypeInv, ApplyStep
  PROVE  /\ at + 1 \in 1 .. 7 /\ Plan[at + 1] \in Items
         /\ \/ UNCHANGED host
            \/ /\ host[Plan[at + 1]] = "none"
               /\ host' = [host EXCEPT ![Plan[at + 1]] = "ours"]
               /\ Ours' = Ours \cup {Plan[at + 1]}
<1>1. at + 1 \in 1 .. 7 /\ Plan[at + 1] \in Items
  BY PlanFacts DEF TypeInv, TypeOK, ApplyStep
<1> QED
  BY <1>1 DEF ApplyStep, Add, TypeInv, TypeOK, Ours

LEMMA NothingBecomesForeign ==
  ASSUME TypeInv, [Next]_vars
  PROVE  \A x \in Items : host'[x] = "foreign" => host[x] = "foreign"
<1>1. CASE Others \/ UNCHANGED host
  BY <1>1, HostShrinks DEF Shrinks
<1>2. CASE ApplyStep
  BY <1>2, HostGrows DEF TypeInv, TypeOK
<1> QED
  BY <1>1, <1>2 DEF Next, Handle, Others, vars

LEMMA InKeeps ==
  \A r \in Record : \A t : In(r, t).steps = r.steps /\ In(r, t).state = t
                           /\ In(r, t).children = r.children
BY DEF In, Record

\* The steps in a record come from the file, the copy, or what was applied.
LEMMA FileFlow ==
  ASSUME TypeInv, Next PROVE file'.steps \in {file.steps, copy.steps, {}}
<1>1. file \in Record /\ copy \in Record /\ NoFile \in Record /\ NoFile.steps = {}
  BY RecordTypes DEF TypeInv, TypeOK, NoFile
<1>2. CASE CreateTx \/ ApplyStep \/ RecordSteps \/ MoveToVerifying
  BY <1>1, <1>2, InKeeps DEF CreateTx, ApplyStep, RecordSteps, MoveToVerifying, MaybeSaved
<1>3. CASE Verify \/ StartProcesses \/ CommitTx \/ DisconnectTun
  <2>1. [file EXCEPT !.children = TRUE].steps = file.steps
    BY <1>1 DEF Record
  <2> QED
    <3>1. CASE Verify \/ DisconnectTun
      BY <3>1 DEF Verify, DisconnectTun
    <3>2. CASE StartProcesses
      BY <2>1, <3>2, Zenon DEF StartProcesses, MaybeSaved
    <3>3. CASE CommitTx
      BY <1>1, <3>3, InKeeps DEF CommitTx, MaybeSaved
    <3> QED
      BY <1>3, <3>1, <3>2, <3>3
<1>4. CASE BeginRollback \/ UndoStep \/ EndRollback \/ RemoveTxFile
  <2>1. CASE BeginRollback
    <3>1. file' \in {file, copy} \/ \E r \in {file, copy} : \E t \in FileStates : file' = In(r, t)
      BY <2>1, StatesInFile DEF BeginRollback, MaybeSaved
    <3> QED
      BY <1>1, <3>1, InKeeps
  <2>2. CASE UndoStep \/ RemoveTxFile
    BY <1>1, <2>2 DEF UndoStep, RemoveTxFile
  <2>3. CASE EndRollback
    <3>1. file' = file \/ \E t \in FileStates : file' = In(copy, t)
      BY <2>3, StatesInFile DEF EndRollback, MaybeSaved
    <3> QED
      BY <1>1, <3>1, InKeeps
  <2> QED
    BY <1>4, <2>1, <2>2, <2>3
<1>5. CASE Recover \/ Crash
  BY <1>1, <1>5 DEF Recover, Scan, RecoverTx, RecoverUndo, ForgetTx, RecoverFound, Crash
<1> QED
  BY <1>2, <1>3, <1>4, <1>5 DEF Next, Handle

LEMMA CopyFlow ==
  ASSUME TypeInv, Next
  PROVE  \/ copy'.steps \in {copy.steps, file.steps, {}}
         \/ /\ ApplyStep /\ host[Plan[at + 1]] = "none" /\ Add(Plan[at + 1])
            /\ copy'.steps = copy.steps \cup {Plan[at + 1]}
<1>1. file \in Record /\ copy \in Record /\ NoFile \in Record /\ NoFile.steps = {}
  BY RecordTypes DEF TypeInv, TypeOK, NoFile
<1>2. CASE CreateTx \/ RecordSteps \/ MoveToVerifying \/ Verify \/ StartProcesses
           \/ CommitTx \/ DisconnectTun
  BY <1>1, <1>2, InKeeps DEF CreateTx, RecordSteps, MoveToVerifying, Verify, StartProcesses,
     CommitTx, DisconnectTun, StartUndo
<1>3. CASE ApplyStep
  <2>1. CASE copy' = [copy EXCEPT !.steps = @ \cup Reported(Plan[at + 1])]
    <3>1. copy'.steps = copy.steps \cup Reported(Plan[at + 1])
      BY <1>1, <2>1 DEF Record
    <3> QED
      BY <1>3, <2>1, <3>1 DEF ApplyStep, Reported, StartUndo
  <2> QED
    BY <1>3, <2>1 DEF ApplyStep, StartUndo
<1>4. CASE BeginRollback \/ UndoStep \/ EndRollback \/ RemoveTxFile
  <2>1. copy' = copy \/ \E r \in {file, copy} : \E t \in FileStates : copy' = In(r, t)
    BY <1>4, StatesInFile DEF BeginRollback, UndoStep, EndRollback, RemoveTxFile
  <2> QED
    BY <1>1, <2>1, InKeeps
<1>5. CASE Recover \/ Crash
  BY <1>1, <1>5 DEF Recover, Scan, RecoverTx, RecoverUndo, ForgetTx, RecoverFound,
     RecoverStep, handler, Crash
<1> QED
  BY <1>2, <1>3, <1>4, <1>5 DEF Next, Handle

LEMMA RecoveryFlow ==
  ASSUME TypeInv, Next PROVE rec'.copy.steps \in {rec.copy.steps, file.steps, {}}
<1>1. rec \in Recovery /\ NoFile.steps = {}
  BY DEF TypeInv, NoFile
<1>2. CASE Handle
  BY <1>2 DEF Handle, CreateTx, ApplyStep, RecordSteps, MoveToVerifying, Verify,
     StartProcesses, CommitTx, DisconnectTun, BeginRollback, UndoStep, EndRollback,
     RemoveTxFile, Continue, StartUndo
<1>3. CASE Scan
  BY <1>1, <1>3, ScanShape
<1>4. CASE RecoverTx
  BY <1>1, <1>4 DEF RecoverTx, Recovery
<1>5. CASE RecoverUndo
  BY <1>1, <1>5, RecoverUndoShape DEF Recovery
<1>6. CASE ForgetTx \/ RecoverFound("table", "link") \/ RecoverFound("link", "done")
  BY <1>1, <1>6 DEF ForgetTx, RecoverFound, RecoverStep, Recovery
<1>7. CASE Crash
  BY <1>1, <1>7 DEF Crash, NoRecovery
<1> QED
  BY <1>2, <1>3, <1>4, <1>5, <1>6, <1>7 DEF Next, Recover

LEMMA PlanFlow ==
  ASSUME TypeInv, Next
  PROVE  \/ undoing' = "plan"
         \/ plan' \in {copy.steps, {}, PlanFromRecord(file)}
         \/ plan' = plan /\ undoing' = undoing
<1>1. CASE CreateTx \/ ApplyStep \/ RecordSteps \/ MoveToVerifying \/ Verify \/ StartProcesses
           \/ CommitTx \/ DisconnectTun
  BY <1>1 DEF CreateTx, ApplyStep, RecordSteps, MoveToVerifying, Verify, StartProcesses,
     CommitTx, DisconnectTun, StartUndo, Continue
<1>2. CASE BeginRollback \/ UndoStep \/ EndRollback \/ RemoveTxFile
  BY <1>2 DEF BeginRollback, UndoStep, EndRollback, RemoveTxFile, Continue
<1>3. CASE Recover \/ Crash
  BY <1>3 DEF Recover, Scan, RecoverTx, RecoverUndo, ForgetTx, RecoverFound, RecoverStep,
     handler, Crash
<1> QED
  BY <1>1, <1>2, <1>3 DEF Next, Handle

-----------------------------------------------------------------------------
(* What was there before.                                                  *)

\* None of S was there before the connect.
Clear(S) == \A x \in S : host[x] # "foreign"

\* Whatever a rollback or recovery may be told to undo, the plan of the runner
\* excepted, was not there before.
ForeignInv ==
  /\ Clear(Items \ Foreign)
  /\ Clear(file.steps) /\ Clear(copy.steps) /\ Clear(rec.copy.steps)
  /\ undoing # "plan" => Clear(plan)

LEMMA ForeignInit == Init => ForeignInv
<1> SUFFICES ASSUME Init PROVE ForeignInv
  OBVIOUS
<1>1. \A x \in Items \ Foreign : host[x] = "none"
  BY DEF Init
<1>2. file.steps = {} /\ copy.steps = {} /\ rec.copy.steps = {} /\ plan = {}
  BY DEF Init, NoFile, NoRecovery
<1> QED
  BY <1>1, <1>2 DEF ForeignInv, Clear

LEMMA ForeignNext == TypeInv /\ ForeignInv /\ [Next]_vars => ForeignInv'
<1> SUFFICES ASSUME TypeInv, ForeignInv, [Next]_vars PROVE ForeignInv'
  OBVIOUS
<1>1. ASSUME NEW S \in SUBSET Items, Clear(S) PROVE \A x \in S : host'[x] # "foreign"
  BY <1>1, NothingBecomesForeign DEF Clear
<1>2. /\ file.steps \in SUBSET Items /\ copy.steps \in SUBSET Items
      /\ rec.copy.steps \in SUBSET Items /\ plan \in SUBSET Items
      /\ Items \ Foreign \in SUBSET Items
  BY DEF TypeInv, TypeOK, Record, Recovery
<1>3. CASE UNCHANGED vars
  BY <1>3 DEF ForeignInv, Clear, vars, handler
<1>4. CASE Next
  <2>1. Clear(Items \ Foreign)'
    BY <1>1, <1>2 DEF ForeignInv, Clear
  <2>2. Clear(file.steps)'
    BY <1>1, <1>2, <1>4, FileFlow DEF ForeignInv, Clear
  <2>3. Clear(copy.steps)'
    <3>1. CASE copy'.steps \in {copy.steps, file.steps, {}}
      BY <1>1, <1>2, <3>1 DEF ForeignInv, Clear
    <3>2. CASE /\ ApplyStep /\ host[Plan[at + 1]] = "none" /\ Add(Plan[at + 1])
               /\ copy'.steps = copy.steps \cup {Plan[at + 1]}
      <4>1. host'[Plan[at + 1]] # "foreign"
        BY <3>2, HostGrows, NothingBecomesForeign
      <4> QED
        BY <1>1, <1>2, <3>2, <4>1 DEF ForeignInv, Clear
    <3> QED
      BY <1>4, <3>1, <3>2, CopyFlow
  <2>4. Clear(rec.copy.steps)'
    BY <1>1, <1>2, <1>4, RecoveryFlow DEF ForeignInv, Clear
  <2>5. ASSUME undoing' # "plan" PROVE Clear(plan)'
    <3>1. Clear(PlanFromRecord(file)) /\ PlanFromRecord(file) \in SUBSET Items
      BY <1>2, PlanFacts DEF ForeignInv, Clear, PlanFromRecord
    <3> QED
      BY <1>1, <1>2, <1>4, <2>5, <3>1, PlanFlow DEF ForeignInv, Clear
  <2> QED
    BY <2>1, <2>2, <2>3, <2>4, <2>5 DEF ForeignInv
<1> QED
  BY <1>3, <1>4

\* Nothing that was there before the connect is deleted by a disconnect, by the
\* rollback of recorded steps (rollbackPlanFromAppliedSteps) or by recovery:
\* only by a rollback of the runner's whole plan.
THEOREM ForeignKept == Spec => ForeignOutlivesRecords
<1>1. ASSUME TypeInv, ForeignInv, [Next]_vars, NEW x \in Items,
             host[x] = "foreign", host'[x] # "foreign"
      PROVE  pc = "undo" /\ undoing = "plan"
  <2>1. x \in Foreign
    BY <1>1 DEF ForeignInv, Clear
  <2>2. x \in {"bypassRoute", "bypassRule", "tableRule"}
    BY <2>1
  <2>3. ASSUME NEW y, Remove(y) PROVE x = y
    BY <1>1, <2>2, <2>3 DEF Remove
  <2>4. CASE UndoStep
    <3>1. pc = "undo" /\ Remove(Plan[at]) /\ Plan[at] \in plan
      BY <1>1, <2>4 DEF UndoStep, RemoveOrFail
    <3> QED
      BY <1>1, <2>3, <3>1 DEF ForeignInv, Clear
  <2>5. CASE RecoverUndo
    <3>1. Remove(RecoveryPlan[rec.at]) /\ RecoveryPlan[rec.at] \in rec.copy.steps
      BY <1>1, <2>5 DEF RecoverUndo, RemoveOrFail
    <3> QED
      BY <1>1, <2>3, <3>1 DEF ForeignInv, Clear
  <2>6. CASE RecoverFound("table", "link") \/ RecoverFound("link", "done")
    <3>1. Remove("table") \/ Remove("link")
      BY <1>1, <2>6 DEF RecoverFound, RemoveOrFail
    <3> QED
      BY <2>2, <2>3, <3>1
  <2>7. CASE ApplyStep
    BY <1>1, <2>7, HostGrows DEF TypeInv, TypeOK
  <2>8. CASE \/ CreateTx \/ RecordSteps \/ MoveToVerifying \/ Verify \/ StartProcesses
             \/ CommitTx \/ DisconnectTun \/ BeginRollback \/ EndRollback \/ RemoveTxFile
             \/ Scan \/ RecoverTx \/ ForgetTx \/ Crash \/ UNCHANGED vars
    <3>1. UNCHANGED host
      BY <2>8 DEF CreateTx, RecordSteps, MoveToVerifying, Verify, StartProcesses, CommitTx,
         DisconnectTun, BeginRollback, EndRollback, RemoveTxFile, Scan, RecoverTx, ForgetTx,
         Crash, vars
    <3> QED
      BY <1>1, <3>1
  <2> QED
    BY <1>1, <2>4, <2>5, <2>6, <2>7, <2>8 DEF Next, Handle, Recover
<1>2. TypeInv /\ ForeignInv /\ [Next]_vars =>
        [\A x \in Items : host[x] = "foreign" /\ host'[x] # "foreign" =>
           pc = "undo" /\ undoing = "plan"]_vars
  BY <1>1
<1> QED
  BY <1>2, TypeInit, TypeNext, ForeignInit, ForeignNext, PTL DEF Spec, ForeignOutlivesRecords

-----------------------------------------------------------------------------
(* How the file and the copy follow the stages of a connect.               *)

Stages == {"apply", "record", "move", "verify", "processes", "commit", "connected"}

\* The states a file may have when the handler is at p; recovery may have
\* removed it in the meantime.
FileAt(p) == CASE p = "idle"                              -> {"absent"}
               [] p \in {"apply", "record", "move"}       -> {"absent", "applying"}
               [] p \in {"verify", "processes", "commit"} -> {"absent", "verifying"}
               [] p = "connected"                         -> {"absent", "committed"}
               [] p = "undo"                              -> {"absent", "rolling_back"}
               [] OTHER                                   -> FileStates
FileUndone(how) == CASE how = "steps"  -> {"absent", "applying", "applied", "verifying"}
                     [] how = "plan"   -> {"absent", "verifying", "committed"}
                     [] how = "record" -> {"absent", "committed"}
                     [] OTHER          -> {}

\* As long as a connect gets on its copy names all it has on the host, and so
\* does the file once it was saved.
StageInv ==
  /\ file.state \in FileAt(pc)
  /\ pc = "rollback" => file.state \in FileUndone(undoing)
  /\ pc = "idle" => Ours = {}
  /\ pc \in Stages => Ours \subseteq copy.steps
  /\ pc \in Stages \ {"apply", "record"} /\ file.state # "absent" => file.steps = copy.steps
  /\ pc \in {"apply", "record", "move"} => copy.state = "applying"
  /\ pc = "verify" => copy.state = "verifying"
  /\ pc = "rollback" /\ undoing = "steps" => copy.state \in {"applying", "verifying"}
  /\ pc = "undo" => copy.state = "rolling_back"
  /\ file.state = "committed" => Ours \subseteq file.steps

LEMMA StageInit == Init => StageInv
<1> SUFFICES ASSUME Init PROVE StageInv
  OBVIOUS
<1>1. file.state = "absent" /\ pc = "idle" /\ Ours = {}
  BY DEF Init, NoFile, Ours
<1> QED
  BY <1>1 DEF StageInv, FileAt, FileUndone, Stages

LEMMA AbsentFile == NoFile.state = "absent" /\ NoFile.steps = {}
BY DEF NoFile

\* A step that leaves the handler where it is.
LEMMA StageLoss ==
  ASSUME StageInv, UNCHANGED <<pc, copy, undoing>>, file' \in {file, NoFile},
         Ours' \subseteq Ours
  PROVE  StageInv'
BY AbsentFile DEF StageInv, FileAt, FileUndone, Stages, FileStates

LEMMA StageCreateTx ==
  ASSUME TypeInv, StageInv, CreateTx PROVE StageInv'
<1>1. Ours' \subseteq {} /\ pc = "idle"
  BY HostShrinks DEF StageInv, CreateTx, Continue, Others
<1>2. NoFile \in Record /\ file \in Record
  BY RecordTypes DEF TypeInv, TypeOK
<1>3. CASE pc' = "apply" /\ file' = In(NoFile, "applying") /\ copy' = file'
  <2>1. file'.state = "applying" /\ file'.steps = {}
    BY <1>2, <1>3, InKeeps, AbsentFile
  <2> QED
    BY <1>1, <1>3, <2>1 DEF StageInv, FileAt, FileUndone, Stages
<1>4. CASE pc' = "failed"
  <2>1. file'.state \in FileStates
    BY <1>2, <1>4, InKeeps, StatesInFile DEF CreateTx, MaybeSaved, Continue, Record
  <2> QED
    BY <1>1, <1>4, <2>1 DEF StageInv, FileAt, FileUndone, Stages
<1> QED
  BY <1>3, <1>4 DEF CreateTx, Continue

LEMMA StageApplyStep ==
  ASSUME TypeInv, StageInv, ApplyStep PROVE StageInv'
<1>1. pc = "apply" /\ UNCHANGED file /\ copy.state = "applying"
      /\ file.state \in {"absent", "applying"} /\ Ours \subseteq copy.steps
  BY DEF ApplyStep, StageInv, FileAt, Stages
<1>2. copy \in Record
  BY DEF TypeInv, TypeOK
<1>3. CASE StartUndo("apply", "steps", copy.steps, copy)
  BY <1>1, <1>3 DEF StageInv, StartUndo, FileAt, FileUndone, Stages, FileStates, TxStates
<1>4. CASE /\ pc' \in {"apply", "record"}
           /\ copy' = [copy EXCEPT !.steps = @ \cup Reported(Plan[at + 1])]
           /\ UNCHANGED undoing
           /\ \/ host[Plan[at + 1]] = "none" /\ Add(Plan[at + 1])
              \/ UNCHANGED host
  <2>1. copy'.state = copy.state /\ copy'.steps = copy.steps \cup Reported(Plan[at + 1])
    BY <1>2, <1>4 DEF Record
  <2>2. Ours' \subseteq copy'.steps
    <3>1. CASE UNCHANGED host
      BY <1>1, <2>1, <3>1 DEF Ours
    <3>2. CASE host[Plan[at + 1]] = "none" /\ Add(Plan[at + 1])
      BY <1>1, <2>1, <3>2, HostGrows DEF Reported, Ours
    <3> QED
      BY <1>4, <3>1, <3>2
  <2> QED
    BY <1>1, <1>4, <2>1, <2>2 DEF StageInv, FileAt, FileUndone, Stages
<1> QED
  BY <1>3, <1>4 DEF ApplyStep

LEMMA StageRecordSteps ==
  ASSUME TypeInv, StageInv, RecordSteps PROVE StageInv'
<1>1. /\ pc = "record" /\ UNCHANGED copy /\ copy.state = "applying" /\ Ours' = Ours
      /\ file.state \in {"absent", "applying"} /\ Ours \subseteq copy.steps
  BY DEF RecordSteps, Continue, StartUndo, StageInv, FileAt, Stages, Ours
<1>2. CASE pc' = "move" /\ file' = copy /\ UNCHANGED undoing
  BY <1>1, <1>2 DEF StageInv, FileAt, FileUndone, Stages
<1>3. CASE pc' = "rollback" /\ undoing' = "steps" /\ file' \in {file, copy}
  BY <1>1, <1>3 DEF StageInv, FileAt, FileUndone, Stages, FileStates, TxStates
<1> QED
  BY <1>2, <1>3 DEF RecordSteps, MaybeSaved, Continue, StartUndo

LEMMA StageMoveToVerifying ==
  ASSUME TypeInv, StageInv, MoveToVerifying PROVE StageInv'
<1>1. /\ pc = "move" /\ copy.state = "applying" /\ Ours' = Ours
      /\ file.state \in {"absent", "applying"} /\ Ours \subseteq copy.steps
      /\ file.state # "absent" => file.steps = copy.steps
  BY DEF MoveToVerifying, Continue, StartUndo, StageInv, FileAt, Stages, Ours
<1>2. file \in Record
  BY DEF TypeInv, TypeOK
<1>3. CASE /\ pc' = "verify" /\ file.state = "applying" /\ UNCHANGED undoing
           /\ file' = In(file, "verifying") /\ copy' = file'
  <2>1. file'.state = "verifying" /\ file'.steps = copy.steps
    BY <1>1, <1>2, <1>3, InKeeps
  <2> QED
    BY <1>1, <1>3, <2>1 DEF StageInv, FileAt, FileUndone, Stages
<1>4. CASE /\ pc' = "rollback" /\ undoing' = "steps" /\ UNCHANGED copy
           /\ file' \in {file, In(file, "applied"), In(file, "verifying")}
  <2>1. file'.state \in {"absent", "applying", "applied", "verifying"}
    BY <1>1, <1>2, <1>4, InKeeps
  <2> QED
    BY <1>1, <1>4, <2>1 DEF StageInv, FileAt, FileUndone, Stages, FileStates, TxStates
<1>5. CASE pc' = "failed" /\ file' = In(file, "verifying")
  <2>1. file'.state = "verifying"
    BY <1>2, <1>5, InKeeps
  <2> QED
    BY <1>1, <1>5, <2>1 DEF StageInv, FileAt, FileUndone, Stages, FileStates, TxStates
<1> QED
  BY <1>3, <1>4, <1>5 DEF MoveToVerifying, MaybeSaved, Continue, StartUndo

LEMMA StageVerify ==
  ASSUME TypeInv, StageInv, Verify PROVE StageInv'
<1>1. /\ pc = "verify" /\ Ours' = Ours /\ UNCHANGED <<file, copy>>
      /\ copy.state = "verifying"
      /\ file.state \in {"absent", "verifying"} /\ Ours \subseteq copy.steps
      /\ file.state # "absent" => file.steps = copy.steps
  BY DEF Verify, Continue, StartUndo, StageInv, FileAt, Stages, Ours
<1>2. CASE pc' = "processes" /\ UNCHANGED undoing
  BY <1>1, <1>2 DEF StageInv, FileAt, FileUndone, Stages
<1>3. CASE pc' = "rollback" /\ undoing' = "steps"
  BY <1>1, <1>3 DEF StageInv, FileAt, FileUndone, Stages, FileStates, TxStates
<1> QED
  BY <1>2, <1>3 DEF Verify, Continue, StartUndo

LEMMA StageStartProcesses ==
  ASSUME TypeInv, StageInv, StartProcesses PROVE StageInv'
<1>1. /\ pc = "processes" /\ Ours' = Ours /\ UNCHANGED copy
      /\ file.state \in {"absent", "verifying"} /\ Ours \subseteq copy.steps
      /\ file.state # "absent" => file.steps = copy.steps
  BY DEF StartProcesses, Continue, StartUndo, StageInv, FileAt, Stages, Ours
<1>2. file' \in {file, [file EXCEPT !.children = TRUE]}
  BY DEF StartProcesses, MaybeSaved
<1>3. file'.state = file.state /\ file'.steps = file.steps
  BY <1>2 DEF TypeInv, TypeOK, Record
<1>4. CASE pc' = "commit" /\ UNCHANGED undoing
  BY <1>1, <1>3, <1>4 DEF StageInv, FileAt, FileUndone, Stages
<1>5. CASE pc' = "rollback" /\ undoing' = "plan"
  BY <1>1, <1>3, <1>5 DEF StageInv, FileAt, FileUndone, Stages, FileStates, TxStates
<1> QED
  BY <1>4, <1>5 DEF StartProcesses, Continue, StartUndo

LEMMA StageCommitTx ==
  ASSUME TypeInv, StageInv, CommitTx PROVE StageInv'
<1>1. /\ pc = "commit" /\ Ours' = Ours /\ UNCHANGED copy
      /\ file.state \in {"absent", "verifying"} /\ Ours \subseteq copy.steps
      /\ file.state # "absent" => file.steps = copy.steps
  BY DEF CommitTx, Continue, StartUndo, StageInv, FileAt, Stages, Ours
<1>2. file \in Record /\ ~ValidTransition("absent", "committed")
  BY DEF TypeInv, TypeOK, ValidTransition, TxStates
<1>3. CASE /\ pc' = "connected" /\ UNCHANGED undoing /\ file.state = "verifying"
           /\ file' = In(file, "committed")
  <2>1. file'.state = "committed" /\ file'.steps = copy.steps
    BY <1>1, <1>2, <1>3, InKeeps
  <2> QED
    BY <1>1, <1>3, <2>1 DEF StageInv, FileAt, FileUndone, Stages
<1>4. CASE /\ pc' = "rollback" /\ undoing' = "plan"
           /\ \/ UNCHANGED file
              \/ file' = In(file, "committed") /\ file.state = "verifying"
  <2>1. /\ file'.state \in {"absent", "verifying", "committed"}
        /\ file'.state = "committed" => file'.steps = copy.steps
    BY <1>1, <1>2, <1>4, InKeeps
  <2> QED
    BY <1>1, <1>4, <2>1 DEF StageInv, FileAt, FileUndone, Stages, FileStates, TxStates
<1> QED
  BY <1>1, <1>2, <1>3, <1>4 DEF CommitTx, MaybeSaved, Continue, StartUndo

LEMMA StageDisconnectTun ==
  ASSUME TypeInv, StageInv, DisconnectTun PROVE StageInv'
<1>1. /\ pc = "connected" /\ Ours' = Ours /\ UNCHANGED <<file, copy>>
      /\ pc' = "rollback" /\ undoing' = "record" /\ file.state \in {"absent", "committed"}
  BY DEF DisconnectTun, StartUndo, StageInv, FileAt, Ours
<1> QED
  BY <1>1 DEF StageInv, FileAt, FileUndone, Stages, FileStates, TxStates

\* Nothing but a commit makes a file committed.
LEMMA StageAfter ==
  ASSUME TypeInv, StageInv, Ours' \subseteq Ours, file'.state \in FileStates,
         pc' \in {"failed", "remove", "done", "restarted"},
         file'.state = "committed" => file' = file
  PROVE  StageInv'
BY DEF StageInv, FileAt, FileUndone, Stages

LEMMA StageBeginRollback ==
  ASSUME TypeInv, StageInv, BeginRollback PROVE StageInv'
<1>1. /\ pc = "rollback" /\ Ours' \subseteq Ours /\ file \in Record /\ copy \in Record
      /\ undoing = "steps" => copy.state \in {"applying", "verifying"}
  BY DEF BeginRollback, Continue, StageInv, Ours, TypeInv, TypeOK
<1>2. CASE /\ pc' = "undo" /\ copy' = file' /\ UNCHANGED undoing
           /\ \E r \in {file, copy} : file' = In(r, "rolling_back")
  <2>1. file'.state = "rolling_back"
    BY <1>1, <1>2, InKeeps
  <2> QED
    BY <1>1, <1>2, <2>1 DEF StageInv, FileAt, FileUndone, Stages
<1>3. CASE /\ pc' = "failed"
           /\ \/ file' = file
              \/ file' = copy /\ undoing = "steps"
              \/ \E r \in {file, copy} : \E t \in {"failed", "rolling_back"} : file' = In(r, t)
  <2>1. file'.state \in FileStates /\ (file'.state = "committed" => file' = file)
    BY <1>1, <1>3, InKeeps, StatesInFile DEF Record
  <2> QED
    BY <1>1, <1>3, <2>1, StageAfter
<1> QED
  BY <1>2, <1>3 DEF BeginRollback, MaybeSaved, Continue

LEMMA StageRollback ==
  ASSUME TypeInv, StageInv, UndoStep \/ EndRollback \/ RemoveTxFile PROVE StageInv'
<1>1. Ours' \subseteq Ours /\ file \in Record /\ copy \in Record /\ file.state \in FileStates
  BY HostShrinks DEF TypeInv, TypeOK, Record, Others
<1>2. CASE UndoStep
  BY <1>1, <1>2, UndoStepShape, StageLoss
<1>3. CASE EndRollback
  <2>1. pc' \in {"failed", "remove"}
        /\ (file' = file \/ \E t \in {"failed", "rolled_back"} : file' = In(copy, t))
    BY <1>3 DEF EndRollback, MaybeSaved, Continue
  <2>2. file'.state \in FileStates /\ (file'.state = "committed" => file' = file)
    BY <1>1, <2>1, InKeeps, StatesInFile
  <2> QED
    BY <1>1, <2>1, <2>2, StageAfter
<1>4. CASE RemoveTxFile
  <2>1. pc' \in {"failed", "done"} /\ file' \in {file, NoFile}
    BY <1>4 DEF RemoveTxFile, Continue
  <2>2. file'.state \in FileStates /\ (file'.state = "committed" => file' = file)
    BY <1>1, <2>1, AbsentFile, StatesInFile
  <2> QED
    BY <1>1, <2>1, <2>2, StageAfter
<1> QED
  BY <1>2, <1>3, <1>4

LEMMA StageRecover ==
  ASSUME TypeInv, StageInv, Recover PROVE StageInv'
<1>1. Ours' \subseteq Ours
  BY HostShrinks DEF Others
<1>2. UNCHANGED handler /\ file' \in {file, NoFile}
  BY DEF Recover, Scan, RecoverTx, RecoverUndo, ForgetTx, RecoverFound, RecoverStep
<1> QED
  BY <1>1, <1>2, StageLoss DEF handler

LEMMA StageCrash ==
  ASSUME TypeInv, StageInv, Crash PROVE StageInv'
<1>1. Ours' \subseteq Ours /\ pc' = "restarted" /\ file' \in {file, NoFile}
  BY HostShrinks DEF Others, Crash
<1>2. file.state \in FileStates
  BY DEF TypeInv, TypeOK, Record
<1>3. file'.state \in FileStates /\ (file'.state = "committed" => file' = file)
  BY <1>1, <1>2, AbsentFile, StatesInFile
<1> QED
  BY <1>1, <1>3, StageAfter

LEMMA StageNext == TypeInv /\ StageInv /\ [Next]_vars => StageInv'
<1>1. ASSUME StageInv, UNCHANGED vars PROVE StageInv'
  BY <1>1 DEF StageInv, Ours, vars, handler
<1> QED
  BY <1>1, StageCreateTx, StageApplyStep, StageRecordSteps, StageMoveToVerifying, StageVerify,
     StageStartProcesses, StageCommitTx, StageDisconnectTun, StageBeginRollback,
     StageRollback, StageRecover, StageCrash DEF Next, Handle

\* A committed record names everything the transaction has on the host, and
\* nothing that was there before it (CommitTx after IPRouteExecutor.Add).
THEOREM CommittedExact == Spec => []CommittedRecordIsExact
<1>1. StageInv /\ ForeignInv => CommittedRecordIsExact
  BY DEF StageInv, ForeignInv, Clear, CommittedRecordIsExact
<1> QED
  BY <1>1, TypeInit, TypeNext, ForeignInit, ForeignNext, StageInit, StageNext, PTL DEF Spec

-----------------------------------------------------------------------------
(* What a rollback leaves behind.                                          *)

\* Ours is S, or S and one thing more.
AllBut1(S) == \E x \in Items : Ours \subseteq S \cup {x}
Upto(n) == {Plan[i] : i \in 1 .. n}

\* A rollback without an error undoes all but one thing.
OneStepInv ==
  /\ pc = "rollback" /\ undoing = "steps" => plan = copy.steps /\ AllBut1(plan)
  /\ pc = "rollback" /\ undoing = "plan" => plan = Items
  /\ pc = "undo" /\ errs = FALSE => AllBut1(plan \cap Upto(at))
  /\ file.state = "rolled_back" => AllBut1({})

LEMMA UptoFacts ==
  /\ Upto(0) = {} /\ Upto(7) = Items
  /\ \A n \in 1 .. 7 : Upto(n) \subseteq Upto(n - 1) \cup {Plan[n]}
<1>1. Upto(0) = {}
  BY DEF Upto
<1>2. Upto(7) = Items
  BY PlanFacts DEF Upto
<1>3. ASSUME NEW n \in 1 .. 7 PROVE Upto(n) \subseteq Upto(n - 1) \cup {Plan[n]}
  <2>1. ASSUME NEW i \in 1 .. n PROVE i = n \/ i \in 1 .. n - 1
    OBVIOUS
  <2> QED
    BY <2>1 DEF Upto
<1> QED
  BY <1>1, <1>2, <1>3

LEMMA OursTyped == Ours \subseteq Items /\ "link" \in Items
BY PlanFacts DEF Ours

LEMMA OneStepInit == Init => OneStepInv
BY DEF Init, OneStepInv, NoFile

\* Only the end of a rollback without an error says rolled_back.
LEMMA RolledBackNew ==
  ASSUME TypeInv, StageInv, Next, file'.state = "rolled_back", file.state # "rolled_back"
  PROVE  pc = "undo" /\ at = 0 /\ errs = FALSE /\ UNCHANGED host
<1>1. file \in Record /\ copy \in Record /\ NoFile.state = "absent" /\ errs \in BOOLEAN
  BY AbsentFile DEF TypeInv, TypeOK
<1>2. CASE CreateTx \/ MoveToVerifying \/ CommitTx
  <2>1. file' = file \/ \E r \in {file, NoFile} :
          \E t \in {"planned", "applying", "applied", "verifying", "committed"} : file' = In(r, t)
    BY <1>2 DEF CreateTx, MoveToVerifying, CommitTx, MaybeSaved
  <2> QED
    BY <1>1, <2>1, InKeeps, RecordTypes
<1>3. CASE RecordSteps
  BY <1>3 DEF RecordSteps, MaybeSaved, StageInv, Continue, StartUndo
<1>4. CASE StartProcesses
  <2>1. file' \in {file, [file EXCEPT !.children = TRUE]}
    BY <1>4 DEF StartProcesses, MaybeSaved
  <2> QED
    BY <1>1, <2>1 DEF Record
<1>5. CASE ApplyStep \/ Verify \/ DisconnectTun \/ UndoStep
  BY <1>5 DEF ApplyStep, Verify, DisconnectTun, UndoStep
<1>6. CASE BeginRollback
  <2>1. \/ file' = file
        \/ file' = copy /\ undoing = "steps" /\ pc = "rollback"
        \/ \E r \in {file, copy} : \E t \in {"failed", "rolling_back"} : file' = In(r, t)
    BY <1>6 DEF BeginRollback, MaybeSaved, Continue
  <2> QED
    BY <1>1, <2>1, InKeeps DEF StageInv
<1>7. CASE EndRollback
  <2>1. errs = TRUE => file' \in {file, In(copy, "failed")}
    BY <1>7 DEF EndRollback, MaybeSaved
  <2>2. errs = FALSE
    BY <1>1, <2>1, InKeeps
  <2> QED
    BY <1>7, <2>2 DEF EndRollback, Continue
<1>8. CASE RemoveTxFile \/ Recover \/ Crash
  BY <1>1, <1>8 DEF RemoveTxFile, Recover, Scan, RecoverTx, RecoverUndo, ForgetTx, RecoverFound,
     Crash
<1> QED
  BY <1>2, <1>3, <1>4, <1>5, <1>6, <1>7, <1>8 DEF Next, Handle

\* A rollback starts with its plan, and all but one thing in it.
LEMMA StartsAllBut1 ==
  ASSUME TypeInv, StageInv, Next, pc' = "rollback", pc # "rollback"
  PROVE  /\ undoing' = "steps" => /\ plan' = copy'.steps
                                  /\ \E x \in Items : Ours' \subseteq plan' \cup {x}
         /\ undoing' = "plan" => plan' = Items
<1>1. CASE ApplyStep
  <2>1. StartUndo("apply", "steps", copy.steps, copy) /\ Ours \subseteq copy.steps
    BY <1>1 DEF ApplyStep, StageInv, Stages
  <2>2. \E x \in Items : Ours' \subseteq Ours \cup {x}
    BY <1>1, HostGrows, OursTyped DEF Ours
  <2> QED
    BY <2>1, <2>2 DEF StartUndo
<1>2. CASE RecordSteps \/ MoveToVerifying \/ Verify
  <2>1. /\ UNCHANGED host /\ undoing' = "steps" /\ plan' = copy.steps /\ copy' = copy
        /\ pc \in Stages
    BY <1>2 DEF RecordSteps, MoveToVerifying, Verify, Continue, StartUndo, Stages
  <2>2. Ours' \subseteq plan'
    BY <2>1 DEF StageInv, Ours
  <2> QED
    BY <2>1, <2>2, OursTyped
<1>3. CASE StartProcesses \/ CommitTx
  BY <1>3 DEF StartProcesses, CommitTx, Continue, StartUndo
<1>4. CASE DisconnectTun
  BY <1>4 DEF DisconnectTun, StartUndo
<1>5. CASE CreateTx \/ BeginRollback \/ UndoStep \/ EndRollback \/ RemoveTxFile \/ Crash
  BY <1>5 DEF CreateTx, BeginRollback, UndoStep, EndRollback, RemoveTxFile, Crash, Continue
<1>6. CASE Recover
  BY <1>6 DEF Recover, Scan, RecoverTx, RecoverUndo, ForgetTx, RecoverFound, RecoverStep, handler
<1> QED
  BY <1>1, <1>2, <1>3, <1>4, <1>5, <1>6 DEF Next, Handle

\* What is done while a rollback is about to start, or has started.
LEMMA WhileRollback ==
  ASSUME TypeInv, Next, pc = "rollback"
  PROVE  BeginRollback \/ (Recover /\ UNCHANGED handler) \/ Crash
<1>1. Recover => UNCHANGED handler
  BY DEF Recover, Scan, RecoverTx, RecoverUndo, ForgetTx, RecoverFound, RecoverStep
<1> QED
  BY <1>1 DEF Next, Handle, CreateTx, ApplyStep, RecordSteps, MoveToVerifying, Verify,
     StartProcesses, CommitTx, DisconnectTun, BeginRollback, UndoStep, EndRollback,
     RemoveTxFile, Continue, StartUndo

LEMMA WhileUndo ==
  ASSUME TypeInv, Next, pc = "undo"
  PROVE  UndoStep \/ (EndRollback /\ pc' # "undo") \/ (Recover /\ UNCHANGED handler) \/ Crash
<1>1. Recover => UNCHANGED handler
  BY DEF Recover, Scan, RecoverTx, RecoverUndo, ForgetTx, RecoverFound, RecoverStep
<1> QED
  BY <1>1 DEF Next, Handle, CreateTx, ApplyStep, RecordSteps, MoveToVerifying, Verify,
     StartProcesses, CommitTx, DisconnectTun, BeginRollback, UndoStep, EndRollback,
     RemoveTxFile, Continue, StartUndo

LEMMA BeginsUndo ==
  ASSUME TypeInv, Next, pc' = "undo", pc # "undo"
  PROVE  /\ BeginRollback /\ pc = "rollback" /\ UNCHANGED undoing
         /\ at' = 7
         /\ plan' = IF undoing = "record" THEN PlanFromRecord(file) ELSE plan
         /\ undoing = "record" => file.state # "absent"
<1>1. BeginRollback
  <2>1. CASE Recover
    BY <2>1 DEF Recover, Scan, RecoverTx, RecoverUndo, ForgetTx, RecoverFound, RecoverStep, handler
  <2>2. CASE Handle \/ Crash
    BY <2>2 DEF Handle, CreateTx, ApplyStep, RecordSteps, MoveToVerifying, Verify,
       StartProcesses, CommitTx, DisconnectTun, UndoStep, EndRollback, RemoveTxFile,
       Continue, StartUndo, Crash
  <2> QED
    BY <2>1, <2>2 DEF Next
<1> QED
  BY <1>1, PlanFacts DEF BeginRollback, Continue, ValidTransition, TxStates

LEMMA OneStepNext == TypeInv /\ StageInv /\ OneStepInv /\ [Next]_vars => OneStepInv'
<1> SUFFICES ASSUME TypeInv, StageInv, OneStepInv, [Next]_vars PROVE OneStepInv'
  OBVIOUS
<1>1. CASE UNCHANGED vars
  BY <1>1 DEF OneStepInv, AllBut1, Upto, Ours, vars, handler
<1>2. CASE Next
  <2>1. ASSUME pc' = "rollback"
        PROVE  /\ undoing' = "steps" => plan' = copy'.steps /\ AllBut1(plan)'
               /\ undoing' = "plan" => plan' = Items
    <3>1. CASE pc # "rollback"
      BY <1>2, <2>1, <3>1, StartsAllBut1 DEF AllBut1
    <3>2. CASE pc = "rollback"
      <4>1. UNCHANGED handler
        BY <1>2, <2>1, <3>2, WhileRollback DEF BeginRollback, Continue, Crash
      <4>2. Ours' \subseteq Ours
        BY <1>2, <2>1, <3>2, WhileRollback, HostShrinks DEF Others
      <4> QED
        BY <3>2, <4>1, <4>2 DEF OneStepInv, AllBut1, handler
    <3> QED
      BY <3>1, <3>2
  <2>2. ASSUME pc' = "undo", errs' = FALSE PROVE AllBut1(plan \cap Upto(at))'
    <3>1. CASE pc # "undo"
      <4>1. /\ pc = "rollback" /\ UNCHANGED undoing /\ at' = 7
            /\ plan' = IF undoing = "record" THEN PlanFromRecord(file) ELSE plan
            /\ undoing = "record" => file.state # "absent"
        BY <1>2, <2>2, <3>1, BeginsUndo
      <4>2. Ours' = Ours /\ plan' \subseteq Items
        <5>1. UNCHANGED host
          BY <1>2, <2>2, <3>1, BeginsUndo DEF BeginRollback
        <5>2. TypeInv'
          BY <1>2, TypeNext
        <5> QED
          BY <5>1, <5>2 DEF Ours, TypeInv, TypeOK
      <4>3. plan' \cap Upto(7) = plan'
        BY <4>2, UptoFacts
      <4>4. undoing \in {"steps", "plan", "record"}
        BY <4>1 DEF StageInv, FileUndone, TypeInv, TypeOK
      <4>5. \E x \in Items : Ours \subseteq plan' \cup {x}
        <5>1. CASE undoing = "record"
          BY <4>1, <5>1, OursTyped DEF StageInv, FileUndone, PlanFromRecord
        <5>2. CASE undoing = "steps"
          BY <4>1, <5>2 DEF OneStepInv, AllBut1
        <5>3. CASE undoing = "plan"
          BY <4>1, <5>3, OursTyped DEF OneStepInv
        <5> QED
          BY <4>4, <5>1, <5>2, <5>3
      <4> QED
        BY <4>1, <4>2, <4>3, <4>5 DEF AllBut1, Upto
    <3>2. CASE pc = "undo" /\ UndoStep
      <4>1. /\ at' = at - 1 /\ errs = FALSE /\ UNCHANGED plan
            /\ Plan[at] \notin plan \/ Remove(Plan[at])
            /\ Ours' \subseteq Ours
        BY <2>2, <3>2, UndoStepShape, HostShrinks DEF Others
      <4>2. at \in 1 .. 7
        <5>1. at \in 0 .. 7 /\ at > 0
          BY <3>2, UndoStepShape, PlanFacts DEF TypeInv, TypeOK
        <5> QED
          BY <5>1
      <4>3. Remove(Plan[at]) => Plan[at] \notin Ours'
        BY <4>2, PlanFacts DEF Remove, Ours
      <4>4. PICK x \in Items : Ours \subseteq (plan \cap Upto(at)) \cup {x}
        BY <3>2, <4>1 DEF OneStepInv, AllBut1
      <4>5. Ours' \subseteq (plan \cap Upto(at - 1)) \cup {x}
        BY <4>1, <4>2, <4>3, <4>4, UptoFacts
      <4> QED
        BY <4>1, <4>5 DEF AllBut1, Upto
    <3>3. CASE pc = "undo" /\ ~UndoStep
      <4>1. UNCHANGED handler
        BY <1>2, <2>2, <3>3, WhileUndo DEF Crash
      <4>2. Ours' \subseteq Ours
        BY <1>2, <3>3, WhileUndo, HostShrinks DEF Others
      <4> QED
        BY <2>2, <3>3, <4>1, <4>2 DEF OneStepInv, AllBut1, Upto, handler
    <3> QED
      BY <3>1, <3>2, <3>3
  <2>3. ASSUME file'.state = "rolled_back" PROVE AllBut1({})'
    <3>1. CASE file.state = "rolled_back"
      <4>1. pc # "apply"
        BY <3>1 DEF StageInv, FileAt
      <4>2. Ours' \subseteq Ours
        BY <1>2, <4>1, HostShrinks DEF Next, Handle, Others, ApplyStep
      <4> QED
        BY <3>1, <4>2 DEF OneStepInv, AllBut1
    <3>2. CASE file.state # "rolled_back"
      <4>1. pc = "undo" /\ at = 0 /\ errs = FALSE /\ UNCHANGED host
        BY <1>2, <2>3, <3>2, RolledBackNew
      <4>2. AllBut1({})
        BY <4>1, UptoFacts DEF OneStepInv, AllBut1
      <4> QED
        BY <4>1, <4>2 DEF AllBut1, Ours
    <3> QED
      BY <3>1, <3>2
  <2> QED
    BY <2>1, <2>2, <2>3 DEF OneStepInv
<1> QED
  BY <1>1, <1>2

\* A record that says rolled_back leaves at most one thing on the host, what the
\* step that failed had created: executor.Rollback goes through its plan to the
\* end, and an error keeps the record from saying so.
THEOREM RolledBackLeavesOne == Spec => []RolledBackLeavesOneStep
<1>1. OneStepInv => RolledBackLeavesOneStep
  <2> SUFFICES ASSUME OneStepInv, file.state = "rolled_back" PROVE Cardinality(Ours) <= 1
    BY DEF RolledBackLeavesOneStep
  <2>1. PICK x \in Items : Ours \subseteq {x}
    BY DEF OneStepInv, AllBut1
  <2>2. Ours = {} \/ Ours = {x}
    BY <2>1
  <2> QED
    BY <2>2, FS_EmptySet, FS_Singleton
<1> QED
  BY <1>1, TypeInit, TypeNext, StageInit, StageNext, OneStepInit, OneStepNext, PTL DEF Spec

-----------------------------------------------------------------------------
(* The record as an undo log.                                              *)

\* What the file can still be used for.
Logged == IF file.state \in {"absent", "rolled_back"} THEN {} ELSE file.steps
Still(n) == {RecoveryPlan[i] : i \in n .. 6} \cup {"dns"}

\* One user at a time: what the handler knows of the log and of the host.
LogInv ==
  ~overlapped =>
    /\ Recovering => Served
    /\ pc \in {"apply", "record"} => Logged = {}
    /\ pc \in {"apply", "record", "move", "verify"} => copy.steps \subseteq Ours
    /\ pc = "rollback" /\ undoing = "steps" =>
         copy.steps \subseteq Ours /\ Logged \in {{}, copy.steps}
    /\ pc = "undo" => /\ file = copy /\ copy.steps \subseteq plan
                      /\ errs = FALSE => copy.steps \cap Ours \subseteq Upto(at)
    /\ pc = "remove" => file.state = "rolled_back"
    /\ rec.pc = "undo" =>
         /\ rec.copy = file
         /\ rec.failed = FALSE => file.steps \cap Ours \subseteq Still(rec.at)

\* The steps of an undo log, and the step of one who has it alone.
LogStep ==
  \/ Ours' \subseteq Ours /\ Logged' = Logged
  \/ Logged = {} /\ Ours \subseteq Ours' /\ Logged' = {}
  \/ Logged = {} /\ Logged' \subseteq Ours /\ Ours' = Ours
  \/ Logged \cap Ours = {} /\ Logged' = {} /\ Ours' = Ours

LEMMA StillFacts ==
  /\ Items \subseteq Still(1) /\ Still(7) = {"dns"}
  /\ \A n \in 1 .. 6 : Still(n) \subseteq Still(n + 1) \cup {RecoveryPlan[n]}
<1>1. Items \subseteq Still(1)
  BY RecoveryPlanFacts DEF Still
<1>2. Still(7) = {"dns"}
  BY DEF Still
<1>3. ASSUME NEW n \in 1 .. 6 PROVE Still(n) \subseteq Still(n + 1) \cup {RecoveryPlan[n]}
  <2>1. ASSUME NEW i \in n .. 6 PROVE i = n \/ i \in n + 1 .. 6
    OBVIOUS
  <2> QED
    BY <2>1 DEF Still
<1> QED
  BY <1>1, <1>2, <1>3

LEMMA LogInit == Init => LogInv
BY DEF Init, LogInv, NoRecovery, Recovering

\* A call of the handler leaves recovery alone, and recovery the handler.
LEMMA Apart ==
  /\ Handle => UNCHANGED <<rec, crashes>>
  /\ Recover => UNCHANGED <<handler, crashes>>
<1>1. Handle => UNCHANGED <<rec, crashes>>
  BY DEF Handle, CreateTx, ApplyStep, RecordSteps, MoveToVerifying, Verify, StartProcesses,
     CommitTx, DisconnectTun, BeginRollback, UndoStep, EndRollback, RemoveTxFile, Continue,
     StartUndo
<1>2. Recover => UNCHANGED <<handler, crashes>>
  BY DEF Recover, Scan, RecoverTx, RecoverUndo, ForgetTx, RecoverFound, RecoverStep
<1> QED
  BY <1>1, <1>2

\* In a call of the handler that has the host alone, only what LogInv says of
\* the handler is to be shown.
LEMMA LogHandle ==
  ASSUME LogInv, ~overlapped, ~Recovering, UNCHANGED rec,
         /\ pc' \in {"apply", "record"} => Logged' = {}
         /\ pc' \in {"apply", "record", "move", "verify"} => copy'.steps \subseteq Ours'
         /\ pc' = "rollback" /\ undoing' = "steps" =>
              copy'.steps \subseteq Ours' /\ Logged' \in {{}, copy'.steps}
         /\ pc' = "undo" => /\ file' = copy' /\ copy'.steps \subseteq plan'
                            /\ errs' = FALSE => copy'.steps \cap Ours' \subseteq Upto(at')
         /\ pc' = "remove" => file'.state = "rolled_back"
  PROVE  LogInv'
BY DEF LogInv, Recovering, Upto

Alone == TypeInv /\ StageInv /\ OneStepInv /\ LogInv /\ ~overlapped /\ ~overlapped'

LEMMA LogCreateTx ==
  ASSUME Alone, CreateTx, ~Recovering PROVE LogInv' /\ LogStep
<1>1. /\ pc = "idle" /\ Ours' = Ours /\ Logged = {} /\ NoFile \in Record /\ UNCHANGED rec
      /\ file.state = "absent"
  BY RecordTypes DEF Alone, CreateTx, Continue, StageInv, FileAt, Logged, Ours
<1>2. file' = file \/ \E t \in {"planned", "applying"} : file' = In(NoFile, t)
  BY DEF CreateTx, MaybeSaved
<1>3. Logged' = {}
  BY <1>1, <1>2, InKeeps, AbsentFile DEF Logged
<1>4. pc' \in {"apply", "failed"} /\ (pc' = "apply" => copy' = In(NoFile, "applying"))
  BY DEF CreateTx, Continue
<1>5. pc' = "apply" => copy'.steps = {}
  BY <1>1, <1>4, InKeeps, AbsentFile
<1> QED
  BY <1>1, <1>3, <1>4, <1>5, LogHandle DEF Alone, LogStep

LEMMA LogApplyStep ==
  ASSUME Alone, ApplyStep, ~Recovering PROVE LogInv' /\ LogStep
<1>1. /\ pc = "apply" /\ Logged = {} /\ copy.steps \subseteq Ours /\ copy \in Record
      /\ Logged' = Logged /\ UNCHANGED rec
  BY DEF Alone, ApplyStep, LogInv, Logged, TypeInv, TypeOK, StartUndo
<1>2. Ours \subseteq Ours'
  BY HostGrows DEF Alone, Ours
<1>3. CASE StartUndo("apply", "steps", copy.steps, copy)
  BY <1>1, <1>2, <1>3, LogHandle DEF Alone, LogStep, StartUndo
<1>4. CASE /\ copy' = [copy EXCEPT !.steps = @ \cup Reported(Plan[at + 1])]
           /\ pc' \in {"apply", "record"}
           /\ \/ host[Plan[at + 1]] = "none" /\ Add(Plan[at + 1])
              \/ host[Plan[at + 1]] # "none" /\ UNCHANGED host
  <2>1. copy'.steps = copy.steps \cup Reported(Plan[at + 1])
    BY <1>1, <1>4 DEF Record
  <2>2. Reported(Plan[at + 1]) \subseteq Ours'
    BY <1>4, HostGrows DEF Alone, Reported, Ours, Add, TypeInv, TypeOK
  <2> QED
    BY <1>1, <1>2, <1>4, <2>1, <2>2, LogHandle DEF Alone, LogStep
<1> QED
  BY <1>3, <1>4 DEF ApplyStep

LEMMA LogRecordSteps ==
  ASSUME Alone, RecordSteps, ~Recovering PROVE LogInv' /\ LogStep
<1>1. /\ pc = "record" /\ Logged = {} /\ copy.steps \subseteq Ours /\ copy.state = "applying"
      /\ Ours' = Ours /\ UNCHANGED <<copy, rec>> /\ file' \in {file, copy}
      /\ pc' \in {"move", "rollback"}
  BY DEF Alone, RecordSteps, MaybeSaved, LogInv, StageInv, Ours, Continue, StartUndo
<1>2. Logged' \in {{}, copy.steps}
  BY <1>1 DEF Logged
<1> QED
  BY <1>1, <1>2, LogHandle DEF Alone, LogStep

LEMMA LogMoveToVerifying ==
  ASSUME Alone, MoveToVerifying, ~Recovering PROVE LogInv' /\ LogStep
<1>1. /\ pc = "move" /\ copy.steps \subseteq Ours /\ Ours' = Ours /\ UNCHANGED rec
      /\ file \in Record /\ file.state \in {"absent", "applying"}
      /\ file.state # "absent" => file.steps = copy.steps
      /\ pc' \in {"verify", "rollback", "failed"}
  BY DEF Alone, MoveToVerifying, LogInv, StageInv, FileAt, Stages, Ours, Continue, StartUndo,
     TypeInv, TypeOK
<1>2. \/ UNCHANGED file
      \/ /\ file.state = "applying"
         /\ \E t \in {"applied", "verifying"} : file' = In(file, t)
  BY DEF MoveToVerifying, MaybeSaved
<1>3. Logged' = Logged /\ Logged \in {{}, copy.steps}
  BY <1>1, <1>2, InKeeps DEF Logged
<1>4. pc' = "verify" => copy' = In(file, "verifying") /\ file.state = "applying"
  BY DEF MoveToVerifying, Continue, StartUndo
<1>5. pc' = "verify" => copy'.steps = copy.steps
  BY <1>1, <1>4, InKeeps
<1>6. pc' = "rollback" => copy' = copy
  BY DEF MoveToVerifying, Continue, StartUndo
<1> QED
  BY <1>1, <1>3, <1>5, <1>6, LogHandle DEF Alone, LogStep

LEMMA LogConnecting ==
  ASSUME Alone, Verify \/ StartProcesses \/ CommitTx \/ DisconnectTun, ~Recovering
  PROVE  LogInv' /\ LogStep
<1>1. /\ Ours' = Ours /\ UNCHANGED <<copy, rec>> /\ file \in Record
      /\ pc' \in {"processes", "commit", "connected", "rollback"}
      /\ pc' = "rollback" /\ undoing' = "steps" => pc = "verify"
  BY DEF Alone, Verify, StartProcesses, CommitTx, DisconnectTun, Continue, StartUndo, Ours,
     TypeInv, TypeOK
<1>2. \/ UNCHANGED file
      \/ file.state # "absent" /\ file' = [file EXCEPT !.children = TRUE]
      \/ file.state = "verifying" /\ file' = In(file, "committed")
  <2>1. ValidTransition(file.state, "committed") => file.state \in {"verifying", "committed"}
    BY DEF ValidTransition, TxStates, Successors
  <2>2. CommitTx => file.state \in {"absent", "verifying"}
    BY DEF Alone, StageInv, FileAt, CommitTx, Continue, StartUndo
  <2> QED
    BY <2>1, <2>2 DEF Verify, StartProcesses, CommitTx, DisconnectTun, MaybeSaved
<1>3. Logged' = Logged
  BY <1>1, <1>2, InKeeps DEF Logged, Record
<1>4. pc = "verify" => copy.steps \subseteq Ours /\ Logged \in {{}, copy.steps}
  BY DEF Alone, LogInv, StageInv, Stages, Logged
<1> QED
  BY <1>1, <1>3, <1>4, LogHandle DEF Alone, LogStep

LEMMA LogBeginRollback ==
  ASSUME Alone, BeginRollback, ~Recovering PROVE LogInv' /\ LogStep
<1>1. /\ pc = "rollback" /\ Ours' = Ours /\ UNCHANGED rec /\ file \in Record /\ copy \in Record
      /\ undoing \in {"steps", "plan", "record"}
      /\ file.state # "rolled_back"
  BY DEF Alone, BeginRollback, Continue, Ours, TypeInv, TypeOK, StageInv, FileUndone
<1>2. undoing = "steps" => /\ copy.steps \subseteq Ours /\ Logged \in {{}, copy.steps}
                           /\ copy.state \in {"applying", "verifying"} /\ plan = copy.steps
  BY <1>1 DEF Alone, LogInv, StageInv, OneStepInv
<1>3. ASSUME NEW S, NEW t \in {"rolling_back", "failed", "applying", "verifying"},
             file'.steps = S, file'.state = t,
             IF undoing = "steps" THEN S = copy.steps
                                  ELSE S = file.steps /\ file.state # "absent"
      PROVE  LogStep /\ Logged' = S
  <2>1. Logged' = S
    BY <1>3 DEF Logged
  <2>2. undoing # "steps" => Logged = S
    BY <1>1, <1>3 DEF Logged
  <2> QED
    BY <1>1, <1>2, <1>3, <2>1, <2>2 DEF LogStep
<1>4. CASE /\ pc' = "undo" /\ at' = Len(Plan)
           /\ file' = In(IF undoing = "steps" THEN copy ELSE file, "rolling_back")
           /\ copy' = file' /\ UNCHANGED undoing
           /\ ValidTransition((IF undoing = "steps" THEN copy ELSE file).state, "rolling_back")
           /\ plan' = IF undoing = "record"
                        THEN PlanFromRecord(IF undoing = "steps" THEN copy ELSE file) ELSE plan
  <2>1. /\ file'.state = "rolling_back"
        /\ file'.steps = IF undoing = "steps" THEN copy.steps ELSE file.steps
        /\ undoing # "steps" => file.state # "absent"
    BY <1>1, <1>4, InKeeps DEF ValidTransition, TxStates
  <2>2. LogStep
    BY <1>3, <2>1
  <2>3. file.steps \subseteq Items /\ copy.steps \subseteq Items
    BY <1>1 DEF Record
  <2>4. copy'.steps \subseteq plan'
    <3>1. undoing = "plan" => plan = Items
      BY <1>1 DEF Alone, OneStepInv
    <3> QED
      BY <1>1, <1>2, <1>4, <2>1, <2>3, <3>1 DEF PlanFromRecord
  <2>5. copy'.steps \cap Ours' \subseteq Upto(at')
    BY <1>4, <2>1, <2>3, UptoFacts, PlanFacts
  <2> QED
    BY <1>1, <1>4, <2>2, <2>4, <2>5, LogHandle DEF Alone
<1>5. CASE /\ pc' = "failed"
           /\ \/ file' = file
              \/ /\ undoing = "steps"
                 /\ file' = copy \/ \E t \in {"failed", "rolling_back"} : file' = In(copy, t)
              \/ /\ undoing # "steps" /\ file.state # "absent"
                 /\ file' = In(file, "rolling_back")
  <2>1. LogStep
    <3>1. CASE file' = file
      BY <1>1, <3>1 DEF LogStep, Logged
    <3>2. CASE undoing = "steps" /\ file' = copy
      BY <1>2, <1>3, <3>2
    <3>3. CASE undoing = "steps" /\ \E t \in {"failed", "rolling_back"} : file' = In(copy, t)
      BY <1>1, <1>3, <3>3, InKeeps
    <3>4. CASE undoing # "steps" /\ file.state # "absent" /\ file' = In(file, "rolling_back")
      BY <1>1, <1>3, <3>4, InKeeps
    <3> QED
      BY <1>5, <3>1, <3>2, <3>3, <3>4
  <2> QED
    BY <1>1, <1>5, <2>1, LogHandle DEF Alone
<1> QED
  BY <1>4, <1>5 DEF BeginRollback, Continue, MaybeSaved

LEMMA LogUndoStep ==
  ASSUME Alone, UndoStep, ~Recovering PROVE LogInv' /\ LogStep
<1>1. /\ pc = "undo" /\ pc' = "undo" /\ at' = at - 1
      /\ UNCHANGED <<file, copy, plan, undoing, rec>> /\ Ours' \subseteq Ours
      /\ file = copy /\ copy.steps \subseteq plan
  BY UndoStepShape, HostShrinks DEF Alone, Others, LogInv
<1>2. at \in 1 .. 7
  <2>1. at \in 0 .. 7 /\ at > 0
    BY UndoStepShape, PlanFacts DEF Alone, TypeInv, TypeOK
  <2> QED
    BY <2>1
<1>3. ASSUME errs' = FALSE PROVE copy.steps \cap Ours' \subseteq Upto(at - 1)
  <2>1. errs = FALSE /\ (Plan[at] \notin plan \/ Remove(Plan[at]))
    BY <1>3, UndoStepShape DEF Alone
  <2>2. Remove(Plan[at]) => Plan[at] \notin Ours'
    BY <1>2, PlanFacts DEF Remove, Ours
  <2>3. copy.steps \cap Ours \subseteq Upto(at)
    BY <1>1, <2>1 DEF Alone, LogInv
  <2> QED
    BY <1>1, <1>2, <2>1, <2>2, <2>3, UptoFacts
<1>4. Logged' = Logged
  BY <1>1 DEF Logged
<1> QED
  BY <1>1, <1>3, <1>4, LogHandle DEF Alone, LogStep

LEMMA LogEndRollback ==
  ASSUME Alone, EndRollback, ~Recovering PROVE LogInv' /\ LogStep
<1>1. /\ pc = "undo" /\ at = 0 /\ Ours' = Ours /\ UNCHANGED rec /\ file = copy
      /\ copy \in Record /\ copy.state = "rolling_back" /\ Logged = copy.steps
      /\ pc' \in {"remove", "failed"} /\ errs \in BOOLEAN
  BY DEF Alone, EndRollback, Continue, Ours, TypeInv, TypeOK, LogInv, StageInv, Logged
<1>2. errs = FALSE => Logged \cap Ours = {}
  BY <1>1, UptoFacts DEF Alone, LogInv
<1>3. \/ file' = file
      \/ file' = In(copy, "failed")
      \/ file' = In(copy, "rolled_back") /\ errs = FALSE
  BY <1>1 DEF EndRollback, MaybeSaved
<1>4. pc' = "remove" => file' = In(copy, "rolled_back")
  BY DEF EndRollback, Continue
<1>5. LogStep
  BY <1>1, <1>2, <1>3, InKeeps DEF LogStep, Logged
<1>6. pc' = "remove" => file'.state = "rolled_back"
  BY <1>1, <1>4, InKeeps
<1> QED
  BY <1>1, <1>5, <1>6, LogHandle DEF Alone

LEMMA LogRemoveTxFile ==
  ASSUME Alone, RemoveTxFile, ~Recovering PROVE LogInv' /\ LogStep
<1>1. /\ Ours' = Ours /\ UNCHANGED rec /\ file.state = "rolled_back"
      /\ pc' \in {"done", "failed"} /\ file' \in {file, NoFile}
  BY DEF Alone, RemoveTxFile, Continue, Ours, LogInv
<1>2. Logged' = Logged
  BY <1>1, AbsentFile DEF Logged
<1> QED
  BY <1>1, <1>2, LogHandle DEF Alone, LogStep

\* In recovery that has the host alone, only what LogInv says of recovery is to
\* be shown.
LEMMA LogServed ==
  ASSUME Served, UNCHANGED handler,
         rec'.pc = "undo" =>
           /\ rec'.copy = file'
           /\ rec'.failed = FALSE => file'.steps \cap Ours' \subseteq Still(rec'.at)
  PROVE  LogInv'
BY DEF LogInv, Served, handler, Still

LEMMA LogRecoverUndo ==
  ASSUME Alone, RecoverUndo, Served PROVE LogInv' /\ LogStep
<1>1. /\ UNCHANGED <<file, handler>> /\ Ours' \subseteq Ours
      /\ rec \in Recovery /\ rec.pc = "undo" /\ rec.copy = file
      /\ rec.failed = FALSE => file.steps \cap Ours \subseteq Still(rec.at)
  BY HostShrinks DEF Alone, RecoverUndo, Others, Recover, LogInv, TypeInv
<1>2. rec.at \in 1 .. 6
  BY <1>1, RecoveryPlanFacts DEF Alone, TypeInv, RecoverUndo, Recovery
<1>3. PICK b \in BOOLEAN :
        /\ rec' = [rec EXCEPT !.at = @ + 1, !.failed = b]
        /\ b = FALSE => /\ rec.failed = FALSE
                        /\ RecoveryPlan[rec.at] \notin file.steps \/ Remove(RecoveryPlan[rec.at])
  <2>1. rec.failed \in BOOLEAN
    BY <1>1 DEF Recovery
  <2>2. (rec.failed \/ FALSE) \in BOOLEAN /\ ((rec.failed \/ FALSE) = FALSE => rec.failed = FALSE)
    BY <2>1
  <2>3. (rec.failed \/ TRUE) \in BOOLEAN /\ (rec.failed \/ TRUE) # FALSE
    BY <2>1
  <2> QED
    BY <1>1, <2>2, <2>3, Zenon DEF RecoverUndo, RemoveOrFail
<1>4. /\ rec'.pc = "undo" /\ rec'.copy = file' /\ rec'.at = rec.at + 1 /\ rec'.failed = b
  BY <1>1, <1>3 DEF Recovery
<1>5. ASSUME b = FALSE PROVE file'.steps \cap Ours' \subseteq Still(rec.at + 1)
  <2>1. Remove(RecoveryPlan[rec.at]) => RecoveryPlan[rec.at] \notin Ours'
    BY <1>2, RecoveryPlanFacts DEF Remove, Ours
  <2> QED
    BY <1>1, <1>2, <1>3, <1>5, <2>1, StillFacts
<1>6. Logged' = Logged
  BY <1>1 DEF Logged
<1> QED
  BY <1>1, <1>4, <1>5, <1>6, LogServed DEF LogStep

LEMMA LogRecover ==
  ASSUME Alone, Recover, Served PROVE LogInv' /\ LogStep
<1>1. UNCHANGED handler /\ Ours' \subseteq Ours /\ rec \in Recovery
  BY Apart, HostShrinks DEF Alone, Others, TypeInv
<1>2. CASE Scan
  <2>1. rec'.pc = "tx" /\ UNCHANGED file
    BY <1>2, ScanShape DEF Scan
  <2>2. Logged' = Logged
    BY <2>1 DEF Logged
  <2> QED
    BY <1>1, <2>1, <2>2, LogServed DEF LogStep
<1>3. CASE RecoverTx
  <2>1. /\ UNCHANGED file
        /\ \/ rec' = [rec EXCEPT !.pc = "undo", !.at = 1, !.copy = file]
           \/ rec' = [rec EXCEPT !.pc = "table"]
    BY <1>3 DEF RecoverTx
  <2>2. rec'.pc = "undo" => rec'.copy = file' /\ rec'.at = 1
    BY <1>1, <2>1 DEF Recovery
  <2>3. Logged' = Logged
    BY <2>1 DEF Logged
  <2>4. Ours' \subseteq Still(1)
    BY <1>1, OursTyped, StillFacts
  <2> QED
    BY <1>1, <2>2, <2>3, <2>4, LogServed DEF LogStep
<1>4. CASE RecoverUndo
  BY <1>4, LogRecoverUndo
<1>5. CASE ForgetTx
  <2>1. /\ rec.pc = "undo" /\ rec.copy = file /\ rec'.pc = "table" /\ Ours' = Ours
        /\ rec.failed = FALSE => file.steps \cap Ours \subseteq Still(rec.at)
    BY <1>1, <1>5 DEF ForgetTx, RecoverStep, Recovery, Alone, LogInv, Ours
  <2>2. rec.at = 7
    BY <1>1, <1>5, RecoveryPlanFacts DEF ForgetTx, Recovery
  <2>3. \/ UNCHANGED file
        \/ file' = NoFile /\ rec.failed = FALSE /\ "dns" \notin file.steps
    BY <1>1, <1>5, <2>1 DEF ForgetTx, Skipped, Recovery
  <2>4. LogStep
    <3>1. CASE UNCHANGED file
      BY <2>1, <3>1 DEF LogStep, Logged
    <3>2. CASE file' = NoFile /\ rec.failed = FALSE /\ "dns" \notin file.steps
      <4>1. file.steps \cap Ours = {}
        BY <2>1, <2>2, <3>2, StillFacts
      <4> QED
        BY <2>1, <3>2, <4>1, AbsentFile DEF LogStep, Logged
    <3> QED
      BY <2>3, <3>1, <3>2
  <2> QED
    BY <1>1, <2>1, <2>4, LogServed
<1>6. CASE RecoverFound("table", "link") \/ RecoverFound("link", "done")
  <2>1. UNCHANGED file /\ rec'.pc \in {"link", "done"}
    BY <1>1, <1>6 DEF RecoverFound, RecoverStep, Recovery
  <2>2. Logged' = Logged
    BY <2>1 DEF Logged
  <2> QED
    BY <1>1, <2>1, <2>2, LogServed DEF LogStep
<1> QED
  BY <1>2, <1>3, <1>4, <1>5, <1>6 DEF Recover

LEMMA LogCrash ==
  ASSUME Alone, Crash, RuntimeDirKept PROVE LogInv' /\ LogStep
<1>1. /\ pc' = "restarted" /\ rec' = NoRecovery /\ UNCHANGED file /\ Ours' = Ours
  BY DEF Crash, Ours
<1>2. Logged' = Logged
  BY <1>1 DEF Logged
<1> QED
  BY <1>1, <1>2 DEF LogStep, LogInv, NoRecovery, Recovering

LEMMA LogNext ==
  ASSUME RuntimeDirKept
  PROVE  TypeInv /\ StageInv /\ OneStepInv /\ LogInv /\ [Next]_vars =>
           /\ LogInv'
           /\ ~overlapped' => ~overlapped /\ (LogStep \/ UNCHANGED vars)
<1> SUFFICES ASSUME TypeInv, StageInv, OneStepInv, LogInv, [Next]_vars
             PROVE  /\ LogInv'
                    /\ ~overlapped' => ~overlapped /\ (LogStep \/ UNCHANGED vars)
  OBVIOUS
<1>1. CASE UNCHANGED vars
  BY <1>1 DEF LogInv, Logged, Ours, Upto, Still, Recovering, Served, vars, handler
<1>2. CASE overlapped'
  BY <1>2 DEF LogInv
<1>3. CASE Next /\ ~overlapped'
  <2>1. ~overlapped
    BY <1>3 DEF Next
  <2>2. Alone
    BY <1>3, <2>1 DEF Alone
  <2>3. CASE Handle /\ ~Recovering
    BY <2>1, <2>2, <2>3, LogCreateTx, LogApplyStep, LogRecordSteps, LogMoveToVerifying,
       LogConnecting, LogBeginRollback, LogUndoStep, LogEndRollback, LogRemoveTxFile DEF Handle
  <2>4. CASE Recover /\ Served
    BY <2>1, <2>2, <2>4, LogRecover
  <2>5. CASE Crash
    BY <2>1, <2>2, <2>5, LogCrash
  <2> QED
    BY <1>3, <2>1, <2>3, <2>4, <2>5 DEF Next
<1> QED
  BY <1>1, <1>2, <1>3

\* As long as /run/podlaz outlives the daemon and recovery is not asked for in
\* the middle of another call, the transaction's record is an undo log.
THEOREM RecordIsUndoLog ==
  ASSUME RuntimeDirKept PROVE Spec => IsUndoLog
<1> DEFINE Mapped == <<Ours, Logged, ~overlapped>>
<1>1. Init => Undoing!Init
  BY AbsentFile, OursTyped DEF Init, Undoing!Init, Ours
<1>2. ASSUME TypeInv, StageInv, OneStepInv, LogInv, [Next]_vars
      PROVE  [Undoing!Next]_Mapped
  <2>1. TypeInv'
    BY <1>2, TypeNext
  <2>2. /\ Ours \in SUBSET Items /\ Ours' \in SUBSET Items
        /\ Logged \in SUBSET Items /\ Logged' \in SUBSET Items
    BY <1>2, <2>1 DEF Ours, Logged, TypeInv, TypeOK, Record
  <2>3. CASE overlapped'
    BY <2>2, <2>3 DEF Undoing!Next, Undoing!Interfere, Logged
  <2>4. CASE UNCHANGED vars
    BY <2>4 DEF Ours, Logged, vars
  <2>5. CASE ~overlapped' /\ LogStep
    <3>1. ~overlapped
      BY <1>2, <2>5, LogNext
    <3>2. CASE Ours' \subseteq Ours /\ Logged' = Logged
      <4>1. Undoing!Undo(Ours \ Ours')
        BY <2>5, <3>1, <3>2 DEF Undoing!Undo, Logged
      <4> QED
        BY <2>2, <3>1, <4>1 DEF Undoing!Next
    <3>3. CASE Logged = {} /\ Ours \subseteq Ours' /\ Logged' = {}
      <4>1. Undoing!Do(Ours')
        BY <2>5, <3>1, <3>3 DEF Undoing!Do, Logged
      <4> QED
        BY <2>2, <3>1, <4>1 DEF Undoing!Next
    <3>4. CASE Logged = {} /\ Logged' \subseteq Ours /\ Ours' = Ours
      <4>1. Undoing!Log(Logged')
        BY <2>5, <3>1, <3>4 DEF Undoing!Log, Logged
      <4> QED
        BY <2>2, <3>1, <4>1 DEF Undoing!Next
    <3>5. CASE Logged \cap Ours = {} /\ Logged' = {} /\ Ours' = Ours
      <4>1. Undoing!Forget
        BY <2>5, <3>1, <3>5 DEF Undoing!Forget, Logged
      <4> QED
        BY <3>1, <4>1 DEF Undoing!Next
    <3> QED
      BY <2>5, <3>2, <3>3, <3>4, <3>5 DEF LogStep
  <2> QED
    BY <1>2, <2>3, <2>4, <2>5, LogNext
<1> QED
  BY <1>1, <1>2, TypeInit, TypeNext, StageInit, StageNext, OneStepInit, OneStepNext, LogInit,
     LogNext, PTL DEF Spec, IsUndoLog, Undoing!Spec, Logged
=============================================================================

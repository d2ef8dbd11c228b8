------------------------- MODULE XrayManager_proofs -------------------------
(***************************************************************************)
(* Inv is inductive for the connection manager, for any set of requests    *)
(* and any failures.  RegisteredCore and ActiveIsBacked are not inductive  *)
(* alone: they need to know that a request starts one core (StartsOnce),   *)
(* which handler is at which label (HandlerKind), and that a rollback is   *)
(* at work on its own transaction or on a committed one whose core is gone *)
(* (UndoTarget, TunConnection), so that it cannot touch the record of the  *)
(* active connection.  One lemma per action, then one step per disjunct.   *)
(***************************************************************************)
EXTENDS XrayManager, TLAPS

USE DEF NoCore, Registered, Applicable

LEMMA ConstantTypes ==
  NoTx \in TxRecord /\ NoLocal \in Local /\ Inactive \in Connection
BY DEF NoTx, TxRecord, FileStates, NoLocal, Local, Inactive, Connection

\* The manager podlazd starts with: nothing runs and nothing is registered.
LEMMA InvInit == Init => Inv
<1> SUFFICES ASSUME Init PROVE Inv
  OBVIOUS
<1>1. TypeOK
  BY ConstantTypes DEF Init, TypeOK, Processes, Labels
<1>2. RegisteredCore /\ ActiveIsBacked /\ TunConnection
  BY ManagerAssumption DEF Init, RegisteredCore, ActiveIsBacked, TunConnection, Inactive
<1>3. ASSUME NEW r \in Requests PROVE StartsOnce(r) /\ HandlerKind(r) /\ UndoTarget(r)
  BY <1>3 DEF Init, StartsOnce, HandlerKind, UndoTarget
<1> QED
  BY <1>1, <1>2, <1>3 DEF Inv

Operations == {"none", "proxy-only", "tun", "disconnect"}

\* What the proof of an action owes HandlerFrame about the handler r itself.
HandlerOK(r) ==
  /\ loc' \in [Requests -> Local] /\ pc' \in [Requests -> Labels]
  /\ op' \in [Requests -> Operations]
  /\ \A q \in Requests \ {r} : pc'[q] = pc[q] /\ op'[q] = op[q] /\ loc'[q] = loc[q]
  /\ StartsOnce(r)' /\ HandlerKind(r)' /\ UndoTarget(r)'

\* The steps of a handler that leave the manager and the cores alone.
LEMMA HandlerFrame ==
  ASSUME Inv, TypeOK', NEW r \in Requests, pc[r] # "ok", HandlerOK(r),
         UNCHANGED <<cmd, connection, core>>,
         stopping' => cmd # None,
         \A t \in Requests : Established(t) /\ core[t] # "reaped" => tx'[t] = tx[t]
  PROVE  Inv'
<1> USE DEF HandlerOK
<1>1. \A t : Established(t) => Established(t)'
  BY DEF Established
<1>2. RegisteredCore'
  BY DEF Inv, RegisteredCore
<1>3. TunConnection'
  BY <1>1 DEF Inv, TunConnection
<1>4. ActiveIsBacked'
  <2> SUFFICES ASSUME connection.status = "active" 
               PROVE  /\ cmd # None
                      /\ connection.mode = "tun" => connection.tx = cmd /\ tx'[cmd].state = "committed"
    BY DEF ActiveIsBacked
  <2>1. cmd # None /\ (connection.mode = "tun" => connection.tx = cmd /\ tx[cmd].state = "committed")
    BY DEF Inv, ActiveIsBacked
  <2>2. CASE connection.mode = "tun"
    <3>1. Established(cmd) /\ core[cmd] # "reaped"
      BY <2>1, <2>2, ManagerAssumption DEF Inv, TunConnection, Established, RegisteredCore
    <3> QED
      BY <2>1, <3>1 DEF Established
  <2> QED
    BY <2>1, <2>2
<1>5. ASSUME NEW q \in Requests \ {r} PROVE StartsOnce(q)' /\ HandlerKind(q)' /\ UndoTarget(q)'
  BY <1>1, <1>5 DEF Inv, StartsOnce, HandlerKind, UndoTarget
<1> QED
  BY <1>2, <1>3, <1>4, <1>5 DEF Inv

LEMMA SavedRecord ==
  ASSUME tx \in [Requests -> TxRecord], NEW t, NEW records, records \subseteq TxRecord,
         MaybeSaved(t, records)
  PROVE  tx' \in [Requests -> TxRecord]
BY DEF MaybeSaved

LEMMA RecordFields ==
  ASSUME NEW rec \in TxRecord
  PROVE  /\ \A state \in FileStates : [rec EXCEPT !.state = state] \in TxRecord
         /\ \A steps \in SUBSET NetResources :
              /\ [rec EXCEPT !.rollback = steps] \in TxRecord
              /\ \A state \in FileStates :
                   [rec EXCEPT !.state = state, !.rollback = steps] \in TxRecord
         /\ \A c \in SUBSET Children : [rec EXCEPT !.children = c] \in TxRecord
         /\ rec.state \in FileStates /\ rec.rollback \in SUBSET NetResources
BY DEF TxRecord

LEMMA RollbackStepsOK ==
  ASSUME TypeOK, NEW r \in Requests, NEW from, NEW copy \in TxRecord, op[r] = "tun",
         NEW steps \in SUBSET NetResources, RollbackSteps(r, from, copy, steps), UNCHANGED op
  PROVE  HandlerOK(r)
<1> DEFINE l == [NoLocal EXCEPT !.tx = r, !.plan = steps, !.mark = TRUE,
                   !.copy = [copy EXCEPT !.rollback = steps]]
<1>1. l \in Local /\ l.tx = r
  BY ConstantTypes, RecordFields DEF Local
<1>2. loc' = [loc EXCEPT ![r] = l] /\ pc' = [pc EXCEPT ![r] = "rbSave"]
  BY DEF RollbackSteps, Step, Goto
<1> HIDE DEF l
<1>3. loc'[r].tx = r /\ pc'[r] = "rbSave"
  BY <1>1, <1>2 DEF TypeOK
<1> QED
  BY <1>1, <1>2, <1>3 DEF TypeOK, HandlerOK, StartsOnce, HandlerKind, UndoTarget, Labels, Operations

LEMMA RollbackPlanOK ==
  ASSUME TypeOK, NEW r \in Requests, NEW from, op[r] = "tun", RollbackPlan(r, from), UNCHANGED op
  PROVE  HandlerOK(r)
<1> DEFINE l == [NoLocal EXCEPT !.tx = r, !.plan = NetResources]
<1>1. l \in Local /\ l.tx = r
  BY ConstantTypes DEF Local
<1>2. loc' = [loc EXCEPT ![r] = l] /\ pc' = [pc EXCEPT ![r] = "rbLoad"]
  BY DEF RollbackPlan, Step, Goto
<1> HIDE DEF l
<1>3. loc'[r].tx = r /\ pc'[r] = "rbLoad"
  BY <1>1, <1>2 DEF TypeOK
<1> QED
  BY <1>1, <1>2, <1>3 DEF TypeOK, HandlerOK, StartsOnce, HandlerKind, UndoTarget, Labels, Operations

LEMMA ReturnOK ==
  ASSUME TypeOK, NEW r \in Requests, NEW from, NEW result \in {"ok", "failed"},
         Return(r, from, result), UNCHANGED op
  PROVE  HandlerOK(r)
<1>1. loc' \in [Requests -> Local] /\ pc' \in [Requests -> Labels] /\ pc'[r] \in {"ok", "failed"}
  BY ConstantTypes DEF TypeOK, Return, Step, Goto, Labels
<1> QED
  BY <1>1 DEF TypeOK, HandlerOK, StartsOnce, HandlerKind, UndoTarget, Return, Step, Goto, Operations

LEMMA LocalUpdates ==
  ASSUME NEW l \in Local
  PROVE  /\ \A c \in Requests \cup {None} : [l EXCEPT !.core = c] \in Local
         /\ \A p \in SUBSET NetResources : [l EXCEPT !.plan = p] \in Local
         /\ \A x \in FileStates : [l EXCEPT !.copy.state = x] \in Local
         /\ [NoLocal EXCEPT !.tx = l.tx] \in Local
         /\ \A b \in BOOLEAN : [l EXCEPT !.path = b] \in Local
BY ConstantTypes, RecordFields DEF Local


LEMMA InvConnectTun ==
  ASSUME Inv, NEW r \in Requests, ConnectTun(r) PROVE Inv'
<1> USE DEF Inv, ConnectTun, mgrVars, procVars, Call, Step, Goto, Busy
<1>1. HandlerOK(r)
  BY ConstantTypes DEF TypeOK, HandlerOK, Labels, Operations, StartsOnce, HandlerKind, UndoTarget
<1>2. TypeOK'
  BY <1>1 DEF TypeOK, HandlerOK, Operations
<1>3. \A t \in Requests : Established(t) /\ core[t] # "reaped" => tx'[t] = tx[t]
  BY DEF TypeOK, Established
<1>4. stopping' => cmd # None
  BY DEF RegisteredCore
<1>5. pc[r] # "ok"
  BY DEF Step, Call, RollbackSteps, RollbackPlan, Return
<1> QED
  BY <1>1, <1>2, <1>3, <1>4, <1>5, HandlerFrame

LEMMA InvCreateTx ==
  ASSUME Inv, NEW r \in Requests, CreateTx(r) PROVE Inv'
<1> USE DEF Inv, CreateTx, mgrVars, procVars, Step, Goto
<1>1. HandlerOK(r)
  <2> DEFINE plan == Plannable
  <2>1. plan \in SUBSET NetResources /\ loc \in [Requests -> Local] /\ loc[r] \in Local
    BY DEF Plannable, TypeOK
  <2>2. loc' = [loc EXCEPT ![r].plan = plan] \/ UNCHANGED loc
    OBVIOUS
  <2>3. loc' \in [Requests -> Local]
    <3> HIDE DEF plan, CreateTx, Inv
    <3>1. [loc[r] EXCEPT !.plan = plan] \in Local
      BY <2>1, LocalUpdates
    <3> QED
      BY <2>1, <2>2, <3>1
  <2> QED
    BY <2>3, ConstantTypes DEF TypeOK, HandlerOK, Labels, Operations, StartsOnce,
       HandlerKind, UndoTarget
<1>2. TypeOK'
  <2>1. \A state \in {"absent", "planned", "applying"} : [NoTx EXCEPT !.state = state] \in TxRecord
    BY ConstantTypes, RecordFields DEF FileStates, TxStates
  <2>2. tx' \in [Requests -> TxRecord]
    BY <2>1 DEF TypeOK
  <2> QED
    BY <1>1, <2>2 DEF TypeOK, HandlerOK, Operations
<1>3. \A t \in Requests : Established(t) /\ core[t] # "reaped" => tx'[t] = tx[t]
  BY DEF TypeOK, Established
<1>4. stopping' => cmd # None
  BY DEF RegisteredCore
<1>5. pc[r] # "ok"
  BY DEF Step, Call, RollbackSteps, RollbackPlan, Return
<1> QED
  BY <1>1, <1>2, <1>3, <1>4, <1>5, HandlerFrame

LEMMA InvApplyPlan ==
  ASSUME Inv, NEW r \in Requests, ApplyPlan(r) PROVE Inv'
<1> USE DEF Inv, ApplyPlan, mgrVars, procVars
<1>0. \A x \in NetResources : Before(x) \in SUBSET NetResources
  BY DEF Before, Missing, NetResources
<1>1. HandlerOK(r)
  <2>1. CASE /\ Step(r, "apply", "record")
             /\ loc' = [loc EXCEPT ![r].plan = Missing \cup {"table"}]
    <3>1. Missing \cup {"table"} \in SUBSET NetResources /\ loc[r] \in Local
      BY DEF Missing, NetResources, TypeOK
    <3>2. loc' \in [Requests -> Local]
      BY <2>1, <3>1, LocalUpdates DEF TypeOK
    <3> QED
      BY <2>1, <3>2 DEF TypeOK, HandlerOK, Labels, Operations, StartsOnce, HandlerKind,
                        UndoTarget, Step, Goto
  <2>2. ASSUME NEW steps \in SUBSET NetResources, RollbackSteps(r, "apply", tx[r], steps)
        PROVE  HandlerOK(r)
    <3>1. op[r] = "tun" /\ tx[r] \in TxRecord
      BY <2>2 DEF RollbackSteps, Step, HandlerKind, TypeOK
    <3> QED
      BY <2>2, <3>1, RollbackStepsOK
  <2>3. \/ Step(r, "apply", "record") /\ loc' = [loc EXCEPT ![r].plan = Missing \cup {"table"}]
        \/ \E steps \in SUBSET NetResources : RollbackSteps(r, "apply", tx[r], steps)
    BY <1>0
  <2> QED
    BY <2>1, <2>2, <2>3
<1>2. TypeOK'
  <2>1. ASSUME NEW steps, Create(r, steps) PROVE net' \in [NetResources -> Requests \cup {None}]
    BY <2>1 DEF Create, TypeOK
  <2>2. net' \in [NetResources -> Requests \cup {None}]
    BY <2>1 DEF TypeOK
  <2> QED
    BY <1>1, <2>2 DEF TypeOK, HandlerOK, Operations
<1>3. \A t \in Requests : Established(t) /\ core[t] # "reaped" => tx'[t] = tx[t]
  BY DEF TypeOK, Established
<1>4. stopping' => cmd # None
  BY DEF RegisteredCore
<1>5. pc[r] # "ok"
  BY DEF Step, Call, RollbackSteps, RollbackPlan, Return
<1> QED
  BY <1>1, <1>2, <1>3, <1>4, <1>5, HandlerFrame

LEMMA InvRecordAndVerify ==
  ASSUME Inv, NEW r \in Requests, RecordAndVerify(r) PROVE Inv'
<1> USE DEF Inv, RecordAndVerify, mgrVars, procVars
<1> DEFINE Recorded(state) == [tx[r] EXCEPT !.state = state, !.rollback = loc[r].plan]
<1>0. /\ op[r] = "tun" /\ tx[r] \in TxRecord /\ loc[r].plan \in SUBSET NetResources
      /\ \A state \in {"applying", "applied", "verifying"} : Recorded(state) \in TxRecord
  <2>1. tx[r] \in TxRecord /\ loc[r].plan \in SUBSET NetResources
    BY DEF TypeOK, Local
  <2>2. op[r] = "tun"
    BY DEF HandlerKind, RollbackSteps, Step, Return
  <2> QED
    BY <2>1, <2>2, RecordFields DEF FileStates, TxStates
<1>1. HandlerOK(r)
  <2>1. CASE Step(r, "record", "startCore") /\ UNCHANGED loc
    BY <2>1 DEF TypeOK, HandlerOK, Labels, Operations, StartsOnce, HandlerKind, UndoTarget, Step, Goto
  <2>2. CASE Return(r, "record", "failed")
    BY <2>2, ReturnOK
  <2>3. ASSUME NEW copy \in TxRecord, RollbackSteps(r, "record", copy, loc[r].plan)
        PROVE  HandlerOK(r)
    BY <1>0, <2>3, RollbackStepsOK
  <2> QED
    BY <1>0, <2>1, <2>2, <2>3
<1>2. TypeOK'
  <2>2. tx' \in [Requests -> TxRecord]
    <3>1. {Recorded("applying"), Recorded("applied"), Recorded("verifying")} \subseteq TxRecord
      BY <1>0
    <3> HIDE DEF Recorded
    <3>2. CASE MaybeSaved(r, {Recorded("applying"), Recorded("applied"), Recorded("verifying")})
      BY <3>1, <3>2, SavedRecord DEF TypeOK
    <3> QED
      BY <1>0, <3>2 DEF TypeOK, Recorded
  <2> QED
    BY <1>1, <2>2 DEF TypeOK, HandlerOK, Operations
<1>3. \A t \in Requests : Established(t) /\ core[t] # "reaped" => tx'[t] = tx[t]
  <2>1. pc[r] = "record"
    BY DEF Step, Return, RollbackSteps
  <2> QED
    BY <2>1 DEF TypeOK, Established, MaybeSaved
<1>4. stopping' => cmd # None
  BY DEF RegisteredCore
<1>5. pc[r] # "ok"
  BY DEF Step, Call, RollbackSteps, RollbackPlan, Return
<1> QED
  BY <1>1, <1>2, <1>3, <1>4, <1>5, HandlerFrame

LEMMA InvSaveCoreMetadata ==
  ASSUME Inv, NEW r \in Requests, SaveCoreMetadata(r) PROVE Inv'
<1> USE DEF Inv, SaveCoreMetadata, mgrVars, procVars, Step, Goto
<1>1. HandlerOK(r)
  BY ConstantTypes DEF TypeOK, HandlerOK, Labels, Operations, StartsOnce, HandlerKind, UndoTarget
<1>2. TypeOK'
  <2>1. [tx[r] EXCEPT !.children = {"core"}] \in TxRecord
    BY RecordFields DEF TypeOK, Children
  <2>2. tx' \in [Requests -> TxRecord]
    BY <2>1 DEF TypeOK, MaybeSaved
  <2> QED
    BY <1>1, <2>2 DEF TypeOK, HandlerOK, Operations
<1>3. \A t \in Requests : Established(t) /\ core[t] # "reaped" => tx'[t] = tx[t]
  BY DEF TypeOK, Established, MaybeSaved
<1>4. stopping' => cmd # None
  BY DEF RegisteredCore
<1>5. pc[r] # "ok"
  BY DEF Step, Call, RollbackSteps, RollbackPlan, Return
<1> QED
  BY <1>1, <1>2, <1>3, <1>4, <1>5, HandlerFrame

LEMMA InvSaveAdapterMetadata ==
  ASSUME Inv, NEW r \in Requests, SaveAdapterMetadata(r) PROVE Inv'
<1> USE DEF Inv, SaveAdapterMetadata, mgrVars, procVars, Step, Goto
<1>1. HandlerOK(r)
  BY ConstantTypes DEF TypeOK, HandlerOK, Labels, Operations, StartsOnce, HandlerKind, UndoTarget
<1>2. TypeOK'
  <2>1. [tx[r] EXCEPT !.children = Children] \in TxRecord
    BY RecordFields DEF TypeOK, Children
  <2>2. tx' \in [Requests -> TxRecord]
    BY <2>1 DEF TypeOK, MaybeSaved
  <2> QED
    BY <1>1, <2>2 DEF TypeOK, HandlerOK, Operations
<1>3. \A t \in Requests : Established(t) /\ core[t] # "reaped" => tx'[t] = tx[t]
  BY DEF TypeOK, Established, MaybeSaved
<1>4. stopping' => cmd # None
  BY DEF RegisteredCore
<1>5. pc[r] # "ok"
  BY DEF Step, Call, RollbackSteps, RollbackPlan, Return
<1> QED
  BY <1>1, <1>2, <1>3, <1>4, <1>5, HandlerFrame

LEMMA InvVerifyCoreStarted ==
  ASSUME Inv, NEW r \in Requests, VerifyCoreStarted(r) PROVE Inv'
<1> USE DEF Inv, VerifyCoreStarted, mgrVars, procVars, Step, Goto
<1>1. HandlerOK(r)
  BY ConstantTypes DEF TypeOK, HandlerOK, Labels, Operations, StartsOnce, HandlerKind, UndoTarget
<1>2. TypeOK'
  BY <1>1 DEF TypeOK, HandlerOK, Operations
<1>3. \A t \in Requests : Established(t) /\ core[t] # "reaped" => tx'[t] = tx[t]
  BY DEF TypeOK, Established
<1>4. stopping' => cmd # None
  BY DEF RegisteredCore
<1>5. pc[r] # "ok"
  BY DEF Step, Call, RollbackSteps, RollbackPlan, Return
<1> QED
  BY <1>1, <1>2, <1>3, <1>4, <1>5, HandlerFrame

LEMMA InvVerifyConnectivity ==
  ASSUME Inv, NEW r \in Requests, VerifyConnectivity(r) PROVE Inv'
<1> USE DEF Inv, VerifyConnectivity, mgrVars, procVars, Step, Goto
<1>1. HandlerOK(r)
  BY ConstantTypes DEF TypeOK, HandlerOK, Labels, Operations, StartsOnce, HandlerKind, UndoTarget
<1>2. TypeOK'
  BY <1>1 DEF TypeOK, HandlerOK, Operations
<1>3. \A t \in Requests : Established(t) /\ core[t] # "reaped" => tx'[t] = tx[t]
  BY DEF TypeOK, Established
<1>4. stopping' => cmd # None
  BY DEF RegisteredCore
<1>5. pc[r] # "ok"
  BY DEF Step, Call, RollbackSteps, RollbackPlan, Return
<1> QED
  BY <1>1, <1>2, <1>3, <1>4, <1>5, HandlerFrame

LEMMA InvStartAdapter ==
  ASSUME Inv, NEW r \in Requests, StartAdapter(r) PROVE Inv'
<1> USE DEF Inv, StartAdapter, mgrVars, procVars, Step, Goto
<1>1. HandlerOK(r)
  BY ConstantTypes DEF TypeOK, HandlerOK, Labels, Operations, StartsOnce, HandlerKind, UndoTarget
<1>2. TypeOK'
  <2>2. adapter' \in [Requests -> Processes]
    BY DEF TypeOK, Processes
  <2> QED
    BY <1>1, <2>2 DEF TypeOK, HandlerOK, Operations
<1>3. \A t \in Requests : Established(t) /\ core[t] # "reaped" => tx'[t] = tx[t]
  BY DEF TypeOK, Established
<1>4. stopping' => cmd # None
  BY DEF RegisteredCore
<1>5. pc[r] # "ok"
  BY DEF Step, Call, RollbackSteps, RollbackPlan, Return
<1> QED
  BY <1>1, <1>2, <1>3, <1>4, <1>5, HandlerFrame

LEMMA InvStopAdapter ==
  ASSUME Inv, NEW r \in Requests, StopAdapter(r) PROVE Inv'
<1> USE DEF Inv, StopAdapter, mgrVars, procVars
<1>1. HandlerOK(r)
  <2>1. CASE Return(r, "stopAdapter", "failed")
    BY <2>1, ReturnOK
  <2>2. CASE op[r] = "tun" /\ RollbackPlan(r, "stopAdapter")
    BY <2>2, RollbackPlanOK
  <2>3. CASE /\ Step(r, "stopAdapter", IF op[r] = "tun" THEN "stopCore" ELSE "rbLoad")
             /\ UNCHANGED loc
    BY <2>3 DEF TypeOK, HandlerOK, Labels, Operations, StartsOnce, HandlerKind, UndoTarget,
                Established, Step, Goto
  <2> QED
    BY <2>1, <2>2, <2>3
<1>2. TypeOK'
  <2>2. adapter' \in [Requests -> Processes]
    BY DEF TypeOK, Processes
  <2> QED
    BY <1>1, <2>2 DEF TypeOK, HandlerOK, Operations
<1>3. \A t \in Requests : Established(t) /\ core[t] # "reaped" => tx'[t] = tx[t]
  BY DEF TypeOK, Established
<1>4. stopping' => cmd # None
  BY DEF RegisteredCore
<1>5. pc[r] # "ok"
  BY DEF Step, Call, RollbackSteps, RollbackPlan, Return
<1> QED
  BY <1>1, <1>2, <1>3, <1>4, <1>5, HandlerFrame

LEMMA InvStopCore ==
  ASSUME Inv, NEW r \in Requests, StopCore(r) PROVE Inv'
<1> USE DEF Inv, StopCore, mgrVars, procVars
<1>0. op[r] = "tun" /\ pc[r] = "stopCore"
  BY DEF HandlerKind, Step, RollbackPlan
<1>1. HandlerOK(r)
  <2>1. CASE RollbackPlan(r, "stopCore")
    BY <1>0, <2>1, RollbackPlanOK
  <2>2. CASE Step(r, "stopCore", "waitCore") /\ UNCHANGED loc
    BY <1>0, <2>2 DEF TypeOK, HandlerOK, Labels, Operations, StartsOnce, HandlerKind, UndoTarget,
                Step, Goto
  <2> QED
    BY <2>1, <2>2
<1>2. TypeOK'
  BY <1>1 DEF TypeOK, HandlerOK, Operations
<1>3. \A t \in Requests : Established(t) /\ core[t] # "reaped" => tx'[t] = tx[t]
  BY DEF TypeOK, Established
<1>4. stopping' => cmd # None
  BY ManagerAssumption DEF RegisteredCore
<1>5. pc[r] # "ok"
  BY DEF Step, Call, RollbackSteps, RollbackPlan, Return
<1> QED
  BY <1>1, <1>2, <1>3, <1>4, <1>5, HandlerFrame

LEMMA InvLoadTx ==
  ASSUME Inv, NEW r \in Requests, LoadTx(r) PROVE Inv'
<1> USE DEF Inv, LoadTx, mgrVars, procVars
<1>0. /\ loc[r].tx \in Requests /\ tx[loc[r].tx] \in TxRecord /\ loc[r] \in Local
      /\ pc[r] = "rbLoad"
  BY DEF TypeOK, UndoTarget, HandlerKind, Established
<1>1. HandlerOK(r)
  <2>1. CASE Return(r, "rbLoad", "failed")
    BY <2>1, ReturnOK
  <2>2. CASE Goto(r, "rbSave") /\ loc' = [loc EXCEPT ![r].copy = tx[loc[r].tx],
                 ![r].plan = IF op[r] = "tun" THEN @ ELSE tx[loc[r].tx].rollback]
    <3> DEFINE l == [loc[r] EXCEPT !.copy = tx[loc[r].tx],
                       !.plan = IF op[r] = "tun" THEN @ ELSE tx[loc[r].tx].rollback]
    <3>1. l \in Local /\ l.tx = loc[r].tx
      BY <1>0, RecordFields DEF Local
    <3>2. loc' = [loc EXCEPT ![r] = l] /\ pc' = [pc EXCEPT ![r] = "rbSave"]
      BY <2>2 DEF TypeOK, Goto
    <3> HIDE DEF l
    <3> QED
      BY <1>0, <3>1, <3>2 DEF TypeOK, HandlerOK, Labels, Operations, StartsOnce, HandlerKind,
                              UndoTarget, Established
  <2> QED
    BY <2>1, <2>2
<1>2. TypeOK'
  BY <1>1 DEF TypeOK, HandlerOK, Operations
<1>3. \A t \in Requests : Established(t) /\ core[t] # "reaped" => tx'[t] = tx[t]
  BY DEF TypeOK, Established
<1>4. stopping' => cmd # None
  BY DEF RegisteredCore
<1>5. pc[r] # "ok"
  BY DEF Step, Call, RollbackSteps, RollbackPlan, Return
<1> QED
  BY <1>1, <1>2, <1>3, <1>4, <1>5, HandlerFrame

LEMMA InvBeginRollback ==
  ASSUME Inv, NEW r \in Requests, BeginRollback(r) PROVE Inv'
<1> USE DEF Inv, BeginRollback, mgrVars, procVars
<1>0. loc[r].tx \in Requests /\ loc[r] \in Local /\ loc[r].copy \in TxRecord /\ pc[r] = "rbSave"
  BY DEF TypeOK, Local, UndoTarget, HandlerKind, Established
<1> DEFINE Copy(state) == [loc[r].copy EXCEPT !.state = state]
<1>a. /\ \A state \in FileStates : Copy(state) \in TxRecord
      /\ {"rolling_back", "failed"} \subseteq FileStates
  BY <1>0, RecordFields DEF FileStates, TxStates
<1>1. HandlerOK(r)
  <2>1. CASE RolledBack(r, "rbSave")
    <3>1. CASE op[r] = "tun"
      BY <2>1, <3>1, ReturnOK DEF RolledBack
    <3>2. CASE op[r] # "tun"
      <4> DEFINE l == [NoLocal EXCEPT !.tx = loc[r].tx]
      <4>1. l \in Local /\ l.tx = loc[r].tx
        BY <1>0, ConstantTypes DEF Local
      <4>2. loc' = [loc EXCEPT ![r] = l] /\ pc' = [pc EXCEPT ![r] = "rmFile"]
        BY <2>1, <3>2 DEF RolledBack, Step, Goto
      <4> HIDE DEF l
      <4> QED
        BY <1>0, <3>2, <4>1, <4>2 DEF TypeOK, HandlerOK, Labels, Operations, StartsOnce,
                                      HandlerKind, UndoTarget, Established
    <3> QED
      BY <3>1, <3>2
  <2>2. CASE Return(r, "rbSave", "failed")
    BY <2>2, ReturnOK
  <2>3. CASE Goto(r, "rbExec") /\ loc' = [loc EXCEPT ![r].copy.state = "rolling_back"]
    <3> DEFINE l == [loc[r] EXCEPT !.copy.state = "rolling_back"]
    <3>1. l \in Local /\ l.tx = loc[r].tx
      BY <1>0, <1>a, LocalUpdates DEF Local
    <3>2. loc' = [loc EXCEPT ![r] = l] /\ pc' = [pc EXCEPT ![r] = "rbExec"]
      BY <2>3 DEF TypeOK, Goto
    <3> HIDE DEF l
    <3> QED
      BY <1>0, <3>1, <3>2 DEF TypeOK, HandlerOK, Labels, Operations, StartsOnce, HandlerKind,
                              UndoTarget, Established
  <2> QED
    BY <2>1, <2>2, <2>3
<1>2. TypeOK'
  <2>2. tx' \in [Requests -> TxRecord]
    <3>1. {Copy("rolling_back")} \cup (IF loc[r].mark THEN {loc[r].copy, Copy("failed")} ELSE {})
            \subseteq TxRecord
      BY <1>0, <1>a
    <3> HIDE DEF Copy
    <3>2. CASE MaybeSaved(loc[r].tx, {Copy("rolling_back")} \cup
                 IF loc[r].mark THEN {loc[r].copy, Copy("failed")} ELSE {})
      BY <3>1, <3>2, SavedRecord DEF TypeOK
    <3> QED
      BY <1>a, <3>2 DEF TypeOK, Copy
  <2>3. adapter' \in [Requests -> Processes]
    BY DEF TypeOK, Processes
  <2>4. signalled' \subseteq Requests /\ config' \in Requests \cup {None}
    BY <1>0 DEF TypeOK
  <2> QED
    BY <1>1, <2>2, <2>3, <2>4 DEF TypeOK, HandlerOK, Operations
<1>3. \A t \in Requests : Established(t) /\ core[t] # "reaped" => tx'[t] = tx[t]
  BY <1>0 DEF TypeOK, Established, UndoTarget, HandlerKind, MaybeSaved
<1>4. stopping' => cmd # None
  BY DEF RegisteredCore
<1>5. pc[r] # "ok"
  BY DEF Step, Call, RollbackSteps, RollbackPlan, Return
<1> QED
  BY <1>1, <1>2, <1>3, <1>4, <1>5, HandlerFrame

LEMMA InvExecuteRollback ==
  ASSUME Inv, NEW r \in Requests, ExecuteRollback(r) PROVE Inv'
<1> USE DEF Inv, ExecuteRollback, mgrVars, procVars
<1>0. loc[r].tx \in Requests /\ loc[r] \in Local /\ loc[r].copy \in TxRecord /\ pc[r] = "rbExec"
  BY DEF TypeOK, Local, UndoTarget, HandlerKind, Established
<1> DEFINE Copy(state) == [loc[r].copy EXCEPT !.state = state]
<1>a. Copy("rolled_back") \in TxRecord /\ Copy("failed") \in TxRecord
  BY <1>0, RecordFields DEF FileStates, TxStates
<1>1. HandlerOK(r)
  <2>1. CASE RolledBack(r, "rbExec")
    <3>1. CASE op[r] = "tun"
      BY <2>1, <3>1, ReturnOK DEF RolledBack
    <3>2. CASE op[r] # "tun"
      <4> DEFINE l == [NoLocal EXCEPT !.tx = loc[r].tx]
      <4>1. l \in Local /\ l.tx = loc[r].tx
        BY <1>0, ConstantTypes DEF Local
      <4>2. loc' = [loc EXCEPT ![r] = l] /\ pc' = [pc EXCEPT ![r] = "rmFile"]
        BY <2>1, <3>2 DEF RolledBack, Step, Goto
      <4> HIDE DEF l
      <4> QED
        BY <1>0, <3>2, <4>1, <4>2 DEF TypeOK, HandlerOK, Labels, Operations, StartsOnce,
                                      HandlerKind, UndoTarget, Established
    <3> QED
      BY <3>1, <3>2
  <2>2. CASE Return(r, "rbExec", "failed")
    BY <2>2, ReturnOK
  <2> QED
    BY <2>1, <2>2
<1>2. TypeOK'
  <2>2. tx' \in [Requests -> TxRecord]
    <3> HIDE DEF Copy
    <3>1. CASE MaybeSaved(loc[r].tx, {Copy("rolled_back")})
      BY <1>a, <3>1, SavedRecord DEF TypeOK
    <3>2. CASE MaybeSaved(loc[r].tx, IF loc[r].mark THEN {Copy("failed")} ELSE {})
      BY <1>a, <3>2, SavedRecord DEF TypeOK
    <3> QED
      BY <1>a, <3>1, <3>2 DEF TypeOK, Copy
  <2>3. ASSUME NEW gone, Remove(gone) PROVE net' \in [NetResources -> Requests \cup {None}]
    BY <2>3 DEF TypeOK, Remove
  <2>4. net' \in [NetResources -> Requests \cup {None}]
    BY <2>3
  <2> QED
    BY <1>1, <2>2, <2>4 DEF TypeOK, HandlerOK, Operations
<1>3. \A t \in Requests : Established(t) /\ core[t] # "reaped" => tx'[t] = tx[t]
  BY <1>0 DEF TypeOK, Established, UndoTarget, HandlerKind, MaybeSaved
<1>4. stopping' => cmd # None
  BY DEF RegisteredCore
<1>5. pc[r] # "ok"
  BY DEF Step, Call, RollbackSteps, RollbackPlan, Return
<1> QED
  BY <1>1, <1>2, <1>3, <1>4, <1>5, HandlerFrame

LEMMA InvRemoveConfig ==
  ASSUME Inv, NEW r \in Requests, RemoveConfig(r) PROVE Inv'
<1> USE DEF Inv, RemoveConfig, mgrVars, procVars
<1>1. HandlerOK(r)
  BY ReturnOK
<1>2. TypeOK'
  BY <1>1 DEF TypeOK, HandlerOK, Operations
<1>3. \A t \in Requests : Established(t) /\ core[t] # "reaped" => tx'[t] = tx[t]
  BY DEF TypeOK, Established
<1>4. stopping' => cmd # None
  BY DEF RegisteredCore
<1>5. pc[r] # "ok"
  BY DEF Step, Call, RollbackSteps, RollbackPlan, Return
<1> QED
  BY <1>1, <1>2, <1>3, <1>4, <1>5, HandlerFrame

LEMMA InvWaitCore ==
  ASSUME Inv, NEW r \in Requests, WaitCore(r) PROVE Inv'
<1> USE DEF Inv, WaitCore, mgrVars, procVars
<1>0. pc[r] = "waitCore" /\ loc[r] \in Local
  BY DEF TypeOK
<1>1. HandlerOK(r)
  <2>1. CASE Return(r, "waitCore", "ok")
    BY <2>1, ReturnOK
  <2>2. CASE op[r] # "disconnect" /\ RollbackPlan(r, "waitCore")
    <3>1. op[r] = "tun"
      BY <1>0, <2>2 DEF HandlerKind
    <3> QED
      BY <2>2, <3>1, RollbackPlanOK
  <2>3. CASE /\ op[r] = "disconnect" /\ loc[r].mode = "tun" /\ Goto(r, "stopAdapter")
             /\ loc' = [loc EXCEPT ![r].core = None]
    <3> DEFINE l == [loc[r] EXCEPT !.core = None]
    <3>1. l \in Local /\ l.tx = loc[r].tx
      BY <1>0, LocalUpdates DEF Local
    <3>2. loc' = [loc EXCEPT ![r] = l] /\ pc' = [pc EXCEPT ![r] = "stopAdapter"]
      BY <2>3 DEF TypeOK, Goto
    <3>3. Established(loc[r].tx) /\ core[loc[r].tx] = "reaped"
      BY <1>0, <2>3 DEF UndoTarget
    <3> HIDE DEF l
    <3> QED
      BY <1>0, <2>3, <3>1, <3>2, <3>3 DEF TypeOK, HandlerOK, Labels, Operations, StartsOnce,
                                    HandlerKind, UndoTarget, Established
  <2> QED
    BY <2>1, <2>2, <2>3
<1>2. TypeOK'
  BY <1>1 DEF TypeOK, HandlerOK, Operations
<1>3. \A t \in Requests : Established(t) /\ core[t] # "reaped" => tx'[t] = tx[t]
  BY DEF TypeOK, Established
<1>4. stopping' => cmd # None
  BY DEF RegisteredCore
<1>5. pc[r] # "ok"
  BY DEF Step, Call, RollbackSteps, RollbackPlan, Return
<1> QED
  BY <1>1, <1>2, <1>3, <1>4, <1>5, HandlerFrame

LEMMA InvRemoveTxFile ==
  ASSUME Inv, NEW r \in Requests, RemoveTxFile(r) PROVE Inv'
<1> USE DEF Inv, RemoveTxFile, mgrVars, procVars, Step, Goto
<1>1. HandlerOK(r)
  <2>1. CASE Return(r, "rmFile", "failed")
    BY <2>1, ReturnOK
  <2>2. CASE Step(r, "rmFile", "setInactive") /\ UNCHANGED loc
    BY <2>2 DEF TypeOK, HandlerOK, Labels, Operations, StartsOnce, HandlerKind, UndoTarget
  <2> QED
    BY <2>1, <2>2
<1>2. TypeOK'
  <2>2. tx' \in [Requests -> TxRecord]
    BY ConstantTypes DEF TypeOK
  <2> QED
    BY <1>1, <2>2 DEF TypeOK, HandlerOK, Operations
<1>3. \A t \in Requests : Established(t) /\ core[t] # "reaped" => tx'[t] = tx[t]
  BY DEF TypeOK, Established, UndoTarget, HandlerKind, Return
<1>4. stopping' => cmd # None
  BY DEF RegisteredCore
<1>5. pc[r] # "ok"
  BY DEF Step, Call, RollbackSteps, RollbackPlan, Return
<1> QED
  BY <1>1, <1>2, <1>3, <1>4, <1>5, HandlerFrame

LEMMA InvCoreExit ==
  ASSUME Inv, NEW c \in Requests, CoreExit(c) PROVE Inv'
<1> USE DEF Inv, CoreExit
<1>1. TypeOK'
  BY DEF TypeOK, Processes
<1>2. RegisteredCore'
  BY DEF TypeOK, RegisteredCore
<1>3. ActiveIsBacked'
  BY DEF ActiveIsBacked
<1>4. TunConnection'
  BY DEF TypeOK, TunConnection, Established
<1>5. \A q \in Requests : StartsOnce(q)' /\ HandlerKind(q)' /\ UndoTarget(q)'
  BY DEF TypeOK, StartsOnce, HandlerKind, UndoTarget, Established
<1> QED
  BY <1>1, <1>2, <1>3, <1>4, <1>5 DEF Inv

LEMMA InvAdapterExit ==
  ASSUME Inv, NEW a \in Requests, AdapterExit(a) PROVE Inv'
<1> USE DEF Inv, AdapterExit
<1>1. TypeOK'
  BY DEF TypeOK, Processes
<1>2. RegisteredCore'
  BY DEF RegisteredCore
<1>3. ActiveIsBacked'
  BY DEF ActiveIsBacked
<1>4. TunConnection'
  BY DEF TunConnection, Established
<1>5. \A q \in Requests : StartsOnce(q)' /\ HandlerKind(q)' /\ UndoTarget(q)'
  BY DEF StartsOnce, HandlerKind, UndoTarget, Established
<1> QED
  BY <1>1, <1>2, <1>3, <1>4, <1>5 DEF Inv

LEMMA InvWaitForExit ==
  ASSUME Inv, NEW c \in Requests, WaitForExit(c) PROVE Inv'
<1> USE DEF Inv, WaitForExit
<1>1. TypeOK'
  <2>1. [connection EXCEPT !.status = "error"] \in Connection
    BY DEF TypeOK, Connection
  <2> QED
    BY <2>1, ConstantTypes DEF TypeOK, Processes
<1>2. RegisteredCore'
  BY ManagerAssumption DEF TypeOK, RegisteredCore
<1>3. ActiveIsBacked'
  BY DEF TypeOK, ActiveIsBacked, Inactive, Connection
<1>4. TunConnection'
  <2>1. cmd = c
    BY DEF RegisteredCore
  <2>2. connection'.mode = "tun" =>
          connection.mode = "tun" /\ connection'.tx = connection.tx
    BY DEF TypeOK, Connection, Inactive
  <2> QED
    BY <2>1, <2>2 DEF TypeOK, TunConnection, Established
<1>5. \A q \in Requests : StartsOnce(q)' /\ HandlerKind(q)' /\ UndoTarget(q)'
  BY DEF TypeOK, StartsOnce, HandlerKind, UndoTarget, Established
<1> QED
  BY <1>1, <1>2, <1>3, <1>4, <1>5 DEF Inv

LEMMA InvConnectProxyOnly ==
  ASSUME Inv, NEW r \in Requests, ConnectProxyOnly(r) PROVE Inv'
<1> USE DEF Inv, ConnectProxyOnly, Busy, Call, Step, Goto, StartXray, StartXrayFails
<1>1. TypeOK'
  <2>1. [status |-> "active", mode |-> "proxy-only", tx |-> None, path |-> TRUE] \in Connection
    BY DEF Connection
  <2>2. pc' \in [Requests -> Labels]
    BY DEF TypeOK, Labels
  <2>3. core' \in [Requests -> Processes]
    BY DEF TypeOK, Processes
  <2> QED
    BY <2>1, <2>2, <2>3 DEF TypeOK
<1>2. RegisteredCore'
  BY ManagerAssumption DEF TypeOK, RegisteredCore, StartsOnce
<1>3. ActiveIsBacked'
  BY ManagerAssumption DEF TypeOK, ActiveIsBacked
<1>4. TunConnection'
  BY ManagerAssumption DEF TypeOK, TunConnection, Established
<1>5. \A q \in Requests : StartsOnce(q)' /\ HandlerKind(q)' /\ UndoTarget(q)'
  BY DEF TypeOK, StartsOnce, HandlerKind, UndoTarget, Established
<1> QED
  BY <1>1, <1>2, <1>3, <1>4, <1>5 DEF Inv

LEMMA InvStartCore ==
  ASSUME Inv, NEW r \in Requests, StartCore(r) PROVE Inv'
<1> USE DEF Inv, StartCore
<1>0. pc[r] = "startCore" /\ op[r] = "tun"
  BY DEF HandlerKind, RollbackPlan, Step
<1>a. CASE RollbackPlan(r, "startCore") /\ UNCHANGED <<core, cmd, stopping>>
  <2>1. HandlerOK(r)
    BY <1>0, <1>a, RollbackPlanOK
  <2>2. TypeOK'
    BY <1>a, <2>1 DEF TypeOK, HandlerOK, Operations, StartXray, StartXrayFails
  <2>3. stopping' => cmd # None
    BY <1>a DEF RegisteredCore
  <2> QED
    BY <1>0, <1>a, <2>1, <2>2, <2>3, HandlerFrame
<1>b. CASE ~Busy /\ StartXray(r) /\ Step(r, "startCore", "saveCore") /\ loc' = [loc EXCEPT ![r].core = r]
  <2> USE <1>0, <1>b DEF Busy, StartXray, Step, Goto
  <2>1. TypeOK'
    <3>1. [loc[r] EXCEPT !.core = r] \in Local
      BY LocalUpdates DEF TypeOK
    <3>2. pc' \in [Requests -> Labels]
      BY DEF TypeOK, Labels
    <3>3. core' \in [Requests -> Processes]
      BY DEF TypeOK, Processes
    <3> QED
      BY <3>1, <3>2, <3>3 DEF TypeOK
  <2>2. RegisteredCore'
    BY ManagerAssumption DEF TypeOK, RegisteredCore, StartsOnce
  <2>3. ActiveIsBacked'
    BY DEF ActiveIsBacked
  <2>4. TunConnection'
    BY ManagerAssumption DEF TypeOK, TunConnection, Established
  <2>5. \A q \in Requests : StartsOnce(q)' /\ HandlerKind(q)' /\ UndoTarget(q)'
    BY DEF TypeOK, StartsOnce, HandlerKind, UndoTarget, Established
  <2> QED
    BY <2>1, <2>2, <2>3, <2>4, <2>5
<1> QED
  BY <1>a, <1>b DEF StartXrayFails

LEMMA InvCommitActiveState ==
  ASSUME Inv, NEW r \in Requests, CommitActiveState(r) PROVE Inv'
<1> USE DEF Inv, CommitActiveState, procVars
<1>0. pc[r] = "commit" /\ op[r] = "tun" /\ tx[r] \in TxRecord
  BY DEF TypeOK, HandlerKind, Return, Step
<1>1. CASE UNCHANGED connection
  <2>1. HandlerOK(r)
    <3>1. CASE Return(r, "commit", "ok")
      BY <3>1, ReturnOK
    <3>2. CASE Step(r, "commit", "stopAdapter") /\ loc' \in {loc, [loc EXCEPT ![r].core = None]}
      <4>1. [loc[r] EXCEPT !.core = None] \in Local
        BY LocalUpdates DEF TypeOK
      <4>2. loc' \in [Requests -> Local] /\ \A q \in Requests \ {r} : loc'[q] = loc[q]
        BY <3>2, <4>1 DEF TypeOK
      <4>3. pc' = [pc EXCEPT ![r] = "stopAdapter"] /\ op' = op
        BY <3>2 DEF Step, Goto
      <4> QED
        BY <1>0, <4>2, <4>3 DEF TypeOK, HandlerOK, Labels, Operations, StartsOnce, HandlerKind,
                                UndoTarget
    <3> QED
      BY <3>1, <3>2
  <2>2. tx' \in [Requests -> TxRecord] /\ \A t \in Requests \ {r} : tx'[t] = tx[t]
    <3>1. [tx[r] EXCEPT !.state = "committed"] \in TxRecord
      BY <1>0, RecordFields DEF FileStates, TxStates
    <3> QED
      BY <3>1 DEF TypeOK, MaybeSaved
  <2>3. TypeOK'
    BY <1>1, <2>1, <2>2 DEF TypeOK, HandlerOK, Operations
  <2>4. stopping' => cmd # None
    BY DEF RegisteredCore
  <2>5. \A t \in Requests : Established(t) /\ core[t] # "reaped" => tx'[t] = tx[t]
    BY <1>0, <2>2 DEF Established
  <2> QED
    BY <1>0, <1>1, <2>1, <2>2, <2>3, <2>4, <2>5, HandlerFrame
<1>2. CASE /\ cmd = r
           /\ Return(r, "commit", "ok")
           /\ tx' = [tx EXCEPT ![r].state = "committed"]
           /\ connection' = [status |-> "active", mode |-> "tun", tx |-> r, path |-> TRUE]
  <2>1. HandlerOK(r)
    BY <1>2, ReturnOK
  <2>2. TypeOK'
    <3>1. [tx[r] EXCEPT !.state = "committed"] \in TxRecord
      BY <1>0, RecordFields DEF FileStates, TxStates
    <3>2. [status |-> "active", mode |-> "tun", tx |-> r, path |-> TRUE] \in Connection
      BY DEF Connection
    <3> QED
      BY <1>2, <2>1, <3>1, <3>2 DEF TypeOK, HandlerOK, Operations
  <2>3. RegisteredCore'
    BY DEF RegisteredCore
  <2>4. tx'[r].state = "committed" /\ pc'[r] = "ok"
    BY <1>0, <1>2 DEF TypeOK, TxRecord, Return, Step, Goto
  <2>5. ActiveIsBacked' /\ TunConnection'
    BY <1>0, <1>2, <2>4, ManagerAssumption DEF ActiveIsBacked, TunConnection, Established
  <2>6. ASSUME NEW q \in Requests PROVE StartsOnce(q)' /\ HandlerKind(q)' /\ UndoTarget(q)'
    BY <1>0, <2>1, <2>4, <2>6 DEF HandlerOK, StartsOnce, HandlerKind, UndoTarget, Established
  <2> QED
    BY <2>2, <2>3, <2>5, <2>6
<1> QED
  BY <1>1, <1>2

LEMMA InvSetInactive ==
  ASSUME Inv, NEW r \in Requests, SetInactive(r) PROVE Inv'
<1> USE DEF Inv, SetInactive, procVars
<1>0. HandlerOK(r) /\ pc[r] = "setInactive"
  BY ReturnOK DEF Return, Step
<1>1. TypeOK'
  BY <1>0, ConstantTypes DEF TypeOK, HandlerOK, Operations
<1>2. RegisteredCore'
  BY DEF RegisteredCore
<1>3. ActiveIsBacked'
  BY DEF ActiveIsBacked, Inactive
<1>4. TunConnection'
  BY DEF TunConnection, Inactive
<1>5. ASSUME NEW q \in Requests PROVE StartsOnce(q)' /\ HandlerKind(q)' /\ UndoTarget(q)'
  BY <1>0, <1>5 DEF HandlerOK, StartsOnce, HandlerKind, UndoTarget, Established
<1> QED
  BY <1>1, <1>2, <1>3, <1>4, <1>5 DEF Inv

LEMMA InvDisconnect ==
  ASSUME Inv, NEW r \in Requests, Disconnect(r) PROVE Inv'
<1> USE DEF Inv, Disconnect, Call, Step, Goto
<1>0. pc[r] = "idle"
  OBVIOUS
<1>1. TypeOK'
  <2>1. pc' \in [Requests -> Labels]
    BY DEF TypeOK, Labels
  <2>2. loc' \in [Requests -> Local]
    <3>1. [loc[r] EXCEPT !.path = connection.path] \in Local
      BY LocalUpdates DEF TypeOK, Connection
    <3>2. [NoLocal EXCEPT !.core = cmd, !.mode = connection.mode, !.tx = connection.tx,
             !.path = connection.path] \in Local
      BY ConstantTypes DEF TypeOK, Local, Connection
    <3> QED
      BY <3>1, <3>2 DEF TypeOK
  <2>3. signalled' \subseteq Requests
    BY DEF TypeOK
  <2> QED
    BY <2>1, <2>2, <2>3, ConstantTypes DEF TypeOK
<1>2. RegisteredCore'
  BY DEF RegisteredCore
<1>3. ActiveIsBacked'
  BY DEF ActiveIsBacked, Inactive
<1>4. TunConnection'
  BY <1>0 DEF TypeOK, TunConnection, Established, Inactive
<1>5. ASSUME NEW q \in Requests PROVE StartsOnce(q)' /\ HandlerKind(q)' /\ UndoTarget(q)'
  <2>1. CASE q # r
    BY <1>0, <2>1 DEF TypeOK, StartsOnce, HandlerKind, UndoTarget, Established
  <2>2. CASE q = r /\ pc'[r] \in {"rmConfig", "failed"}
    BY <1>0, <2>2 DEF TypeOK, StartsOnce, HandlerKind, UndoTarget
  <2>3. CASE q = r /\ pc'[r] = "waitCore"
    <3> DEFINE l == [NoLocal EXCEPT !.core = cmd, !.mode = connection.mode, !.tx = connection.tx,
                       !.path = connection.path]
    <3>a. l.mode = connection.mode /\ l.tx = connection.tx /\ l.core = cmd
      BY ConstantTypes DEF Local
    <3>b. loc' = [loc EXCEPT ![r] = l]
      BY <2>3 DEF TypeOK
    <3> HIDE DEF l
    <3>1. loc'[r].mode = connection.mode /\ loc'[r].tx = connection.tx /\ loc'[r].core = cmd
      BY <3>a, <3>b DEF TypeOK
    <3> QED
      BY <1>0, <2>3, <3>1 DEF TypeOK, StartsOnce, HandlerKind, UndoTarget, TunConnection, Established
  <2> QED
    BY <2>1, <2>2, <2>3 DEF TypeOK
<1> QED
  BY <1>1, <1>2, <1>3, <1>4, <1>5 DEF Inv

\* Every section of every handler, and every process exit, preserves Inv.
LEMMA InvNext == Inv /\ [Next]_vars => Inv'
<1> SUFFICES ASSUME Inv, [Next]_vars PROVE Inv'
  OBVIOUS
<1>1. ASSUME NEW r \in Requests, Continue(r) PROVE Inv'
  BY <1>1, InvCreateTx, InvApplyPlan, InvRecordAndVerify, InvStartCore, InvSaveCoreMetadata,
     InvVerifyCoreStarted, InvStartAdapter, InvSaveAdapterMetadata, InvVerifyConnectivity,
     InvCommitActiveState, InvStopAdapter, InvStopCore, InvWaitCore, InvLoadTx, InvBeginRollback,
     InvExecuteRollback, InvRemoveConfig, InvRemoveTxFile, InvSetInactive DEF Continue
<1>2. ASSUME NEW r \in Requests, ConnectProxyOnly(r) \/ ConnectTun(r) \/ Disconnect(r)
      PROVE  Inv'
  BY <1>2, InvConnectProxyOnly, InvConnectTun, InvDisconnect
<1>3. ASSUME NEW r \in Requests, CoreExit(r) \/ WaitForExit(r) \/ AdapterExit(r) PROVE Inv'
  BY <1>3, InvCoreExit, InvWaitForExit, InvAdapterExit
<1>4. CASE UNCHANGED vars
  BY <1>4 DEF vars, Inv, TypeOK, RegisteredCore, ActiveIsBacked, TunConnection, StartsOnce,
              HandlerKind, UndoTarget, Established
<1> QED
  BY <1>1, <1>2, <1>3, <1>4 DEF Next, AllServed

\* The types hold, a TUN rollback is only ever at work on its own transaction
\* or on a committed one whose core is gone, and so on: Inv is invariant.
THEOREM Invariance == Spec => []Inv
BY InvInit, InvNext, PTL DEF Spec

\* The variables keep their types: the fields of XrayManager, the files, the
\* host and the local variables of the handlers.
THEOREM TypeCorrect == Spec => []TypeOK
<1>1. Inv => TypeOK
  BY DEF Inv
<1> QED
  BY <1>1, Invariance, PTL

\* At most one Xray is alive, and it is the one the manager registered.
THEOREM OneCore == Spec => []RegisteredCore
<1>1. Inv => RegisteredCore
  BY DEF Inv
<1> QED
  BY <1>1, Invariance, PTL

\* An active connection has its core and, in TUN mode, its committed record.
THEOREM ActiveBacked == Spec => []ActiveIsBacked
<1>1. Inv => ActiveIsBacked
  BY DEF Inv
<1> QED
  BY <1>1, Invariance, PTL

-----------------------------------------------------------------------------
(* What a transaction record says of the host (RecordCoversHost and        *)
(* RolledBackIsClean).  RecordInv strengthens both: it follows a           *)
(* transaction through the stages of its connect, and says what a rollback *)
(* at work, a connect's or a disconnect's, has to hold in memory.  A step  *)
(* of one handler touches its own record and at most the one it undoes, so *)
(* RecordFramed leaves three facts to prove of each action.                *)

\* A step of the handler r writes no record but r's own and t's, and adds
\* nothing to the host but while it applies its plan.
RecordFrame(r, t) ==
  /\ \A q \in Requests \ {r} : pc'[q] = pc[q] /\ op'[q] = op[q] /\ loc'[q] = loc[q]
  /\ \A q \in Requests \ {r, t} : tx'[q] = tx[q]
  /\ \A q \in Requests : Owned(q)' \subseteq Owned(q) \/ (q = r /\ pc[r] = "apply")

Moved(r) ==
  \A q \in Requests \ {r} : pc'[q] = pc[q] /\ op'[q] = op[q] /\ loc'[q] = loc[q]

RecordOK(t) == RecordStage(t) /\ RecordTruth(t)

LEMMA RecordFramed ==
  ASSUME Inv, RecordInv, NEW r \in Requests, NEW t \in Requests, RecordFrame(r, t),
         RecordOK(r)', RecordOK(t)', RollbackCovers(r)'
  PROVE  RecordInv'
<1>1. ASSUME NEW q \in Requests \ {r, t} PROVE RecordOK(q)'
  <2>1. /\ pc'[q] = pc[q] /\ op'[q] = op[q] /\ loc'[q] = loc[q] /\ tx'[q] = tx[q]
        /\ Owned(q)' \subseteq Owned(q)
    BY <1>1 DEF RecordFrame
  <2>2. RecordStage(q) /\ RecordTruth(q)
    BY <1>1 DEF RecordInv
  <2> QED
    BY <2>1, <2>2 DEF RecordOK, RecordStage, Reported, RecordTruth, Established
<1>2. ASSUME NEW q \in Requests \ {r} PROVE RollbackCovers(q)'
  <2>1. pc'[q] = pc[q] /\ op'[q] = op[q] /\ loc'[q] = loc[q]
    BY <1>2 DEF RecordFrame
  <2>2. RollbackCovers(q) /\ UndoTarget(q) /\ HandlerKind(q)
    BY <1>2 DEF RecordInv, Inv
  <2>3. CASE pc[q] \in {"rbSave", "rbExec"}
    <3>1. loc[q].tx \in Requests /\ (loc[q].tx # r \/ pc[r] # "apply")
      BY <1>2, <2>2, <2>3 DEF UndoTarget, HandlerKind, Established
    <3>2. Owned(loc[q].tx)' \subseteq Owned(loc[q].tx)
      BY <2>1, <3>1 DEF RecordFrame, Owned
    <3> QED
      BY <2>1, <2>2, <3>2 DEF RollbackCovers, Owned
  <2> QED
    BY <2>1, <2>2, <2>3 DEF RollbackCovers
<1> QED
  BY <1>1, <1>2 DEF RecordInv, RecordOK

\* A step that leaves the host and the records alone.
LEMMA RecordsUntouched ==
  ASSUME Inv, RecordInv, NEW r \in Requests, Moved(r), UNCHANGED <<tx, net>>,
         RecordStage(r)', RollbackCovers(r)'
  PROVE  RecordInv'
<1>1. RecordFrame(r, r)
  BY DEF Moved, RecordFrame, Owned
<1>2. RecordTruth(r)'
  BY DEF RecordInv, RecordTruth, Owned
<1> QED
  BY <1>1, <1>2, RecordFramed DEF RecordOK

LEMMA ReturnLands ==
  ASSUME TypeOK, NEW r \in Requests, NEW from, NEW result, Return(r, from, result), UNCHANGED op
  PROVE  Moved(r) /\ pc[r] = from /\ pc'[r] = result /\ ~loc'[r].mark
BY DEF TypeOK, Return, Step, Goto, Moved, NoLocal

LEMMA StepLands ==
  ASSUME TypeOK, NEW r \in Requests, NEW from, NEW to, Step(r, from, to), UNCHANGED op
  PROVE  /\ \A q \in Requests \ {r} : pc'[q] = pc[q]
         /\ pc[r] = from /\ pc'[r] = to
         /\ UNCHANGED loc => Moved(r) /\ loc'[r] = loc[r]
         /\ \A c : loc' = [loc EXCEPT ![r].core = c]
              => Moved(r) /\ loc'[r].mark = loc[r].mark /\ loc'[r].plan = loc[r].plan
         /\ \A p : loc' = [loc EXCEPT ![r].plan = p]
              => Moved(r) /\ loc'[r].mark = loc[r].mark /\ loc'[r].plan = p
<1>1. /\ pc[r] = from /\ pc'[r] = to
      /\ \A q \in Requests \ {r} : pc'[q] = pc[q]
  BY DEF TypeOK, Step, Goto
<1>2. loc[r] \in Local
  BY DEF TypeOK
<1>3. ASSUME NEW c, loc' = [loc EXCEPT ![r].core = c]
      PROVE  Moved(r) /\ loc'[r].mark = loc[r].mark /\ loc'[r].plan = loc[r].plan
  BY <1>1, <1>2, <1>3 DEF Moved, TypeOK, Local
<1>4. ASSUME NEW p, loc' = [loc EXCEPT ![r].plan = p]
      PROVE  Moved(r) /\ loc'[r].mark = loc[r].mark /\ loc'[r].plan = p
  BY <1>1, <1>2, <1>4 DEF Moved, TypeOK, Local
<1> QED
  BY <1>1, <1>3, <1>4 DEF Moved

LEMMA PlanLands ==
  ASSUME TypeOK, NEW r \in Requests, NEW from, RollbackPlan(r, from), UNCHANGED op
  PROVE  /\ Moved(r) /\ pc[r] = from /\ pc'[r] = "rbLoad"
         /\ loc'[r].plan = NetResources /\ ~loc'[r].mark
BY DEF TypeOK, RollbackPlan, Step, Goto, Moved, NoLocal

LEMMA StepsLand ==
  ASSUME TypeOK, NEW r \in Requests, NEW from, NEW copy \in TxRecord,
         NEW steps \in SUBSET NetResources, RollbackSteps(r, from, copy, steps), UNCHANGED op
  PROVE  /\ Moved(r) /\ pc[r] = from /\ pc'[r] = "rbSave"
         /\ loc'[r].tx = r /\ loc'[r].plan = steps /\ loc'[r].copy.rollback = steps
         /\ loc'[r].mark
<1> DEFINE l == [NoLocal EXCEPT !.tx = r, !.plan = steps, !.mark = TRUE,
                   !.copy = [copy EXCEPT !.rollback = steps]]
<1>1. l.tx = r /\ l.plan = steps /\ l.copy.rollback = steps /\ l.mark
  BY DEF NoLocal, TxRecord
<1>2. loc' = [loc EXCEPT ![r] = l] /\ pc' = [pc EXCEPT ![r] = "rbSave"] /\ pc[r] = from
  BY DEF RollbackSteps, Step, Goto
<1> HIDE DEF l
<1>3. loc'[r] = l /\ pc'[r] = "rbSave" /\ Moved(r)
  BY <1>2 DEF TypeOK, Moved
<1> QED
  BY <1>1, <1>2, <1>3

\* A saved record, whichever the file ends up with.
LEMMA SavedOne ==
  ASSUME tx \in [Requests -> TxRecord], NEW t \in Requests, NEW records, MaybeSaved(t, records)
  PROVE  /\ \A q \in Requests \ {t} : tx'[q] = tx[q]
         /\ tx'[t] = tx[t] \/ tx'[t] \in records
BY DEF MaybeSaved

\* A step that leaves the host alone and writes its own record.
LEMMA RecordWritten ==
  ASSUME Inv, RecordInv, NEW r \in Requests, Moved(r), UNCHANGED net,
         \A q \in Requests \ {r} : tx'[q] = tx[q],
         RecordStage(r)', RecordTruth(r)', RollbackCovers(r)'
  PROVE  RecordInv'
<1>1. RecordFrame(r, r)
  BY DEF Moved, RecordFrame, Owned
<1> QED
  BY <1>1, RecordFramed DEF RecordOK

LEMMA RecConnectProxyOnly ==
  ASSUME ~HalfSteps, Inv, RecordInv, NEW r \in Requests, ConnectProxyOnly(r) PROVE RecordInv'
<1>1. pc[r] = "idle" /\ pc'[r] \in {"ok", "failed"} /\ op'[r] = "proxy-only"
  BY DEF ConnectProxyOnly, Call, Step, Goto, Inv, TypeOK
<1>2. Moved(r) /\ loc' = loc /\ UNCHANGED <<tx, net>>
  BY DEF ConnectProxyOnly, Call, Step, Goto, Inv, TypeOK, Moved
<1>3. RecordStage(r)' /\ RollbackCovers(r)'
  BY <1>1, <1>2 DEF RecordInv, RecordStage, Reported, RollbackCovers, Established, Owned
<1> QED
  BY <1>2, <1>3, RecordsUntouched

LEMMA RecConnectTun ==
  ASSUME ~HalfSteps, Inv, RecordInv, NEW r \in Requests, ConnectTun(r) PROVE RecordInv'
<1>1. pc[r] = "idle" /\ pc'[r] \in {"failed", "create"} /\ op'[r] = "tun"
  BY DEF ConnectTun, Call, Step, Goto, Inv, TypeOK
<1>2. Moved(r) /\ UNCHANGED <<tx, net, loc>>
  BY DEF ConnectTun, Call, Step, Goto, Inv, TypeOK, Moved
<1>3. RecordStage(r)' /\ RollbackCovers(r)'
  BY <1>1, <1>2 DEF RecordInv, RecordStage, Reported, RollbackCovers, Established, Owned
<1> QED
  BY <1>2, <1>3, RecordsUntouched

LEMMA RecCreateTx ==
  ASSUME ~HalfSteps, Inv, RecordInv, NEW r \in Requests, CreateTx(r) PROVE RecordInv'
<1>1. RecordFrame(r, r)
  BY ManagerAssumption DEF RecordFrame, Inv, TypeOK, StartsOnce, HandlerKind, UndoTarget,
     Established, Local, TxRecord, RecordInv, RecordStage, Reported, RecordTruth,
     RollbackCovers, Owned, CreateTx, Step, Goto, mgrVars, procVars
<1>2. RecordOK(r)'
  BY ManagerAssumption, ConstantTypes DEF RecordOK, Inv, TypeOK, StartsOnce, HandlerKind,
     UndoTarget, Established, Local, TxRecord, RecordInv, RecordStage, Reported,
     RecordTruth, RollbackCovers, Owned, CreateTx, Step, Goto, mgrVars, procVars
<1>3. pc[r] = "create" /\ pc'[r] \in {"apply", "failed"} /\ loc'[r].mark = loc[r].mark
  <2> DEFINE plan == Plannable
  <2> HIDE DEF plan
  <2>1. loc' = [loc EXCEPT ![r].plan = plan] \/ UNCHANGED loc
    BY DEF CreateTx, plan
  <2>2. pc[r] = "create" /\ pc'[r] \in {"apply", "failed"}
    BY DEF CreateTx, Step, Goto, Inv, TypeOK
  <2> QED
    BY <2>1, <2>2 DEF Inv, TypeOK, Local
<1>4. RollbackCovers(r)'
  BY <1>3 DEF RecordInv, RollbackCovers
<1> QED
  BY <1>1, <1>2, <1>4, RecordFramed

LEMMA RecApplyPlan ==
  ASSUME ~HalfSteps, Inv, RecordInv, NEW r \in Requests, ApplyPlan(r) PROVE RecordInv'
<1>1. /\ TypeOK /\ HandlerKind(r) /\ tx[r] \in TxRecord
      /\ UNCHANGED <<tx, op>> /\ pc[r] = "apply"
  BY DEF ApplyPlan, RollbackSteps, Step, Inv, TypeOK
<1>2. op[r] = "tun" /\ Owned(r) = {} /\ tx[r].state = "applying"
  BY <1>1 DEF HandlerKind, RecordInv, RecordStage, Reported, Owned
<1>3. ASSUME NEW steps \in SUBSET NetResources, RollbackSteps(r, "apply", tx[r], steps),
             Owned(r)' \subseteq steps,
             \A q \in Requests \ {r} : Owned(q)' \subseteq Owned(q)
      PROVE  RecordInv'
  <2>1. /\ Moved(r) /\ pc'[r] = "rbSave" /\ loc'[r].tx = r
        /\ loc'[r].plan = steps /\ loc'[r].copy.rollback = steps /\ loc'[r].mark
    BY <1>1, <1>3, StepsLand
  <2>2. RecordFrame(r, r)
    BY <1>1, <1>3, <2>1 DEF RecordFrame, Moved
  <2>3. RecordOK(r)'
    BY <1>1, <1>2, <2>1 DEF RecordOK, RecordStage, Reported, RecordTruth, Established
  <2>4. RollbackCovers(r)'
    BY <1>1, <1>2, <1>3, <2>1 DEF RollbackCovers, Owned
  <2> QED
    BY <2>2, <2>3, <2>4, RecordFramed
<1>4. CASE /\ Step(r, "apply", "record") /\ Create(r, Missing \cup {"table"})
           /\ loc' = [loc EXCEPT ![r].plan = Missing \cup {"table"}]
  <2>1. Moved(r) /\ pc'[r] = "record" /\ loc'[r].mark = loc[r].mark
        /\ loc'[r].plan = Missing \cup {"table"}
    <3> DEFINE steps == Missing \cup {"table"}
    <3>1. Step(r, "apply", "record") /\ loc' = [loc EXCEPT ![r].plan = steps]
      BY <1>4
    <3> HIDE DEF steps
    <3>2. Moved(r) /\ pc'[r] = "record" /\ loc'[r].mark = loc[r].mark /\ loc'[r].plan = steps
      BY <1>1, <3>1 DEF TypeOK, Local, Step, Goto, Moved
    <3> QED
      BY <3>2 DEF steps
  <2>2. Owned(r)' \subseteq Missing \cup {"table"}
    BY <1>2, <1>4 DEF Owned, Create
  <2>3. RecordFrame(r, r)
    BY <1>1, <1>4, <2>1 DEF RecordFrame, Moved, Owned, Create
  <2>4. RecordOK(r)'
    BY <1>1, <1>2, <2>1, <2>2 DEF RecordOK, RecordStage, Reported, RecordTruth, Established
  <2>5. RollbackCovers(r)'
    BY <1>1, <1>2, <2>1 DEF RecordInv, RollbackCovers
  <2> QED
    BY <2>3, <2>4, <2>5, RecordFramed
<1>5. CASE RollbackSteps(r, "apply", tx[r], {}) /\ UNCHANGED net
  BY <1>2, <1>3, <1>5 DEF Owned
<1>6. ASSUME NEW x \in NetResources, RollbackSteps(r, "apply", tx[r], Before(x)),
             \/ Create(r, Before(x))
             \/ net' = [y \in NetResources |->
                   IF y = "table" THEN None ELSE IF y \in Before(x) THEN r ELSE net[y]]
      PROVE  RecordInv'
  <2>1. Before(x) \in SUBSET NetResources
    BY DEF Before, Missing, NetResources
  <2>2. /\ Owned(r)' \subseteq Before(x)
        /\ \A q \in Requests \ {r} : Owned(q)' \subseteq Owned(q)
    <3> HIDE DEF Before
    <3>1. None # r /\ \A q \in Requests : q # None
      BY ManagerAssumption
    <3> QED
      BY <1>2, <1>6, <3>1 DEF Owned, Create
  <2> QED
    BY <1>3, <1>6, <2>1, <2>2
<1> QED
  BY <1>4, <1>5, <1>6 DEF ApplyPlan

LEMMA RecRecordAndVerify ==
  ASSUME ~HalfSteps, Inv, RecordInv, NEW r \in Requests, RecordAndVerify(r) PROVE RecordInv'
<1> DEFINE steps == loc[r].plan
           Recorded(state) == [tx[r] EXCEPT !.state = state, !.rollback = steps]
<1>1. /\ TypeOK /\ HandlerKind(r) /\ tx[r] \in TxRecord /\ steps \in SUBSET NetResources
      /\ UNCHANGED <<op, net>> /\ pc[r] = "record"
  BY DEF RecordAndVerify, RollbackSteps, Return, Step, Inv, TypeOK, Local
<1>2. op[r] = "tun" /\ Owned(r) \subseteq steps /\ tx[r].state = "applying"
  BY <1>1 DEF HandlerKind, RecordInv, RecordStage, Reported, Owned
<1>3. \A state \in {"applying", "applied", "verifying"} :
        /\ Recorded(state) \in TxRecord
        /\ Recorded(state).state = state /\ Recorded(state).rollback = steps
  <2> HIDE DEF steps
  <2> QED
    BY <1>1 DEF TxRecord, FileStates, TxStates
<1>4. /\ \/ Step(r, "record", "startCore") /\ UNCHANGED loc
         \/ Return(r, "record", "failed")
         \/ RollbackSteps(r, "record", Recorded("verifying"), steps)
      /\ tx' = [tx EXCEPT ![r] = Recorded("verifying")]
      \/ /\ RollbackSteps(r, "record", tx[r], steps)
         /\ MaybeSaved(r, {Recorded("applying"), Recorded("applied"), Recorded("verifying")})
  BY DEF RecordAndVerify
<1> HIDE DEF Recorded
<1>5. /\ \A q \in Requests \ {r} : tx'[q] = tx[q]
      /\ \/ tx'[r] = tx[r]
         \/ tx'[r] \in {Recorded("applying"), Recorded("applied"), Recorded("verifying")}
  BY <1>1, <1>4, SavedOne DEF TypeOK
<1>6. RecordTruth(r)'
  BY <1>1, <1>2, <1>3, <1>5 DEF RecordTruth, Owned
<1>7. CASE \E copy \in TxRecord : RollbackSteps(r, "record", copy, steps)
  <2>1. /\ Moved(r) /\ pc'[r] = "rbSave" /\ loc'[r].tx = r
        /\ loc'[r].plan = steps /\ loc'[r].copy.rollback = steps /\ loc'[r].mark
    BY <1>1, <1>7, StepsLand
  <2>2. RecordStage(r)' /\ RollbackCovers(r)'
    BY <1>1, <1>2, <2>1 DEF RecordStage, Reported, RollbackCovers, Established, Owned
  <2> QED
    BY <1>1, <1>5, <1>6, <2>1, <2>2, RecordWritten
<1>8. CASE Return(r, "record", "failed")
  <2>1. Moved(r) /\ pc'[r] = "failed" /\ ~loc'[r].mark
    BY <1>1, <1>8, ReturnLands
  <2>2. RecordStage(r)' /\ RollbackCovers(r)'
    BY <1>1, <1>2, <2>1 DEF RecordStage, Reported, RollbackCovers, Established, Owned
  <2> QED
    BY <1>1, <1>5, <1>6, <2>1, <2>2, RecordWritten
<1>9. CASE /\ Step(r, "record", "startCore") /\ UNCHANGED loc
           /\ tx' = [tx EXCEPT ![r] = Recorded("verifying")]
  <2>1. Moved(r) /\ pc'[r] = "startCore" /\ loc'[r] = loc[r]
    BY <1>1, <1>9, StepLands
  <2>2. tx'[r].state = "verifying"
    BY <1>1, <1>3, <1>9 DEF TypeOK
  <2>3. RecordStage(r)' /\ RollbackCovers(r)'
    BY <1>1, <1>2, <2>1, <2>2 DEF RecordInv, RecordStage, Reported, RollbackCovers, Established, Owned
  <2> QED
    BY <1>1, <1>5, <1>6, <2>1, <2>3, RecordWritten
<1> QED
  BY <1>1, <1>3, <1>4, <1>7, <1>8, <1>9

LEMMA RecStartCore ==
  ASSUME ~HalfSteps, Inv, RecordInv, NEW r \in Requests, StartCore(r) PROVE RecordInv'
<1>1. TypeOK /\ UNCHANGED <<tx, net, op>> /\ HandlerKind(r)
  BY DEF StartCore, Inv
<1>2. /\ Moved(r) /\ pc[r] = "startCore" /\ (loc'[r].mark => loc[r].mark)
      /\ pc'[r] = "saveCore" \/ (pc'[r] = "rbLoad" /\ loc'[r].plan = NetResources)
  BY <1>1, StepLands, PlanLands DEF StartCore
<1>3. op[r] = "tun"
  BY <1>1, <1>2 DEF HandlerKind
<1>9. RecordStage(r)' /\ RollbackCovers(r)'
  BY <1>1, <1>2, <1>3 DEF RecordInv, RecordStage, Reported, RollbackCovers, Established, Owned
<1> QED
  BY <1>1, <1>2, <1>9, RecordsUntouched

LEMMA RecSaveCoreMetadata ==
  ASSUME ~HalfSteps, Inv, RecordInv, NEW r \in Requests, SaveCoreMetadata(r) PROVE RecordInv'
<1> DEFINE saved == [tx[r] EXCEPT !.children = {"core"}]
<1>1. /\ TypeOK /\ HandlerKind(r) /\ tx[r] \in TxRecord
      /\ UNCHANGED <<op, net, loc>> /\ pc[r] = "saveCore"
  BY DEF SaveCoreMetadata, Step, Inv, TypeOK
<1>2. op[r] = "tun"
  BY <1>1 DEF HandlerKind
<1>3. saved.state = tx[r].state /\ saved.rollback = tx[r].rollback
  BY <1>1 DEF TxRecord
<1>4. Moved(r) /\ pc'[r] \in {"verifyCore", "stopCore"} /\ loc'[r] = loc[r]
  BY <1>1, StepLands DEF SaveCoreMetadata
<1>5. tx' = [tx EXCEPT ![r] = saved] \/ MaybeSaved(r, {saved})
  BY DEF SaveCoreMetadata
<1> HIDE DEF saved
<1>6. /\ \A q \in Requests \ {r} : tx'[q] = tx[q]
      /\ tx'[r].state = tx[r].state /\ tx'[r].rollback = tx[r].rollback
  BY <1>1, <1>3, <1>5, SavedOne DEF TypeOK
<1>7. RecordStage(r)' /\ RecordTruth(r)' /\ RollbackCovers(r)'
  BY <1>1, <1>2, <1>4, <1>6
     DEF RecordInv, RecordStage, Reported, RecordTruth, RollbackCovers, Established, Owned
<1> QED
  BY <1>1, <1>4, <1>6, <1>7, RecordWritten

LEMMA RecVerifyCoreStarted ==
  ASSUME ~HalfSteps, Inv, RecordInv, NEW r \in Requests, VerifyCoreStarted(r) PROVE RecordInv'
<1>1. RecordFrame(r, r)
  BY ManagerAssumption DEF RecordFrame, Inv, TypeOK, StartsOnce, HandlerKind, UndoTarget,
     Established, Local, TxRecord, RecordInv, RecordStage, Reported, RecordTruth,
     RollbackCovers, Owned, VerifyCoreStarted, Step, Goto, mgrVars, procVars
<1>2. RecordOK(r)'
  BY ManagerAssumption, ConstantTypes DEF RecordOK, Inv, TypeOK, StartsOnce, HandlerKind,
     UndoTarget, Established, Local, TxRecord, RecordInv, RecordStage, Reported,
     RecordTruth, RollbackCovers, Owned, VerifyCoreStarted, Step, Goto, mgrVars, procVars
<1>4. RollbackCovers(r)'
  BY ManagerAssumption, ConstantTypes DEF Inv, TypeOK, StartsOnce, HandlerKind, UndoTarget,
     Established, Local, TxRecord, RecordInv, RecordStage, Reported, RecordTruth,
     RollbackCovers, Owned, VerifyCoreStarted, Step, Goto, mgrVars, procVars
<1> QED
  BY <1>1, <1>2, <1>4, RecordFramed

LEMMA RecStartAdapter ==
  ASSUME ~HalfSteps, Inv, RecordInv, NEW r \in Requests, StartAdapter(r) PROVE RecordInv'
<1>1. RecordFrame(r, r)
  BY ManagerAssumption DEF RecordFrame, Inv, TypeOK, StartsOnce, HandlerKind, UndoTarget,
     Established, Local, TxRecord, RecordInv, RecordStage, Reported, RecordTruth,
     RollbackCovers, Owned, StartAdapter, Step, Goto, mgrVars
<1>2. RecordOK(r)'
  BY ManagerAssumption, ConstantTypes DEF RecordOK, Inv, TypeOK, StartsOnce, HandlerKind,
     UndoTarget, Established, Local, TxRecord, RecordInv, RecordStage, Reported,
     RecordTruth, RollbackCovers, Owned, StartAdapter, Step, Goto, mgrVars
<1>4. RollbackCovers(r)'
  BY ManagerAssumption, ConstantTypes DEF Inv, TypeOK, StartsOnce, HandlerKind, UndoTarget,
     Established, Local, TxRecord, RecordInv, RecordStage, Reported, RecordTruth,
     RollbackCovers, Owned, StartAdapter, Step, Goto, mgrVars
<1> QED
  BY <1>1, <1>2, <1>4, RecordFramed

LEMMA RecSaveAdapterMetadata ==
  ASSUME ~HalfSteps, Inv, RecordInv, NEW r \in Requests, SaveAdapterMetadata(r) PROVE RecordInv'
<1> DEFINE saved == [tx[r] EXCEPT !.children = Children]
<1>1. /\ TypeOK /\ HandlerKind(r) /\ tx[r] \in TxRecord
      /\ UNCHANGED <<op, net, loc>> /\ pc[r] = "saveAdapter"
  BY DEF SaveAdapterMetadata, Step, Inv, TypeOK
<1>2. op[r] = "tun"
  BY <1>1 DEF HandlerKind
<1>3. saved.state = tx[r].state /\ saved.rollback = tx[r].rollback
  BY <1>1 DEF TxRecord
<1>4. Moved(r) /\ pc'[r] \in {"verifyNet", "stopAdapter"} /\ loc'[r] = loc[r]
  BY <1>1, StepLands DEF SaveAdapterMetadata
<1>5. tx' = [tx EXCEPT ![r] = saved] \/ MaybeSaved(r, {saved})
  BY DEF SaveAdapterMetadata
<1> HIDE DEF saved
<1>6. /\ \A q \in Requests \ {r} : tx'[q] = tx[q]
      /\ tx'[r].state = tx[r].state /\ tx'[r].rollback = tx[r].rollback
  BY <1>1, <1>3, <1>5, SavedOne DEF TypeOK
<1>7. RecordStage(r)' /\ RecordTruth(r)' /\ RollbackCovers(r)'
  BY <1>1, <1>2, <1>4, <1>6
     DEF RecordInv, RecordStage, Reported, RecordTruth, RollbackCovers, Established, Owned
<1> QED
  BY <1>1, <1>4, <1>6, <1>7, RecordWritten

LEMMA RecVerifyConnectivity ==
  ASSUME ~HalfSteps, Inv, RecordInv, NEW r \in Requests, VerifyConnectivity(r) PROVE RecordInv'
<1>1. TypeOK /\ UNCHANGED <<tx, net, op, loc>> /\ HandlerKind(r)
  BY DEF VerifyConnectivity, Inv
<1>2. /\ Moved(r) /\ loc'[r] = loc[r]
      /\ pc[r] = "verifyNet" /\ pc'[r] \in {"commit", "stopAdapter"}
  BY <1>1, StepLands DEF VerifyConnectivity
<1>3. op[r] = "tun"
  BY <1>1, <1>2 DEF HandlerKind
<1>9. RecordStage(r)' /\ RollbackCovers(r)'
  BY <1>1, <1>2, <1>3 DEF RecordInv, RecordStage, Reported, RollbackCovers, Established, Owned
<1> QED
  BY <1>1, <1>2, <1>9, RecordsUntouched

LEMMA RecCommitActiveState ==
  ASSUME ~HalfSteps, Inv, RecordInv, NEW r \in Requests, CommitActiveState(r) PROVE RecordInv'
<1> DEFINE saved == [tx[r] EXCEPT !.state = "committed"]
<1>1. /\ TypeOK /\ HandlerKind(r) /\ tx[r] \in TxRecord
      /\ UNCHANGED <<op, net>> /\ pc[r] = "commit"
  BY DEF CommitActiveState, Return, Step, Inv, TypeOK
<1>2. op[r] = "tun" /\ tx[r].state \in {"verifying", "committed"} /\ Owned(r) \subseteq tx[r].rollback
  BY <1>1 DEF HandlerKind, RecordInv, RecordStage, Reported, RecordTruth
<1>3. saved.state = "committed" /\ saved.rollback = tx[r].rollback
  BY <1>1 DEF TxRecord
<1>4. \/ Return(r, "commit", "ok") /\ tx' = [tx EXCEPT ![r] = saved]
      \/ /\ Step(r, "commit", "stopAdapter")
         /\ UNCHANGED loc \/ loc' = [loc EXCEPT ![r].core = None]
         /\ MaybeSaved(r, {saved})
  BY DEF CommitActiveState, MaybeSaved
<1> HIDE DEF saved
<1>5. /\ \A q \in Requests \ {r} : tx'[q] = tx[q]
      /\ tx'[r].state \in {"verifying", "committed"} /\ tx'[r].rollback = tx[r].rollback
  BY <1>1, <1>2, <1>3, <1>4, SavedOne DEF TypeOK
<1>6. Moved(r) /\ pc'[r] \in {"ok", "stopAdapter"} /\ (loc'[r].mark => loc[r].mark)
  BY <1>1, <1>4, StepLands, ReturnLands
<1>7. RecordStage(r)' /\ RecordTruth(r)' /\ RollbackCovers(r)'
  BY <1>1, <1>2, <1>5, <1>6
     DEF RecordInv, RecordStage, Reported, RecordTruth, RollbackCovers, Established, Owned
<1> QED
  BY <1>1, <1>5, <1>6, <1>7, RecordWritten

LEMMA RecStopAdapter ==
  ASSUME ~HalfSteps, Inv, RecordInv, NEW r \in Requests, StopAdapter(r) PROVE RecordInv'
<1>1. TypeOK /\ UNCHANGED <<tx, net, op>> /\ HandlerKind(r)
  BY DEF StopAdapter, Inv
<1>2. \/ op[r] = "tun" /\ RollbackPlan(r, "stopAdapter")
      \/ op[r] = "tun" /\ Step(r, "stopAdapter", "stopCore") /\ UNCHANGED loc
      \/ op[r] # "tun" /\ Step(r, "stopAdapter", "rbLoad") /\ UNCHANGED loc
      \/ op[r] # "tun" /\ Return(r, "stopAdapter", "failed")
  BY DEF StopAdapter
<1>3. /\ Moved(r) /\ pc[r] = "stopAdapter" /\ (loc'[r].mark => loc[r].mark)
      /\ \/ op[r] = "tun" /\ pc'[r] = "rbLoad" /\ loc'[r].plan = NetResources
         \/ op[r] = "tun" /\ pc'[r] = "stopCore"
         \/ op[r] # "tun" /\ pc'[r] \in {"rbLoad", "failed"}
  BY <1>1, <1>2, StepLands, PlanLands, ReturnLands
<1>9. RecordStage(r)' /\ RollbackCovers(r)'
  BY <1>1, <1>3 DEF RecordInv, RecordStage, Reported, RollbackCovers, Established, Owned
<1> QED
  BY <1>1, <1>3, <1>9, RecordsUntouched

LEMMA RecStopCore ==
  ASSUME ~HalfSteps, Inv, RecordInv, NEW r \in Requests, StopCore(r) PROVE RecordInv'
<1>1. TypeOK /\ UNCHANGED <<tx, net, op>> /\ HandlerKind(r)
  BY DEF StopCore, Inv
<1>2. /\ Moved(r) /\ pc[r] = "stopCore" /\ (loc'[r].mark => loc[r].mark)
      /\ pc'[r] = "waitCore" \/ (pc'[r] = "rbLoad" /\ loc'[r].plan = NetResources)
  BY <1>1, StepLands, PlanLands DEF StopCore
<1>3. op[r] = "tun"
  BY <1>1, <1>2 DEF HandlerKind
<1>9. RecordStage(r)' /\ RollbackCovers(r)'
  BY <1>1, <1>2, <1>3 DEF RecordInv, RecordStage, Reported, RollbackCovers, Established, Owned
<1> QED
  BY <1>1, <1>2, <1>9, RecordsUntouched

LEMMA RecLoadTx ==
  ASSUME ~HalfSteps, Inv, RecordInv, NEW r \in Requests, LoadTx(r) PROVE RecordInv'
<1>1. TypeOK /\ UNCHANGED <<tx, net, op>> /\ HandlerKind(r) /\ UndoTarget(r)
  BY DEF LoadTx, Inv, mgrVars, procVars
<1>2. pc[r] = "rbLoad" /\ op[r] \in {"tun", "disconnect"} /\ ~loc[r].mark
  BY <1>1 DEF LoadTx, Return, Step, HandlerKind, RecordInv, RollbackCovers
<1>3. CASE Return(r, "rbLoad", "failed")
  BY <1>1, <1>2, <1>3, ReturnLands, RecordsUntouched
     DEF RecordInv, RecordStage, Reported, RollbackCovers, Established, Owned
<1>4. CASE /\ tx[loc[r].tx].state # "absent" /\ Goto(r, "rbSave")
           /\ loc' = [loc EXCEPT ![r].copy = tx[loc[r].tx],
                 ![r].plan = IF op[r] = "tun" THEN loc[r].plan ELSE tx[loc[r].tx].rollback]
  <2> DEFINE t == loc[r].tx
  <2>1. t \in Requests /\ tx[t] \in TxRecord /\ loc[r] \in Local
    BY <1>1, <1>2 DEF UndoTarget, Established, TypeOK
  <2>2. /\ Moved(r) /\ pc'[r] = "rbSave" /\ ~loc'[r].mark /\ loc'[r].tx = t
        /\ loc'[r].copy = tx[t]
        /\ loc'[r].plan = IF op[r] = "tun" THEN loc[r].plan ELSE tx[t].rollback
    BY <1>1, <1>2, <1>4, <2>1 DEF TypeOK, Goto, Moved, Local
  <2>3. Owned(t) \subseteq tx[t].rollback
    <3>1. CASE op[r] = "tun"
      <4>1. t = r /\ tx[t].state \in {"verifying", "committed"}
        BY <1>1, <1>2, <3>1 DEF UndoTarget, RecordInv, RecordStage, Reported
      <4> QED
        BY <2>1, <4>1 DEF RecordInv, RecordTruth
    <3>2. CASE op[r] = "disconnect"
      <4>1. /\ tx[t].state \notin {"planned", "applying", "applied", "absent"}
            /\ tx[t].state \in FileStates
        BY <1>1, <1>2, <1>4, <2>1, <3>2 DEF UndoTarget, RecordInv, RecordStage, Reported, TxRecord
      <4>2. \/ tx[t].state \in {"verifying", "committed", "rolling_back", "failed"}
            \/ tx[t].state = "rolled_back"
        BY <4>1 DEF FileStates, TxStates
      <4> QED
        BY <2>1, <4>2 DEF RecordInv, RecordTruth
    <3> QED
      BY <1>2, <3>1, <3>2
  <2>4. Owned(t) \subseteq loc'[r].plan
    <3>1. CASE op[r] = "tun"
      BY <1>2, <2>2, <3>1 DEF RecordInv, RollbackCovers, Owned
    <3>2. CASE op[r] = "disconnect"
      BY <2>2, <2>3, <3>2
    <3> QED
      BY <1>2, <3>1, <3>2
  <2> HIDE DEF t
  <2>5. RecordStage(r)'
    BY <1>1, <1>2, <2>2 DEF RecordInv, RecordStage, Reported, Established, Owned
  <2>6. RollbackCovers(r)'
    <3>1. \A q : q = t => {x \in NetResources : net'[x] = q} = Owned(t)
      BY <1>1 DEF Owned
    <3>2. op[r] = "tun" => loc'[r].plan = NetResources
      BY <1>2, <2>2 DEF RecordInv, RollbackCovers
    <3> QED
      BY <1>1, <2>2, <2>3, <2>4, <3>1, <3>2 DEF RollbackCovers, Owned
  <2> QED
    BY <1>1, <2>2, <2>5, <2>6, RecordsUntouched
<1> QED
  BY <1>3, <1>4 DEF LoadTx

LEMMA RecBeginRollback ==
  ASSUME ~HalfSteps, Inv, RecordInv, NEW r \in Requests, BeginRollback(r) PROVE RecordInv'
<1> DEFINE copy == loc[r].copy
           Copy(state) == [copy EXCEPT !.state = state]
<1>1. /\ TypeOK /\ HandlerKind(r) /\ UndoTarget(r) /\ pc[r] = "rbSave"
      /\ UNCHANGED <<op, net>> /\ op[r] \in {"tun", "disconnect"}
  BY DEF BeginRollback, Inv, HandlerKind, mgrVars
<1>a. loc[r].tx \in Requests
  BY <1>1 DEF UndoTarget, Established
<1>b. PICK t \in Requests : t = loc[r].tx
  BY <1>a
<1>2. /\ copy \in TxRecord
      /\ op[r] = "tun" => t = r
      /\ op[r] = "disconnect" => Established(t) /\ t # r
  BY <1>1, <1>b DEF UndoTarget, Established, TypeOK, Local
<1>3. /\ Owned(t) \subseteq loc[r].plan /\ Owned(t) \subseteq copy.rollback
      /\ loc[r].mark => op[r] = "tun"
      /\ op[r] = "tun" /\ ~loc[r].mark => loc[r].plan = NetResources
  BY <1>1, <1>b DEF RecordInv, RollbackCovers
<1>4. \A state \in {"rolling_back", "failed"} :
        Copy(state).state = state /\ Copy(state).rollback = copy.rollback
  BY <1>2 DEF TxRecord
<1>5. /\ \A q \in Requests \ {r} : pc'[q] = pc[q] /\ op'[q] = op[q] /\ loc'[q] = loc[q]
      /\ \/ pc'[r] \in {"failed", "rmFile"} /\ ~loc'[r].mark
         \/ /\ pc'[r] = "rbExec" /\ loc'[r].tx = t /\ loc'[r].plan = loc[r].plan
            /\ loc'[r].mark = loc[r].mark /\ loc'[r].copy.rollback = copy.rollback
  <2>1. CASE RolledBack(r, "rbSave")
    <3>1. CASE op[r] = "tun"
      BY <1>1, <2>1, <3>1, ReturnLands DEF RolledBack, Moved
    <3>2. CASE op[r] # "tun"
      BY <1>1, <2>1, <3>2 DEF RolledBack, Step, Goto, TypeOK, NoLocal
    <3> QED
      BY <3>1, <3>2
  <2>2. CASE Return(r, "rbSave", "failed")
    BY <1>1, <2>2, ReturnLands DEF Moved
  <2>3. CASE Goto(r, "rbExec") /\ loc' = [loc EXCEPT ![r].copy.state = "rolling_back"]
    <3>1. loc[r] \in Local
      BY <1>1 DEF TypeOK
    <3> QED
      BY <1>1, <1>2, <1>b, <2>3, <3>1 DEF Goto, TypeOK, Local, TxRecord
  <2> QED
    BY <2>1, <2>2, <2>3 DEF BeginRollback
<1>6. \/ tx' = tx \/ tx' = [tx EXCEPT ![t] = Copy("rolling_back")]
      \/ /\ MaybeSaved(t, {Copy("rolling_back")} \cup
                          IF loc[r].mark THEN {copy, Copy("failed")} ELSE {})
         /\ copy.state # "rolled_back"
  BY <1>b DEF BeginRollback
<1> HIDE DEF Copy, copy
<1>7. /\ \A q \in Requests \ {t} : tx'[q] = tx[q]
      /\ \/ tx'[t] \in {tx[t], Copy("rolling_back")}
         \/ loc[r].mark /\ tx'[t] \in {copy, Copy("failed")} /\ copy.state # "rolled_back"
  BY <1>1, <1>2, <1>6, SavedOne DEF TypeOK
<1>8. RecordFrame(r, t)
  BY <1>1, <1>5, <1>7 DEF RecordFrame, Owned
<1>9. RecordTruth(t)'
  <2>1. CASE tx'[t] = tx[t]
    BY <1>1, <1>2, <2>1 DEF RecordInv, RecordTruth, Owned
  <2>2. CASE tx'[t] \in {Copy("rolling_back"), Copy("failed")}
    BY <1>1, <1>3, <1>4, <2>2 DEF RecordTruth, Owned
  <2>3. CASE tx'[t] = copy /\ copy.state # "rolled_back"
    BY <1>1, <1>3, <2>3 DEF RecordTruth, Owned
  <2> QED
    BY <1>7, <2>1, <2>2, <2>3
<1>10. RecordOK(t)' /\ RecordOK(r)'
  <2>1. CASE op[r] = "tun"
    BY <1>1, <1>2, <1>5, <1>9, <2>1 DEF RecordOK, RecordStage, Established
  <2>2. CASE op[r] = "disconnect"
    <3>1. tx'[r] = tx[r] /\ pc'[t] = pc[t] /\ op'[t] = op[t] /\ ~loc[r].mark
      BY <1>2, <1>3, <1>5, <1>7, <2>2
    <3>2. RecordOK(r)'
      BY <1>1, <1>2, <1>5, <2>2, <3>1
         DEF RecordInv, RecordOK, RecordStage, RecordTruth, Established, Owned
    <3>3. tx'[t].state \in {tx[t].state, "rolling_back"}
      BY <1>4, <1>7, <3>1
    <3>4. RecordStage(t)'
      BY <1>1, <1>2, <2>2, <3>1, <3>3 DEF RecordInv, RecordStage, Established
    <3> QED
      BY <1>9, <3>2, <3>4 DEF RecordOK
  <2> QED
    BY <1>1, <2>1, <2>2
<1>11. RollbackCovers(r)'
  BY <1>1, <1>3, <1>5 DEF RollbackCovers, Owned
<1> QED
  BY <1>2, <1>8, <1>10, <1>11, RecordFramed

LEMMA RecExecuteRollback ==
  ASSUME ~HalfSteps, Inv, RecordInv, NEW r \in Requests, ExecuteRollback(r) PROVE RecordInv'
<1> DEFINE Copy(state) == [loc[r].copy EXCEPT !.state = state]
<1>1. /\ TypeOK /\ HandlerKind(r) /\ UndoTarget(r) /\ pc[r] = "rbExec"
      /\ UNCHANGED op /\ op[r] \in {"tun", "disconnect"}
  BY DEF ExecuteRollback, Inv, HandlerKind
<1>a. loc[r].tx \in Requests
  BY <1>1 DEF UndoTarget, Established
<1>b. PICK t \in Requests : t = loc[r].tx
  BY <1>a
<1>2. /\ loc[r].copy \in TxRecord
      /\ op[r] = "tun" => t = r
      /\ op[r] = "disconnect" => Established(t) /\ t # r
  BY <1>1, <1>b DEF UndoTarget, Established, TypeOK, Local
<1>3. /\ Owned(t) \subseteq loc[r].plan /\ Owned(t) \subseteq loc[r].copy.rollback
      /\ loc[r].mark => op[r] = "tun"
  BY <1>1, <1>b DEF RecordInv, RollbackCovers
<1>4. \A state \in {"rolled_back", "failed"} :
        Copy(state).state = state /\ Copy(state).rollback = loc[r].copy.rollback
  BY <1>2 DEF TxRecord
<1>5. /\ \A q \in Requests \ {r} : pc'[q] = pc[q] /\ op'[q] = op[q] /\ loc'[q] = loc[q]
      /\ pc'[r] \in {"failed", "rmFile"} /\ ~loc'[r].mark
  <2>1. CASE RolledBack(r, "rbExec")
    <3>1. CASE op[r] = "tun"
      BY <1>1, <2>1, <3>1, ReturnLands DEF RolledBack, Moved
    <3>2. CASE op[r] # "tun"
      BY <1>1, <2>1, <3>2 DEF RolledBack, Step, Goto, TypeOK, NoLocal
    <3> QED
      BY <3>1, <3>2
  <2>2. CASE Return(r, "rbExec", "failed")
    BY <1>1, <2>2, ReturnLands DEF Moved
  <2> QED
    BY <2>1, <2>2 DEF ExecuteRollback
<1>6. \/ /\ Remove(loc[r].plan)
         /\ tx' = [tx EXCEPT ![t] = Copy("rolled_back")] \/ MaybeSaved(t, {Copy("rolled_back")})
      \/ /\ \E gone \in SUBSET loc[r].plan : Remove(gone)
         /\ MaybeSaved(t, IF loc[r].mark THEN {Copy("failed")} ELSE {})
  BY <1>b DEF ExecuteRollback
<1> HIDE DEF Copy
<1>7. /\ \A q \in Requests \ {t} : tx'[q] = tx[q]
      /\ \/ tx'[t] = tx[t]
         \/ tx'[t] = Copy("rolled_back") /\ Remove(loc[r].plan)
         \/ tx'[t] = Copy("failed") /\ loc[r].mark
  BY <1>1, <1>2, <1>6, SavedOne DEF TypeOK
<1>8. \A q \in Requests : Owned(q)' \subseteq Owned(q)
  BY <1>6, ManagerAssumption DEF Owned, Remove
<1>9. RecordFrame(r, t)
  BY <1>1, <1>5, <1>7, <1>8 DEF RecordFrame
<1>10. RecordTruth(t)'
  <2>1. CASE tx'[t] = tx[t]
    BY <1>2, <1>8, <2>1 DEF RecordInv, RecordTruth
  <2>2. CASE tx'[t] = Copy("rolled_back") /\ Remove(loc[r].plan)
    <3>1. Owned(t)' = {}
      BY <1>2, <1>3, <2>2, ManagerAssumption DEF Owned, Remove
    <3> QED
      BY <1>4, <2>2, <3>1 DEF RecordTruth
  <2>3. CASE tx'[t] = Copy("failed")
    BY <1>2, <1>3, <1>4, <1>8, <2>3 DEF RecordTruth
  <2> QED
    BY <1>7, <2>1, <2>2, <2>3
<1>11. RecordOK(t)' /\ RecordOK(r)'
  <2>1. CASE op[r] = "tun"
    BY <1>1, <1>2, <1>5, <1>10, <2>1 DEF RecordOK, RecordStage, Established
  <2>2. CASE op[r] = "disconnect"
    <3>1. tx'[r] = tx[r] /\ pc'[t] = pc[t] /\ op'[t] = op[t] /\ ~loc[r].mark
      BY <1>2, <1>3, <1>5, <1>7, <2>2
    <3>2. Owned(r)' = {}
      BY <1>1, <1>8, <2>2 DEF RecordInv, RecordStage
    <3>3. RecordOK(r)'
      BY <1>1, <1>5, <2>2, <3>1, <3>2
         DEF RecordInv, RecordOK, RecordStage, RecordTruth, Established
    <3>4. tx'[t].state \in {tx[t].state, "rolled_back"}
      BY <1>4, <1>7, <3>1
    <3>5. RecordStage(t)'
      BY <1>2, <2>2, <3>1, <3>4 DEF RecordInv, RecordStage, Established
    <3> QED
      BY <1>10, <3>3, <3>5 DEF RecordOK
  <2> QED
    BY <1>1, <2>1, <2>2
<1>12. RollbackCovers(r)'
  BY <1>5 DEF RollbackCovers
<1> QED
  BY <1>2, <1>9, <1>11, <1>12, RecordFramed

LEMMA RecDisconnect ==
  ASSUME ~HalfSteps, Inv, RecordInv, NEW r \in Requests, Disconnect(r) PROVE RecordInv'
<1>1. pc[r] = "idle" /\ pc'[r] \in {"rmConfig", "waitCore", "failed"} /\ op'[r] = "disconnect"
  BY DEF Disconnect, Call, Step, Goto, Inv, TypeOK
<1>2. Moved(r) /\ UNCHANGED <<tx, net>>
  BY DEF Disconnect, Call, Step, Goto, Inv, TypeOK, Moved
<1>3. ~loc[r].mark
  BY <1>1 DEF RecordInv, RollbackCovers
<1>4. ~loc'[r].mark
  <2>1. CASE loc' = [loc EXCEPT ![r].path = connection.path]
    BY <1>3, <2>1 DEF Inv, TypeOK, Local
  <2>2. CASE loc' = loc
    BY <1>3, <2>2
  <2>3. CASE loc' = [loc EXCEPT ![r] = [NoLocal EXCEPT !.core = cmd, !.mode = connection.mode,
                     !.tx = connection.tx, !.path = connection.path]]
    BY <2>3 DEF Inv, TypeOK, NoLocal
  <2> QED
    BY <2>1, <2>2, <2>3 DEF Disconnect
<1>5. RecordStage(r)' /\ RollbackCovers(r)'
  BY <1>1, <1>2, <1>4 DEF RecordInv, RecordStage, Reported, RollbackCovers, Established, Owned
<1> QED
  BY <1>2, <1>5, RecordsUntouched

LEMMA RecRemoveConfig ==
  ASSUME ~HalfSteps, Inv, RecordInv, NEW r \in Requests, RemoveConfig(r) PROVE RecordInv'
<1>1. TypeOK /\ UNCHANGED <<tx, net, op>> /\ HandlerKind(r)
  BY DEF RemoveConfig, Inv, mgrVars, procVars
<1>2. Moved(r) /\ pc[r] = "rmConfig" /\ pc'[r] = "ok" /\ ~loc'[r].mark
  BY <1>1, ReturnLands DEF RemoveConfig
<1>3. op[r] = "disconnect"
  BY <1>1, <1>2 DEF HandlerKind
<1>9. RecordStage(r)' /\ RollbackCovers(r)'
  BY <1>1, <1>2, <1>3 DEF RecordInv, RecordStage, Reported, RollbackCovers, Established, Owned
<1> QED
  BY <1>1, <1>2, <1>9, RecordsUntouched

LEMMA RecWaitCore ==
  ASSUME ~HalfSteps, Inv, RecordInv, NEW r \in Requests, WaitCore(r) PROVE RecordInv'
<1>1. TypeOK /\ UNCHANGED <<tx, net, op>> /\ HandlerKind(r) /\ pc[r] = "waitCore"
  BY DEF WaitCore, Inv, mgrVars, procVars
<1>2. op[r] \in {"tun", "disconnect"}
  BY <1>1 DEF HandlerKind
<1>3. CASE op[r] = "tun"
  <2>1. /\ Moved(r) /\ pc'[r] = "rbLoad" /\ loc'[r].plan = NetResources /\ ~loc'[r].mark
    BY <1>1, <1>3, PlanLands DEF WaitCore
  <2>2. RecordStage(r)' /\ RollbackCovers(r)'
    BY <1>1, <1>3, <2>1 DEF RecordInv, RecordStage, Reported, RollbackCovers, Established, Owned
  <2> QED
    BY <1>1, <2>1, <2>2, RecordsUntouched
<1>4. CASE op[r] = "disconnect"
  <2>1. CASE Return(r, "waitCore", "ok")
    BY <1>1, <1>4, <2>1, ReturnLands, RecordsUntouched
       DEF RecordInv, RecordStage, Reported, RollbackCovers, Established, Owned
  <2>2. CASE Goto(r, "stopAdapter") /\ loc' = [loc EXCEPT ![r].core = None]
    <3>1. Step(r, "waitCore", "stopAdapter")
      BY <1>1, <2>2 DEF Step
    <3>2. UNCHANGED op /\ loc' = [loc EXCEPT ![r].core = None]
      BY <1>1, <2>2
    <3>3. Moved(r) /\ pc'[r] = "stopAdapter" /\ loc'[r].mark = loc[r].mark
      BY <1>1, <3>1, <3>2 DEF TypeOK, Local, Step, Goto, Moved
    <3>4. RecordStage(r)' /\ RollbackCovers(r)'
      BY <1>1, <1>4, <3>3 DEF RecordInv, RecordStage, Reported, RollbackCovers, Established, Owned
    <3> QED
      BY <1>1, <3>3, <3>4, RecordsUntouched
  <2> QED
    BY <1>4, <2>1, <2>2 DEF WaitCore
<1> QED
  BY <1>2, <1>3, <1>4

LEMMA RecRemoveTxFile ==
  ASSUME ~HalfSteps, Inv, RecordInv, NEW r \in Requests, RemoveTxFile(r) PROVE RecordInv'
<1>1. /\ TypeOK /\ HandlerKind(r) /\ UndoTarget(r) /\ pc[r] = "rmFile"
      /\ UNCHANGED <<op, net>>
  BY DEF RemoveTxFile, Step, Return, Inv, mgrVars, procVars
<1>a. loc[r].tx \in Requests
  BY <1>1 DEF HandlerKind, UndoTarget, Established
<1>b. PICK t \in Requests : t = loc[r].tx
  BY <1>a
<1>2. op[r] = "disconnect" /\ Established(t) /\ t # r
  BY <1>1, <1>b DEF HandlerKind, UndoTarget, Established
<1>c. CASE Return(r, "rmFile", "failed") /\ UNCHANGED tx
  <2>1. Moved(r) /\ pc'[r] = "failed" /\ ~loc'[r].mark
    BY <1>1, <1>c, ReturnLands
  <2>2. RecordStage(r)' /\ RollbackCovers(r)'
    BY <1>1, <1>2, <1>c, <2>1
       DEF RecordInv, RecordStage, Reported, RollbackCovers, Established, Owned
  <2> QED
    BY <1>1, <1>c, <2>1, <2>2, RecordsUntouched
<1>d. SUFFICES ASSUME Step(r, "rmFile", "setInactive"), UNCHANGED loc,
                      tx' = [tx EXCEPT ![loc[r].tx] = NoTx]
               PROVE  RecordInv'
  BY <1>c DEF RemoveTxFile
<1>3. Moved(r) /\ pc'[r] = "setInactive" /\ loc'[r] = loc[r]
  BY <1>1, <1>d, StepLands
<1>4. tx' = [tx EXCEPT ![t] = NoTx]
  BY <1>b, <1>d
<1>5. t \in Requests /\ tx'[t].state = "absent" /\ tx'[r] = tx[r] /\ pc'[t] = pc[t] /\ op'[t] = op[t]
  BY <1>1, <1>2, <1>3, <1>4 DEF TypeOK, NoTx, Established, Moved
<1>6. RecordFrame(r, t)
  BY <1>1, <1>3, <1>4 DEF RecordFrame, Moved, Owned, TypeOK
<1>7. RecordOK(r)' /\ RollbackCovers(r)'
  BY <1>1, <1>2, <1>3, <1>5
     DEF RecordInv, RecordOK, RecordStage, Reported, RecordTruth, RollbackCovers, Established, Owned
<1>8. RecordOK(t)'
  BY <1>2, <1>5 DEF RecordOK, RecordStage, Reported, RecordTruth, Established
<1> QED
  BY <1>5, <1>6, <1>7, <1>8, RecordFramed

LEMMA RecSetInactive ==
  ASSUME ~HalfSteps, Inv, RecordInv, NEW r \in Requests, SetInactive(r) PROVE RecordInv'
<1>1. TypeOK /\ UNCHANGED <<tx, net, op>> /\ HandlerKind(r)
  BY DEF SetInactive, Inv
<1>2. Moved(r) /\ pc[r] = "setInactive" /\ pc'[r] = "ok" /\ ~loc'[r].mark
  BY <1>1, ReturnLands DEF SetInactive
<1>3. op[r] = "disconnect"
  BY <1>1, <1>2 DEF HandlerKind
<1>9. RecordStage(r)' /\ RollbackCovers(r)'
  BY <1>1, <1>2, <1>3 DEF RecordInv, RecordStage, Reported, RollbackCovers, Established, Owned
<1> QED
  BY <1>1, <1>2, <1>9, RecordsUntouched

LEMMA RecCoreExit ==
  ASSUME ~HalfSteps, Inv, RecordInv, NEW r \in Requests, CoreExit(r) PROVE RecordInv'
BY DEF RecordInv, RecordStage, Reported, RecordTruth, RollbackCovers, Established, Owned,
     CoreExit

LEMMA RecWaitForExit ==
  ASSUME ~HalfSteps, Inv, RecordInv, NEW r \in Requests, WaitForExit(r) PROVE RecordInv'
BY DEF RecordInv, RecordStage, Reported, RecordTruth, RollbackCovers, Established, Owned,
     WaitForExit

LEMMA RecAdapterExit ==
  ASSUME ~HalfSteps, Inv, RecordInv, NEW r \in Requests, AdapterExit(r) PROVE RecordInv'
BY DEF RecordInv, RecordStage, Reported, RecordTruth, RollbackCovers, Established, Owned,
     AdapterExit

LEMMA RecInit == Init => RecordInv
BY ManagerAssumption DEF Init, RecordInv, RecordStage, Reported, RecordTruth, RollbackCovers,
     Owned, Established, NoTx, NoLocal

LEMMA RecNext == ASSUME ~HalfSteps, Inv, RecordInv, [Next]_vars PROVE RecordInv'
<1>1. ASSUME NEW r \in Requests, Continue(r) PROVE RecordInv'
  BY <1>1, RecCreateTx, RecApplyPlan, RecRecordAndVerify, RecStartCore, RecSaveCoreMetadata,
     RecVerifyCoreStarted, RecStartAdapter, RecSaveAdapterMetadata, RecVerifyConnectivity,
     RecCommitActiveState, RecStopAdapter, RecStopCore, RecLoadTx, RecBeginRollback,
     RecExecuteRollback, RecRemoveConfig, RecWaitCore, RecRemoveTxFile, RecSetInactive DEF Continue
<1>2. ASSUME NEW r \in Requests, ConnectProxyOnly(r) \/ ConnectTun(r) \/ Disconnect(r)
      PROVE  RecordInv'
  BY <1>2, RecConnectProxyOnly, RecConnectTun, RecDisconnect
<1>3. ASSUME NEW r \in Requests, CoreExit(r) \/ WaitForExit(r) \/ AdapterExit(r)
      PROVE  RecordInv'
  BY <1>3, RecCoreExit, RecWaitForExit, RecAdapterExit
<1>4. CASE UNCHANGED vars
  BY <1>4 DEF vars, RecordInv, RecordStage, Reported, RecordTruth, RollbackCovers, Owned,
              Established
<1> QED
  BY <1>1, <1>2, <1>3, <1>4 DEF Next, AllServed

\* Wherever its connect, its disconnects and their stale copies are, the record
\* of a transaction tells what it left on the host.
THEOREM RecordInvariance == ASSUME ~HalfSteps PROVE Spec => []RecordInv
<1>1. Inv /\ RecordInv /\ [Next]_vars => RecordInv'
  BY RecNext
<1> QED
  BY <1>1, RecInit, Invariance, PTL DEF Spec

\* From the moment its steps are recorded until it is rolled back, a record
\* names every resource of its transaction (runTunTransaction), provided no
\* step of several commands fails after the first one.
THEOREM RecordsCoverHost == ASSUME ~HalfSteps PROVE Spec => []RecordCoversHost
<1>1. RecordInv => RecordCoversHost
  BY DEF RecordInv, RecordTruth, RecordCoversHost, Owned
<1> QED
  BY <1>1, RecordInvariance, PTL

\* Under the same proviso a record that says rolled_back left nothing behind
\* (rollbackTunTransaction), even when several disconnects undo it at once.
THEOREM RolledBackLeavesNothing == ASSUME ~HalfSteps PROVE Spec => []RolledBackIsClean
<1>1. RecordInv => RolledBackIsClean
  BY DEF RecordInv, RecordTruth, RolledBackIsClean, Owned
<1> QED
  BY <1>1, RecordInvariance, PTL
=============================================================================

----------------------- MODULE XrayManagerCalls_proofs -----------------------
(***************************************************************************)
(* What the calls of the connection manager leave behind.  A core that     *)
(* dies unasked is reported as a crash, one that was stopped is not        *)
(* (CrashReported): StopIsFlagged says that the flag waitForExit reads was *)
(* set by whoever signalled the core.  A TUN connect that fails takes back *)
(* what it has started (FailedConnectIsUndone): UndoneInv follows its      *)
(* core, its record and its adapter.  Calls that come one at a time leave  *)
(* a clean host and the config of the running core (InactiveMeansClean,    *)
(* ConfigMatchesCore): SerialInv describes every stage of a call.          *)
(***************************************************************************)
EXTENDS XrayManager_proofs

USE DEF NoCore, Registered, Applicable

-----------------------------------------------------------------------------
(* Who has asked a core to stop.                                           *)

LEMMA FlagInit == Init => StopIsFlagged
BY ManagerAssumption DEF Init, StopIsFlagged

LEMMA FlagConnectProxyOnly ==
  ASSUME Inv, StopIsFlagged, NEW r \in Requests, ConnectProxyOnly(r) PROVE StopIsFlagged'
BY ManagerAssumption DEF Inv, TypeOK, RegisteredCore, StopIsFlagged, StartsOnce,
     HandlerKind, UndoTarget, Established, Local, ConnectProxyOnly, Step, Goto, Call,
     StartXray, StartXrayFails, Busy

LEMMA FlagConnectTun ==
  ASSUME Inv, StopIsFlagged, NEW r \in Requests, ConnectTun(r) PROVE StopIsFlagged'
BY ManagerAssumption DEF Inv, TypeOK, RegisteredCore, StopIsFlagged, StartsOnce,
     HandlerKind, UndoTarget, Established, Local, ConnectTun, Step, Goto, Call, Busy,
     mgrVars, procVars

LEMMA FlagCreateTx ==
  ASSUME Inv, StopIsFlagged, NEW r \in Requests, CreateTx(r) PROVE StopIsFlagged'
BY ManagerAssumption DEF Inv, TypeOK, RegisteredCore, StopIsFlagged, StartsOnce,
     HandlerKind, UndoTarget, Established, Local, CreateTx, Step, Goto, mgrVars, procVars

LEMMA FlagApplyPlan ==
  ASSUME Inv, StopIsFlagged, NEW r \in Requests, ApplyPlan(r) PROVE StopIsFlagged'
<1>1. pc[r] = "apply" /\ core[r] = "none" /\ cmd # r
  BY DEF Inv, StartsOnce, RegisteredCore, ApplyPlan, RollbackSteps, Step
<1>2. /\ pc' = [pc EXCEPT ![r] = "record"] \/ pc' = [pc EXCEPT ![r] = "rbSave"]
      /\ \A q \in Requests \ {r} : loc'[q] = loc[q]
  BY DEF ApplyPlan, RollbackSteps, Step, Goto, Inv, TypeOK
<1>3. UNCHANGED <<cmd, stopping, core, signalled, op>>
  BY DEF ApplyPlan, mgrVars, procVars
<1> QED
  BY <1>1, <1>2, <1>3 DEF Inv, TypeOK, StopIsFlagged

LEMMA FlagRecordAndVerify ==
  ASSUME Inv, StopIsFlagged, NEW r \in Requests, RecordAndVerify(r) PROVE StopIsFlagged'
BY ManagerAssumption DEF Inv, TypeOK, RegisteredCore, StopIsFlagged, StartsOnce,
     HandlerKind, UndoTarget, Established, Local, RecordAndVerify, Step, Goto, Return,
     RollbackSteps, mgrVars, procVars

LEMMA FlagStartCore ==
  ASSUME Inv, StopIsFlagged, NEW r \in Requests, StartCore(r) PROVE StopIsFlagged'
BY ManagerAssumption DEF Inv, TypeOK, RegisteredCore, StopIsFlagged, StartsOnce,
     HandlerKind, UndoTarget, Established, Local, StartCore, Step, Goto, RollbackPlan,
     StartXray, StartXrayFails, Busy

LEMMA FlagSaveCoreMetadata ==
  ASSUME Inv, StopIsFlagged, NEW r \in Requests, SaveCoreMetadata(r) PROVE StopIsFlagged'
BY ManagerAssumption DEF Inv, TypeOK, RegisteredCore, StopIsFlagged, StartsOnce,
     HandlerKind, UndoTarget, Established, Local, SaveCoreMetadata, Step, Goto, mgrVars,
     procVars

LEMMA FlagVerifyCoreStarted ==
  ASSUME Inv, StopIsFlagged, NEW r \in Requests, VerifyCoreStarted(r) PROVE StopIsFlagged'
BY ManagerAssumption DEF Inv, TypeOK, RegisteredCore, StopIsFlagged, StartsOnce,
     HandlerKind, UndoTarget, Established, Local, VerifyCoreStarted, Step, Goto, mgrVars,
     procVars

LEMMA FlagStartAdapter ==
  ASSUME Inv, StopIsFlagged, NEW r \in Requests, StartAdapter(r) PROVE StopIsFlagged'
BY ManagerAssumption DEF Inv, TypeOK, RegisteredCore, StopIsFlagged, StartsOnce,
     HandlerKind, UndoTarget, Established, Local, StartAdapter, Step, Goto, mgrVars

LEMMA FlagSaveAdapterMetadata ==
  ASSUME Inv, StopIsFlagged, NEW r \in Requests, SaveAdapterMetadata(r) PROVE StopIsFlagged'
BY ManagerAssumption DEF Inv, TypeOK, RegisteredCore, StopIsFlagged, StartsOnce,
     HandlerKind, UndoTarget, Established, Local, SaveAdapterMetadata, Step, Goto, mgrVars,
     procVars

LEMMA FlagVerifyConnectivity ==
  ASSUME Inv, StopIsFlagged, NEW r \in Requests, VerifyConnectivity(r) PROVE StopIsFlagged'
BY ManagerAssumption DEF Inv, TypeOK, RegisteredCore, StopIsFlagged, StartsOnce,
     HandlerKind, UndoTarget, Established, Local, VerifyConnectivity, Step, Goto, mgrVars,
     procVars

LEMMA FlagCommitActiveState ==
  ASSUME Inv, StopIsFlagged, NEW r \in Requests, CommitActiveState(r) PROVE StopIsFlagged'
BY ManagerAssumption DEF Inv, TypeOK, RegisteredCore, StopIsFlagged, StartsOnce,
     HandlerKind, UndoTarget, Established, Local, CommitActiveState, Step, Goto, Return,
     procVars

LEMMA FlagStopAdapter ==
  ASSUME Inv, StopIsFlagged, NEW r \in Requests, StopAdapter(r) PROVE StopIsFlagged'
<1>1. pc[r] = "stopAdapter" /\ op[r] \in {"tun", "disconnect"}
  BY DEF StopAdapter, RollbackPlan, Return, Step, Inv, HandlerKind
<1>2. UNCHANGED <<cmd, stopping, core, signalled, op>>
  BY DEF StopAdapter, mgrVars
<1>3. \A q \in Requests \ {r} : pc'[q] = pc[q] /\ loc'[q] = loc[q]
  BY DEF StopAdapter, RollbackPlan, Return, Step, Goto, Inv, TypeOK
<1>4. \/ pc'[r] = "rbLoad" /\ op[r] = "tun" /\ loc[r].core = None
      \/ pc'[r] = "stopCore" /\ op[r] = "tun" /\ loc[r].core # None /\ loc' = loc
      \/ pc'[r] \in {"rbLoad", "failed"} /\ op[r] = "disconnect"
  BY <1>1 DEF StopAdapter, RollbackPlan, Return, Step, Goto, Inv, TypeOK
<1> QED
  BY <1>1, <1>2, <1>3, <1>4 DEF Inv, TypeOK, StopIsFlagged

LEMMA FlagStopCore ==
  ASSUME Inv, StopIsFlagged, NEW r \in Requests, StopCore(r) PROVE StopIsFlagged'
<1>1. pc[r] = "stopCore" /\ loc[r].core = r /\ core[r] # "none"
  BY DEF StopCore, RollbackPlan, Step, StopIsFlagged
<1>2. UNCHANGED <<cmd, core, op>> /\ \A q \in Requests \ {r} : pc'[q] = pc[q] /\ loc'[q] = loc[q]
  BY DEF StopCore, RollbackPlan, Step, Goto, Inv, TypeOK
<1>3. pc'[r] \in {"waitCore", "rbLoad"}
  BY DEF StopCore, RollbackPlan, Step, Goto, Inv, TypeOK
<1>4. /\ stopping' = (stopping \/ cmd = r)
      /\ signalled' \in {signalled, signalled \cup {r}}
  BY DEF StopCore
<1>5. cmd \in signalled' => stopping'
  BY <1>2, <1>4 DEF StopIsFlagged
<1>6. ASSUME NEW q \in Requests, core[q] = "none" PROVE q \notin signalled'
  BY <1>1, <1>4, <1>6 DEF StopIsFlagged
<1> QED
  BY <1>1, <1>2, <1>3, <1>4, <1>5, <1>6 DEF StopIsFlagged

LEMMA FlagLoadTx ==
  ASSUME Inv, StopIsFlagged, NEW r \in Requests, LoadTx(r) PROVE StopIsFlagged'
BY ManagerAssumption DEF Inv, TypeOK, RegisteredCore, StopIsFlagged, StartsOnce,
     HandlerKind, UndoTarget, Established, Local, LoadTx, Step, Goto, Return, mgrVars,
     procVars

LEMMA FlagBeginRollback ==
  ASSUME Inv, StopIsFlagged, NEW r \in Requests, BeginRollback(r) PROVE StopIsFlagged'
BY ManagerAssumption DEF Inv, TypeOK, RegisteredCore, StopIsFlagged, StartsOnce,
     HandlerKind, UndoTarget, Established, Local, BeginRollback, Step, Goto, Return,
     RolledBack, mgrVars

LEMMA FlagExecuteRollback ==
  ASSUME Inv, StopIsFlagged, NEW r \in Requests, ExecuteRollback(r) PROVE StopIsFlagged'
BY ManagerAssumption DEF Inv, TypeOK, RegisteredCore, StopIsFlagged, StartsOnce,
     HandlerKind, UndoTarget, Established, Local, ExecuteRollback, Step, Goto, Return,
     RolledBack, mgrVars, procVars

LEMMA FlagDisconnect ==
  ASSUME Inv, StopIsFlagged, NEW r \in Requests, Disconnect(r) PROVE StopIsFlagged'
BY ManagerAssumption DEF Inv, TypeOK, RegisteredCore, StopIsFlagged, StartsOnce,
     HandlerKind, UndoTarget, Established, Local, Disconnect, Step, Goto, Call

LEMMA FlagRemoveConfig ==
  ASSUME Inv, StopIsFlagged, NEW r \in Requests, RemoveConfig(r) PROVE StopIsFlagged'
BY ManagerAssumption DEF Inv, TypeOK, RegisteredCore, StopIsFlagged, StartsOnce,
     HandlerKind, UndoTarget, Established, Local, RemoveConfig, Step, Goto, Return, mgrVars,
     procVars

LEMMA FlagWaitCore ==
  ASSUME Inv, StopIsFlagged, NEW r \in Requests, WaitCore(r) PROVE StopIsFlagged'
BY ManagerAssumption DEF Inv, TypeOK, RegisteredCore, StopIsFlagged, StartsOnce,
     HandlerKind, UndoTarget, Established, Local, WaitCore, Step, Goto, Return,
     RollbackPlan, mgrVars, procVars

LEMMA FlagRemoveTxFile ==
  ASSUME Inv, StopIsFlagged, NEW r \in Requests, RemoveTxFile(r) PROVE StopIsFlagged'
BY ManagerAssumption DEF Inv, TypeOK, RegisteredCore, StopIsFlagged, StartsOnce,
     HandlerKind, UndoTarget, Established, Local, RemoveTxFile, Step, Goto, Return,
     mgrVars, procVars

LEMMA FlagSetInactive ==
  ASSUME Inv, StopIsFlagged, NEW r \in Requests, SetInactive(r) PROVE StopIsFlagged'
BY ManagerAssumption DEF Inv, TypeOK, RegisteredCore, StopIsFlagged, StartsOnce,
     HandlerKind, UndoTarget, Established, Local, SetInactive, Step, Goto, Return, procVars

LEMMA FlagCoreExit ==
  ASSUME Inv, StopIsFlagged, NEW r \in Requests, CoreExit(r) PROVE StopIsFlagged'
BY ManagerAssumption DEF Inv, TypeOK, RegisteredCore, StopIsFlagged, StartsOnce,
     HandlerKind, UndoTarget, Established, Local, CoreExit

LEMMA FlagWaitForExit ==
  ASSUME Inv, StopIsFlagged, NEW r \in Requests, WaitForExit(r) PROVE StopIsFlagged'
BY ManagerAssumption DEF Inv, TypeOK, RegisteredCore, StopIsFlagged, StartsOnce,
     HandlerKind, UndoTarget, Established, Local, WaitForExit

LEMMA FlagAdapterExit ==
  ASSUME Inv, StopIsFlagged, NEW r \in Requests, AdapterExit(r) PROVE StopIsFlagged'
BY ManagerAssumption DEF Inv, TypeOK, RegisteredCore, StopIsFlagged, StartsOnce,
     HandlerKind, UndoTarget, Established, Local, AdapterExit

LEMMA FlagNext == Inv /\ StopIsFlagged /\ [Next]_vars => StopIsFlagged'
<1> SUFFICES ASSUME Inv, StopIsFlagged, [Next]_vars PROVE StopIsFlagged'
  OBVIOUS
<1>1. ASSUME NEW r \in Requests, Continue(r) PROVE StopIsFlagged'
  BY <1>1, FlagCreateTx, FlagApplyPlan, FlagRecordAndVerify, FlagStartCore,
     FlagSaveCoreMetadata, FlagVerifyCoreStarted, FlagStartAdapter, FlagSaveAdapterMetadata,
     FlagVerifyConnectivity, FlagCommitActiveState, FlagStopAdapter, FlagStopCore,
     FlagLoadTx, FlagBeginRollback, FlagExecuteRollback, FlagRemoveConfig, FlagWaitCore,
     FlagRemoveTxFile, FlagSetInactive DEF Continue
<1>2. ASSUME NEW r \in Requests, ConnectProxyOnly(r) \/ ConnectTun(r) \/ Disconnect(r)
      PROVE  StopIsFlagged'
  BY <1>2, FlagConnectProxyOnly, FlagConnectTun, FlagDisconnect
<1>3. ASSUME NEW r \in Requests, CoreExit(r) \/ WaitForExit(r) \/ AdapterExit(r)
      PROVE  StopIsFlagged'
  BY <1>3, FlagCoreExit, FlagWaitForExit, FlagAdapterExit
<1>4. CASE UNCHANGED vars
  BY <1>4 DEF vars, StopIsFlagged
<1> QED
  BY <1>1, <1>2, <1>3, <1>4 DEF Next, AllServed

\* A core is only ever reaped by waitForExit.
LEMMA OnlyWaitForExitReaps ==
  ASSUME Inv, NEW c \in Requests, [Next]_vars, core[c] = "exited", core'[c] = "reaped"
  PROVE  WaitForExit(c)
<1>1. ASSUME NEW r \in Requests, Continue(r) PROVE FALSE
  <2>1. UNCHANGED core \/ core' = [core EXCEPT ![r] = "running"]
    BY <1>1 DEF ApplyPlan, BeginRollback, CommitActiveState, Continue, CreateTx,
     ExecuteRollback, LoadTx, RecordAndVerify, RemoveConfig, RemoveTxFile,
     SaveAdapterMetadata, SaveCoreMetadata, SetInactive, StartAdapter, StartCore, StartXray,
     StartXrayFails, StopAdapter, StopCore, VerifyConnectivity, VerifyCoreStarted, WaitCore,
     mgrVars, procVars
  <2> QED
    BY <2>1 DEF Inv, TypeOK
<1>2. ASSUME NEW r \in Requests, ConnectProxyOnly(r) \/ ConnectTun(r) \/ Disconnect(r)
      PROVE  FALSE
  <2>1. UNCHANGED core \/ core' = [core EXCEPT ![r] = "running"]
    BY <1>2 DEF ConnectProxyOnly, ConnectTun, Disconnect, StartXray, StartXrayFails, mgrVars, procVars
  <2> QED
    BY <2>1 DEF Inv, TypeOK
<1>3. ASSUME NEW r \in Requests, CoreExit(r) \/ AdapterExit(r) PROVE FALSE
  BY <1>3 DEF CoreExit, AdapterExit, Inv, TypeOK
<1>4. ASSUME NEW r \in Requests, WaitForExit(r) PROVE r = c
  BY <1>4 DEF WaitForExit, Inv, TypeOK
<1>5. ~UNCHANGED vars
  BY DEF vars
<1> QED
  BY <1>1, <1>2, <1>3, <1>4, <1>5 DEF Next, AllServed

\* Whoever signals the registered core has set m.stopping before, under m.mu
\* (Disconnect, stopStartedCore), and nobody resets it until the core is reaped.
THEOREM FlagInvariance == Spec => []StopIsFlagged
BY FlagInit, FlagNext, Invariance, PTL DEF Spec

\* waitForExit reports a crash exactly when nobody had asked the core to stop.
THEOREM CrashesAreReported == Spec => CrashReported
<1>1. ASSUME Inv, StopIsFlagged, [Next]_vars,
             NEW c \in Requests, core[c] = "exited", core'[c] = "reaped"
      PROVE  connection'.status = "error" <=> ~stopping /\ c \notin signalled
  <2>1. WaitForExit(c) /\ cmd = c
    BY <1>1, OnlyWaitForExitReaps DEF Inv, RegisteredCore
  <2>2. CASE stopping
    BY <2>1, <2>2 DEF WaitForExit, Inactive
  <2>3. CASE ~stopping
    BY <1>1, <2>1, <2>3 DEF WaitForExit, StopIsFlagged, Inv, TypeOK, Connection
  <2> QED
    BY <2>2, <2>3
<1>2. Inv /\ StopIsFlagged /\ [Next]_vars =>
        [\A c \in Requests : core[c] = "exited" /\ core'[c] = "reaped" =>
           (connection'.status = "error" <=> ~stopping /\ c \notin signalled)]_vars
  BY <1>1
<1> QED
  BY <1>2, Invariance, FlagInvariance, PTL DEF Spec, CrashReported

-----------------------------------------------------------------------------
(* What a failed connect leaves.  UndoneInv follows the core, the record   *)
(* and the adapter of a connect to its end.  Its core is its own, so it is *)
(* gone before the rollback begins; its adapter is stopped by whoever      *)
(* takes the handle, or by its recorded pid.                               *)

CoreKnown(r) ==
  op[r] = "tun" =>
    /\ pc[r] \in {"saveCore", "verifyCore", "startAdapter", "saveAdapter", "verifyNet", "commit",
                  "stopCore", "waitCore"} => loc[r].core = r /\ core[r] # "none"
    /\ pc[r] = "stopAdapter" => IF loc[r].core = None THEN core[r] = "reaped"
                                ELSE loc[r].core = r /\ core[r] # "none"
    /\ pc[r] \in {"rbLoad", "rbSave", "rbExec", "failed"} => core[r] \in {"none", "reaped"}

RecordKnown(r) ==
  /\ pc[r] \in {"idle", "create"} => tx[r].state = "absent"
  /\ op[r] = "tun" /\ pc[r] = "rbSave" =>
       /\ tx[r].state \notin {"absent", "rolled_back"}
       /\ loc[r].copy.state \in {"applying", "verifying", "committed"}
  /\ op[r] = "tun" /\ pc[r] = "rbExec" => tx[r].state = "rolling_back"

AdapterKnown(r) ==
  /\ pc[r] \in {"idle", "create", "apply", "record", "startCore", "saveCore", "verifyCore",
                "startAdapter"} => adapter[r] = "none"
  /\ op[r] = "tun" /\ adapter[r] = "running" =>
       /\ pc[r] \in {"saveAdapter", "verifyNet", "commit", "stopAdapter"} =>
            adapters = r \/ OtherAdapter(r)
       /\ pc[r] \in {"stopCore", "waitCore", "rbLoad", "rbSave", "rbExec"} => OtherAdapter(r)
       /\ pc[r] = "rbExec" => "adapter" \notin loc[r].copy.children

Settled(r) ==
  op[r] = "tun" /\ pc[r] = "failed" /\ tx[r].state \in {"absent", "rolled_back"} =>
    /\ adapter[r] = "running" => "adapter" \notin tx[r].children /\ OtherAdapter(r)
    /\ Owned(r) = {}

UndoneOK(r) == CoreKnown(r) /\ RecordKnown(r) /\ AdapterKnown(r) /\ Settled(r)
UndoneInv == \A r \in Requests : UndoneOK(r)

\* A step of r, the rollback of the committed t or of its own transaction, as
\* another connect q sees it: what is q's stays, and an adapter that was
\* registered is only given up when it is stopped or replaced.
Aside(r, t) ==
  /\ Moved(r)
  /\ \A q \in Requests \ {r, t} : tx'[q] = tx[q]
  /\ \A q \in Requests \ {r} : core'[q] = core[q] /\ Owned(q)' \subseteq Owned(q)
  /\ \A q \in Requests : adapter[q] # "none" => adapter'[q] # "none"
  /\ \A q \in Requests \ {r} :
       /\ adapter[q] = "none" => adapter'[q] = "none"
       /\ adapter'[q] = "running" =>
            adapter[q] = "running" /\ (adapters = q => adapters' = q \/ adapter'[r] # "none")

LEMMA UndoneFramed ==
  ASSUME Inv, UndoneInv, NEW r \in Requests, NEW t \in Requests, t = r \/ Established(t),
         Aside(r, t), UndoneOK(r)'
  PROVE  UndoneInv'
<1>1. ASSUME NEW q \in Requests \ {r} PROVE UndoneOK(q)'
  <2>1. /\ pc'[q] = pc[q] /\ op'[q] = op[q] /\ loc'[q] = loc[q] /\ core'[q] = core[q]
        /\ Owned(q)' \subseteq Owned(q)
        /\ tx'[q] = tx[q] \/ Established(q)
        /\ adapter[q] = "none" => adapter'[q] = "none"
        /\ adapter'[q] = "running" =>
             adapter[q] = "running" /\ (adapters = q => adapters' = q \/ adapter'[r] # "none")
    BY <1>1 DEF Aside, Moved
  <2>2. OtherAdapter(q) => OtherAdapter(q)'
    BY DEF OtherAdapter, Aside
  <2>3. adapter'[r] # "none" => OtherAdapter(q)'
    BY <1>1 DEF OtherAdapter
  <2>4. CoreKnown(q) /\ RecordKnown(q) /\ AdapterKnown(q) /\ Settled(q)
    BY <1>1 DEF UndoneInv, UndoneOK
  <2>5. CoreKnown(q)'
    BY <2>1, <2>4 DEF CoreKnown
  <2>6. RecordKnown(q)'
    BY <2>1, <2>4 DEF RecordKnown, Established
  <2>7. AdapterKnown(q)'
    BY <2>1, <2>2, <2>3, <2>4 DEF AdapterKnown
  <2>8. Settled(q)'
    BY <2>1, <2>2, <2>4 DEF Settled, Established
  <2> QED
    BY <2>5, <2>6, <2>7, <2>8 DEF UndoneOK
<1> QED
  BY <1>1 DEF UndoneInv

\* A step of r that starts and stops nothing and writes no record but its own.
LEMMA UndonePlain ==
  ASSUME Inv, UndoneInv, NEW r \in Requests, Moved(r), UNCHANGED <<core, adapters, adapter>>,
         \A q \in Requests \ {r} : tx'[q] = tx[q] /\ Owned(q)' \subseteq Owned(q),
         UndoneOK(r)'
  PROVE  UndoneInv'
<1>1. Aside(r, r)
  BY DEF Aside
<1> QED
  BY <1>1, UndoneFramed

LEMMA UndoneConnectProxyOnly ==
  ASSUME Inv, UndoneInv, NEW r \in Requests, ConnectProxyOnly(r) PROVE UndoneInv'
<1>1. /\ Moved(r) /\ op'[r] = "proxy-only" /\ pc'[r] \in {"ok", "failed"}
      /\ UNCHANGED <<adapters, adapter, tx, net>>
      /\ \A q \in Requests \ {r} : core'[q] = core[q]
  BY DEF ConnectProxyOnly, Call, Step, Goto, StartXray, StartXrayFails, Inv, TypeOK, Moved
<1>2. UndoneOK(r)'
  BY <1>1 DEF UndoneOK, CoreKnown, RecordKnown, AdapterKnown, Settled
<1>3. Aside(r, r)
  BY <1>1 DEF Aside, Owned
<1> QED
  BY <1>2, <1>3, UndoneFramed

LEMMA UndoneConnectTun ==
  ASSUME Inv, RecordInv, UndoneInv, NEW r \in Requests, ConnectTun(r) PROVE UndoneInv'
<1>1. /\ Moved(r) /\ pc[r] = "idle" /\ op'[r] = "tun" /\ pc'[r] \in {"failed", "create"}
      /\ UNCHANGED <<core, adapters, adapter, tx, net, loc>>
  BY DEF ConnectTun, Call, Step, Goto, Inv, TypeOK, Moved, mgrVars, procVars
<1>2. core[r] = "none" /\ adapter[r] = "none" /\ tx[r].state = "absent" /\ Owned(r) = {}
  BY <1>1 DEF Inv, StartsOnce, RecordInv, RecordStage, UndoneInv, UndoneOK, RecordKnown, AdapterKnown
<1>3. UndoneOK(r)'
  BY <1>1, <1>2 DEF UndoneOK, CoreKnown, RecordKnown, AdapterKnown, Settled, Owned
<1> QED
  BY <1>1, <1>3, UndonePlain DEF Owned

LEMMA UndoneDisconnect ==
  ASSUME Inv, UndoneInv, NEW r \in Requests, Disconnect(r) PROVE UndoneInv'
<1>1. /\ Moved(r) /\ op'[r] = "disconnect" /\ pc'[r] \in {"rmConfig", "waitCore", "failed"}
      /\ UNCHANGED <<core, adapters, adapter, tx, net>>
  BY DEF Disconnect, Call, Step, Goto, Inv, TypeOK, Moved
<1>2. UndoneOK(r)'
  BY <1>1 DEF UndoneOK, CoreKnown, RecordKnown, AdapterKnown, Settled
<1> QED
  BY <1>1, <1>2, UndonePlain DEF Owned

LEMMA UndoneCreateTx ==
  ASSUME Inv, RecordInv, UndoneInv, NEW r \in Requests, CreateTx(r) PROVE UndoneInv'
<1>1. /\ TypeOK /\ pc[r] = "create" /\ HandlerKind(r) /\ StartsOnce(r)
      /\ UNCHANGED <<core, adapters, adapter, net, op>>
  BY DEF CreateTx, Step, Inv, mgrVars, procVars
<1>2. op[r] = "tun" /\ core[r] = "none" /\ adapter[r] = "none" /\ Owned(r) = {}
  BY <1>1 DEF HandlerKind, StartsOnce, RecordInv, RecordStage, UndoneInv, UndoneOK, AdapterKnown
<1>3. pc'[r] \in {"apply", "failed"} /\ \A q \in Requests \ {r} : tx'[q] = tx[q]
  BY <1>1 DEF CreateTx, Step, Goto, TypeOK
<1>4. Moved(r)
  <2> DEFINE plan == Plannable
  <2> HIDE DEF plan
  <2>1. loc' = [loc EXCEPT ![r].plan = plan] \/ UNCHANGED loc
    BY DEF CreateTx, plan
  <2> QED
    BY <1>1, <2>1 DEF CreateTx, Step, Goto, TypeOK, Moved
<1>5. UndoneOK(r)'
  BY <1>1, <1>2, <1>3 DEF UndoneOK, CoreKnown, RecordKnown, AdapterKnown, Settled, Owned
<1> QED
  BY <1>1, <1>3, <1>4, <1>5, UndonePlain DEF Owned

\* To the rollback of the steps that were applied, before there is a core.
LEMMA UndoneRollbackSteps ==
  ASSUME Inv, UndoneInv, NEW r \in Requests, NEW from, NEW copy \in TxRecord,
         NEW steps \in SUBSET NetResources, RollbackSteps(r, from, copy, steps), UNCHANGED op,
         op[r] = "tun", core[r] = "none", adapter[r] = "none",
         copy.state \in {"applying", "verifying"},
         tx'[r].state \in {"applying", "applied", "verifying"},
         UNCHANGED <<core, adapters, adapter>>,
         \A q \in Requests \ {r} : tx'[q] = tx[q] /\ Owned(q)' \subseteq Owned(q)
  PROVE  UndoneInv'
<1> DEFINE l == [NoLocal EXCEPT !.tx = r, !.plan = steps, !.mark = TRUE,
                   !.copy = [copy EXCEPT !.rollback = steps]]
<1>1. l.copy.state = copy.state
  BY DEF NoLocal, TxRecord
<1>2. loc' = [loc EXCEPT ![r] = l]
  BY DEF RollbackSteps
<1> HIDE DEF l
<1>3. Moved(r) /\ pc'[r] = "rbSave" /\ loc'[r] = l
  BY <1>2, StepsLand DEF Inv, TypeOK
<1>4. UndoneOK(r)'
  BY <1>1, <1>3 DEF UndoneOK, CoreKnown, RecordKnown, AdapterKnown, Settled
<1> QED
  BY <1>3, <1>4, UndonePlain

LEMMA UndoneApplyPlan ==
  ASSUME Inv, RecordInv, UndoneInv, NEW r \in Requests, ApplyPlan(r) PROVE UndoneInv'
<1>1. /\ TypeOK /\ HandlerKind(r) /\ StartsOnce(r) /\ tx[r] \in TxRecord /\ pc[r] = "apply"
      /\ UNCHANGED <<tx, op, core, adapters, adapter>>
  BY DEF ApplyPlan, RollbackSteps, Step, Inv, TypeOK, mgrVars, procVars
<1>2. op[r] = "tun" /\ core[r] = "none" /\ adapter[r] = "none" /\ tx[r].state = "applying"
  BY <1>1 DEF HandlerKind, StartsOnce, RecordInv, RecordStage, UndoneInv, UndoneOK, AdapterKnown
<1>3. \A q \in Requests \ {r} : Owned(q)' \subseteq Owned(q)
  <2>1. ASSUME NEW S, Create(r, S) PROVE \A q \in Requests \ {r} : Owned(q)' \subseteq Owned(q)
    BY <2>1 DEF Create, Owned
  <2>2. ASSUME NEW S, net' = [y \in NetResources |->
                         IF y = "table" THEN None ELSE IF y \in S THEN r ELSE net[y]]
        PROVE  \A q \in Requests \ {r} : Owned(q)' \subseteq Owned(q)
    BY <2>2, ManagerAssumption DEF Owned
  <2>3. ASSUME UNCHANGED net PROVE \A q \in Requests \ {r} : Owned(q)' \subseteq Owned(q)
    BY <2>3 DEF Owned
  <2>4. \/ UNCHANGED net \/ \E S : Create(r, S)
        \/ \E S : net' = [y \in NetResources |->
                    IF y = "table" THEN None ELSE IF y \in S THEN r ELSE net[y]]
    BY Zenon DEF ApplyPlan
  <2> QED
    BY <2>1, <2>2, <2>3, <2>4
<1>4. CASE \E steps \in SUBSET NetResources : RollbackSteps(r, "apply", tx[r], steps)
  BY <1>1, <1>2, <1>3, <1>4, UndoneRollbackSteps
<1>5. CASE Step(r, "apply", "record") /\ loc' = [loc EXCEPT ![r].plan = Missing \cup {"table"}]
  <2>1. Moved(r) /\ pc'[r] = "record"
    BY <1>1, <1>5 DEF Step, Goto, TypeOK, Moved
  <2>2. UndoneOK(r)'
    BY <1>1, <1>2, <2>1 DEF UndoneOK, CoreKnown, RecordKnown, AdapterKnown, Settled
  <2> QED
    BY <1>1, <1>3, <2>1, <2>2, UndonePlain
<1>6. \A x \in NetResources : Before(x) \in SUBSET NetResources
  BY DEF Before, Missing, NetResources
<1> QED
  BY <1>4, <1>5, <1>6 DEF ApplyPlan

LEMMA UndoneRecordAndVerify ==
  ASSUME Inv, RecordInv, UndoneInv, NEW r \in Requests, RecordAndVerify(r) PROVE UndoneInv'
<1> DEFINE steps == loc[r].plan
           Recorded(state) == [tx[r] EXCEPT !.state = state, !.rollback = steps]
<1>1. /\ TypeOK /\ HandlerKind(r) /\ StartsOnce(r) /\ tx[r] \in TxRecord
      /\ steps \in SUBSET NetResources /\ pc[r] = "record"
      /\ UNCHANGED <<op, net, core, adapters, adapter>>
  BY DEF RecordAndVerify, RollbackSteps, Return, Step, Inv, TypeOK, Local, mgrVars, procVars
<1>2. op[r] = "tun" /\ core[r] = "none" /\ adapter[r] = "none" /\ tx[r].state = "applying"
  BY <1>1 DEF HandlerKind, StartsOnce, RecordInv, RecordStage, UndoneInv, UndoneOK, AdapterKnown
<1>3. \A state \in {"applying", "applied", "verifying"} :
        Recorded(state) \in TxRecord /\ Recorded(state).state = state
  <2> HIDE DEF steps
  <2> QED
    BY <1>1 DEF TxRecord, FileStates, TxStates
<1>4. /\ \/ Step(r, "record", "startCore") /\ UNCHANGED loc
         \/ Return(r, "record", "failed")
         \/ RollbackSteps(r, "record", Recorded("verifying"), steps)
      /\ tx' = [tx EXCEPT ![r] = Recorded("verifying")]
      \/ /\ RollbackSteps(r, "record", tx[r], steps)
         /\ MaybeSaved(r, {Recorded("applying"), Recorded("applied"), Recorded("verifying")})
  BY DEF RecordAndVerify
<1> HIDE DEF Recorded
<1>5. /\ \A q \in Requests \ {r} : tx'[q] = tx[q]
      /\ \/ tx'[r] = tx[r]
         \/ tx'[r] \in {Recorded("applying"), Recorded("applied"), Recorded("verifying")}
      /\ tx' = [tx EXCEPT ![r] = Recorded("verifying")] => tx'[r].state = "verifying"
  BY <1>1, <1>3, <1>4, SavedOne DEF TypeOK
<1>6. tx'[r].state \in {"applying", "applied", "verifying"}
  BY <1>2, <1>3, <1>5
<1>7. CASE \E copy \in {tx[r], Recorded("verifying")} : RollbackSteps(r, "record", copy, steps)
  BY <1>1, <1>2, <1>3, <1>5, <1>6, <1>7, UndoneRollbackSteps DEF Owned
<1>8. CASE (Step(r, "record", "startCore") /\ UNCHANGED loc) \/ Return(r, "record", "failed")
  <2>1. Moved(r) /\ pc'[r] \in {"startCore", "failed"}
    BY <1>1, <1>8, StepLands, ReturnLands
  <2>2. UndoneOK(r)'
    BY <1>1, <1>2, <1>6, <2>1 DEF UndoneOK, CoreKnown, RecordKnown, AdapterKnown, Settled
  <2> QED
    BY <1>1, <1>5, <2>1, <2>2, UndonePlain DEF Owned
<1> QED
  BY <1>4, <1>7, <1>8

LEMMA UndoneStartCore ==
  ASSUME Inv, RecordInv, UndoneInv, NEW r \in Requests, StartCore(r) PROVE UndoneInv'
<1>1. /\ TypeOK /\ HandlerKind(r) /\ StartsOnce(r) /\ UNCHANGED <<adapters, adapter, tx, net, op>>
  BY DEF StartCore, Inv
<1>2. CASE RollbackPlan(r, "startCore") /\ UNCHANGED core
  <2>1. Moved(r) /\ pc[r] = "startCore" /\ pc'[r] = "rbLoad"
    BY <1>1, <1>2, PlanLands
  <2>2. core[r] = "none" /\ adapter[r] = "none"
    BY <1>1, <2>1 DEF StartsOnce, UndoneInv, UndoneOK, AdapterKnown
  <2>3. UndoneOK(r)'
    BY <1>1, <1>2, <2>1, <2>2 DEF UndoneOK, CoreKnown, RecordKnown, AdapterKnown, Settled
  <2> QED
    BY <1>1, <1>2, <2>1, <2>3, UndonePlain DEF Owned
<1>3. CASE StartXray(r) /\ Step(r, "startCore", "saveCore") /\ loc' = [loc EXCEPT ![r].core = r]
  <2>1. Moved(r) /\ pc[r] = "startCore" /\ pc'[r] = "saveCore"
    BY <1>1, <1>3 DEF TypeOK, Step, Goto, Moved
  <2>2. loc'[r].core = r /\ core'[r] = "running" /\ \A q \in Requests \ {r} : core'[q] = core[q]
    BY <1>1, <1>3 DEF TypeOK, Local, StartXray
  <2>3. adapter[r] = "none"
    BY <2>1 DEF UndoneInv, UndoneOK, AdapterKnown
  <2>4. UndoneOK(r)'
    BY <1>1, <2>1, <2>2, <2>3 DEF UndoneOK, CoreKnown, RecordKnown, AdapterKnown, Settled
  <2>5. Aside(r, r)
    BY <1>1, <2>1, <2>2 DEF Aside, Owned
  <2> QED
    BY <2>4, <2>5, UndoneFramed
<1> QED
  BY <1>2, <1>3 DEF StartCore, StartXrayFails

LEMMA UndoneSaveCoreMetadata ==
  ASSUME Inv, RecordInv, UndoneInv, NEW r \in Requests, SaveCoreMetadata(r) PROVE UndoneInv'
<1>1. /\ TypeOK /\ HandlerKind(r) /\ pc[r] = "saveCore"
      /\ UNCHANGED <<op, net, loc, core, adapters, adapter>>
  BY DEF SaveCoreMetadata, Step, Inv, procVars
<1>2. Moved(r) /\ pc'[r] \in {"verifyCore", "stopCore"} /\ loc'[r] = loc[r]
  BY <1>1, StepLands DEF SaveCoreMetadata
<1>3. \A q \in Requests \ {r} : tx'[q] = tx[q]
  BY <1>1, SavedOne DEF SaveCoreMetadata, TypeOK
<1>4. adapter[r] = "none" /\ CoreKnown(r) /\ op[r] = "tun"
  BY <1>1 DEF HandlerKind, UndoneInv, UndoneOK, AdapterKnown
<1>5. UndoneOK(r)'
  BY <1>1, <1>2, <1>4 DEF UndoneOK, CoreKnown, RecordKnown, AdapterKnown, Settled
<1> QED
  BY <1>1, <1>2, <1>3, <1>5, UndonePlain DEF Owned

LEMMA UndoneVerifyCoreStarted ==
  ASSUME Inv, RecordInv, UndoneInv, NEW r \in Requests, VerifyCoreStarted(r) PROVE UndoneInv'
<1>1. /\ TypeOK /\ HandlerKind(r) /\ UNCHANGED <<tx, op, net, loc, core, adapters, adapter>>
  BY DEF VerifyCoreStarted, Inv, procVars
<1>2. /\ Moved(r) /\ pc[r] = "verifyCore" /\ pc'[r] \in {"startAdapter", "stopCore"}
      /\ loc'[r] = loc[r]
  BY <1>1, StepLands DEF VerifyCoreStarted
<1>4. adapter[r] = "none" /\ CoreKnown(r) /\ op[r] = "tun"
  BY <1>1, <1>2 DEF HandlerKind, UndoneInv, UndoneOK, AdapterKnown
<1>5. UndoneOK(r)'
  BY <1>1, <1>2, <1>4 DEF UndoneOK, CoreKnown, RecordKnown, AdapterKnown, Settled
<1> QED
  BY <1>1, <1>2, <1>5, UndonePlain DEF Owned

LEMMA UndoneStartAdapter ==
  ASSUME Inv, RecordInv, UndoneInv, NEW r \in Requests, StartAdapter(r) PROVE UndoneInv'
<1>1. /\ TypeOK /\ HandlerKind(r) /\ UNCHANGED <<tx, op, net, loc, core>>
  BY DEF StartAdapter, Inv
<1>2. /\ Moved(r) /\ pc[r] = "startAdapter" /\ pc'[r] \in {"saveAdapter", "stopCore"}
      /\ loc'[r] = loc[r]
  BY <1>1, StepLands DEF StartAdapter
<1>3. \/ pc'[r] = "stopCore" /\ UNCHANGED <<adapters, adapter>>
      \/ /\ pc'[r] = "saveAdapter" /\ adapters' = r /\ adapter'[r] = "running"
         /\ \A q \in Requests \ {r} : adapter'[q] = adapter[q]
  BY <1>1 DEF StartAdapter, TypeOK, Step, Goto
<1>4. adapter[r] = "none" /\ CoreKnown(r) /\ op[r] = "tun"
  BY <1>1, <1>2 DEF HandlerKind, UndoneInv, UndoneOK, AdapterKnown
<1>5. UndoneOK(r)'
  BY <1>1, <1>2, <1>3, <1>4 DEF UndoneOK, CoreKnown, RecordKnown, AdapterKnown, Settled
<1>6. Aside(r, r)
  BY <1>1, <1>2, <1>3 DEF Aside, Owned
<1> QED
  BY <1>5, <1>6, UndoneFramed

LEMMA UndoneSaveAdapterMetadata ==
  ASSUME Inv, RecordInv, UndoneInv, NEW r \in Requests, SaveAdapterMetadata(r) PROVE UndoneInv'
<1>1. /\ TypeOK /\ HandlerKind(r) /\ pc[r] = "saveAdapter"
      /\ UNCHANGED <<op, net, loc, core, adapters, adapter>>
  BY DEF SaveAdapterMetadata, Step, Inv, procVars
<1>2. Moved(r) /\ pc'[r] \in {"verifyNet", "stopAdapter"} /\ loc'[r] = loc[r]
  BY <1>1, StepLands DEF SaveAdapterMetadata
<1>3. \A q \in Requests \ {r} : tx'[q] = tx[q]
  BY <1>1, SavedOne DEF SaveAdapterMetadata, TypeOK
<1>4. AdapterKnown(r) /\ CoreKnown(r) /\ op[r] = "tun"
  BY <1>1 DEF HandlerKind, UndoneInv, UndoneOK
<1>5. UndoneOK(r)'
  BY <1>1, <1>2, <1>4, ManagerAssumption
     DEF UndoneOK, CoreKnown, RecordKnown, AdapterKnown, OtherAdapter, Settled
<1> QED
  BY <1>1, <1>2, <1>3, <1>5, UndonePlain DEF Owned

LEMMA UndoneVerifyConnectivity ==
  ASSUME Inv, RecordInv, UndoneInv, NEW r \in Requests, VerifyConnectivity(r) PROVE UndoneInv'
<1>1. /\ TypeOK /\ HandlerKind(r) /\ UNCHANGED <<tx, op, net, loc, core, adapters, adapter>>
  BY DEF VerifyConnectivity, Inv, procVars
<1>2. /\ Moved(r) /\ pc[r] = "verifyNet" /\ pc'[r] \in {"commit", "stopAdapter"}
      /\ loc'[r] = loc[r]
  BY <1>1, StepLands DEF VerifyConnectivity
<1>4. AdapterKnown(r) /\ CoreKnown(r) /\ op[r] = "tun"
  BY <1>1, <1>2 DEF HandlerKind, UndoneInv, UndoneOK
<1>5. UndoneOK(r)'
  BY <1>1, <1>2, <1>4, ManagerAssumption
     DEF UndoneOK, CoreKnown, RecordKnown, AdapterKnown, OtherAdapter, Settled
<1> QED
  BY <1>1, <1>2, <1>5, UndonePlain DEF Owned

LEMMA UndoneCommitActiveState ==
  ASSUME Inv, RecordInv, UndoneInv, NEW r \in Requests, CommitActiveState(r) PROVE UndoneInv'
<1>1. /\ TypeOK /\ HandlerKind(r) /\ RegisteredCore /\ pc[r] = "commit"
      /\ UNCHANGED <<op, net, core, adapters, adapter>>
  BY DEF CommitActiveState, Return, Step, Inv, procVars
<1>2. AdapterKnown(r) /\ CoreKnown(r) /\ op[r] = "tun"
  BY <1>1 DEF HandlerKind, UndoneInv, UndoneOK
<1>3. \A q \in Requests \ {r} : tx'[q] = tx[q]
  BY <1>1, SavedOne DEF CommitActiveState, TypeOK
<1>4. CASE Return(r, "commit", "ok")
  <2>1. Moved(r) /\ pc'[r] = "ok"
    BY <1>1, <1>4, ReturnLands
  <2>2. UndoneOK(r)'
    BY <1>1, <2>1 DEF UndoneOK, CoreKnown, RecordKnown, AdapterKnown, Settled
  <2> QED
    BY <1>1, <1>3, <2>1, <2>2, UndonePlain DEF Owned
<1>5. CASE /\ Step(r, "commit", "stopAdapter")
           /\ UNCHANGED loc \/ (loc' = [loc EXCEPT ![r].core = None] /\ cmd # r)
  <2>1. Moved(r) /\ pc'[r] = "stopAdapter"
    BY <1>1, <1>5, StepLands
  <2>2. loc[r].core = r /\ core[r] # "none" /\ r # None
    BY <1>1, <1>2, ManagerAssumption DEF CoreKnown
  <2>3. loc'[r].core = r \/ (loc'[r].core = None /\ core[r] = "reaped")
    <3>1. CASE UNCHANGED loc
      BY <2>2, <3>1
    <3>2. CASE loc' = [loc EXCEPT ![r].core = None] /\ cmd # r
      <4>1. core[r] = "reaped"
        BY <1>1, <2>2, <3>2 DEF RegisteredCore, TypeOK, Processes
      <4> QED
        BY <1>1, <3>2, <4>1 DEF TypeOK, Local
    <3> QED
      BY <1>5, <3>1, <3>2
  <2>4. UndoneOK(r)'
    BY <1>1, <1>2, <2>1, <2>2, <2>3
       DEF UndoneOK, CoreKnown, RecordKnown, AdapterKnown, OtherAdapter, Settled
  <2> QED
    BY <1>1, <1>3, <2>1, <2>4, UndonePlain DEF Owned
<1>6. \/ Return(r, "commit", "ok")
      \/ /\ Step(r, "commit", "stopAdapter")
         /\ UNCHANGED loc \/ (loc' = [loc EXCEPT ![r].core = None] /\ cmd # r)
  BY DEF CommitActiveState
<1> QED
  BY <1>4, <1>5, <1>6

LEMMA UndoneStopAdapter ==
  ASSUME ~StopsMayFail, Inv, RecordInv, UndoneInv, NEW r \in Requests, StopAdapter(r) PROVE UndoneInv'
<1>1. TypeOK /\ HandlerKind(r) /\ UNCHANGED <<tx, net, op, core>>
  BY DEF StopAdapter, Inv
<1>2. /\ \A q \in Requests : adapter[q] # "none" => adapter'[q] # "none"
      /\ \A q \in Requests : adapter[q] = "none" => adapter'[q] = "none"
      /\ \A q \in Requests : adapter'[q] = "running" => adapter[q] = "running" /\ adapters # q
  BY <1>1 DEF StopAdapter, TypeOK
<1>3. \/ op[r] = "tun" /\ loc[r].core = None /\ RollbackPlan(r, "stopAdapter")
      \/ op[r] = "tun" /\ loc[r].core # None /\ Step(r, "stopAdapter", "stopCore") /\ UNCHANGED loc
      \/ op[r] # "tun" /\ Step(r, "stopAdapter", "rbLoad") /\ UNCHANGED loc
  BY DEF StopAdapter
<1>4. /\ Moved(r) /\ pc[r] = "stopAdapter"
      /\ \/ op[r] = "tun" /\ loc[r].core = None /\ pc'[r] = "rbLoad"
         \/ op[r] = "tun" /\ loc[r].core # None /\ pc'[r] = "stopCore" /\ loc'[r] = loc[r]
         \/ op[r] # "tun" /\ pc'[r] = "rbLoad"
  BY <1>1, <1>3, StepLands, PlanLands
<1>5. UndoneOK(r)'
  <2>1. CoreKnown(r) /\ AdapterKnown(r)
    BY DEF UndoneInv, UndoneOK
  <2>2. OtherAdapter(r) => OtherAdapter(r)'
    BY <1>2 DEF OtherAdapter
  <2> QED
    BY <1>1, <1>2, <1>4, <2>1, <2>2 DEF UndoneOK, CoreKnown, RecordKnown, AdapterKnown, Settled
<1>6. Aside(r, r)
  BY <1>1, <1>2, <1>4 DEF Aside, Owned
<1> QED
  BY <1>5, <1>6, UndoneFramed

LEMMA UndoneStopCore ==
  ASSUME ~StopsMayFail, Inv, RecordInv, UndoneInv, NEW r \in Requests, StopCore(r) PROVE UndoneInv'
<1>1. TypeOK /\ HandlerKind(r) /\ UNCHANGED <<tx, net, op, core, adapters, adapter>>
  BY DEF StopCore, Inv
<1>2. Step(r, "stopCore", "waitCore") /\ UNCHANGED loc
  BY DEF StopCore
<1>3. Moved(r) /\ pc[r] = "stopCore" /\ pc'[r] = "waitCore" /\ loc'[r] = loc[r]
  BY <1>1, <1>2, StepLands
<1>4. CoreKnown(r) /\ AdapterKnown(r) /\ op[r] = "tun"
  BY <1>1, <1>3 DEF HandlerKind, UndoneInv, UndoneOK
<1>5. UndoneOK(r)'
  BY <1>1, <1>3, <1>4 DEF UndoneOK, CoreKnown, RecordKnown, AdapterKnown, OtherAdapter, Settled
<1> QED
  BY <1>1, <1>3, <1>5, UndonePlain DEF Owned

LEMMA UndoneWaitCore ==
  ASSUME Inv, RecordInv, UndoneInv, NEW r \in Requests, WaitCore(r) PROVE UndoneInv'
<1>1. /\ TypeOK /\ HandlerKind(r) /\ pc[r] = "waitCore" /\ core[loc[r].core] = "reaped"
      /\ UNCHANGED <<tx, net, op, core, adapters, adapter>>
  BY DEF WaitCore, Inv, mgrVars, procVars
<1>2. CASE op[r] = "tun"
  <2>1. Moved(r) /\ pc'[r] = "rbLoad"
    BY <1>1, <1>2, PlanLands DEF WaitCore
  <2>2. CoreKnown(r) /\ AdapterKnown(r)
    BY DEF UndoneInv, UndoneOK
  <2>3. UndoneOK(r)'
    BY <1>1, <1>2, <2>1, <2>2 DEF UndoneOK, CoreKnown, RecordKnown, AdapterKnown, OtherAdapter, Settled
  <2> QED
    BY <1>1, <2>1, <2>3, UndonePlain DEF Owned
<1>3. CASE op[r] = "disconnect"
  <2>1. Moved(r) /\ pc'[r] \in {"stopAdapter", "ok"}
    <3>1. CASE Return(r, "waitCore", "ok")
      BY <1>1, <3>1, ReturnLands
    <3>2. CASE Goto(r, "stopAdapter") /\ loc' = [loc EXCEPT ![r].core = None]
      BY <1>1, <3>2 DEF TypeOK, Goto, Moved
    <3> QED
      BY <1>3, <3>1, <3>2 DEF WaitCore
  <2>2. UndoneOK(r)'
    BY <1>1, <1>3, <2>1 DEF UndoneOK, CoreKnown, RecordKnown, AdapterKnown, Settled
  <2> QED
    BY <1>1, <2>1, <2>2, UndonePlain DEF Owned
<1> QED
  BY <1>1, <1>2, <1>3 DEF HandlerKind

LEMMA UndoneLoadTx ==
  ASSUME Inv, RecordInv, UndoneInv, NEW r \in Requests, LoadTx(r) PROVE UndoneInv'
<1>1. /\ TypeOK /\ HandlerKind(r) /\ UndoTarget(r) /\ pc[r] = "rbLoad"
      /\ UNCHANGED <<tx, net, op, core, adapters, adapter>>
  BY DEF LoadTx, Return, Step, Inv, mgrVars, procVars
<1>2. op[r] \in {"tun", "disconnect"}
  BY <1>1 DEF HandlerKind
<1>3. loc[r].tx \in Requests
  BY <1>1, <1>2 DEF UndoTarget, Established
<1>4. /\ Moved(r)
      /\ \/ pc'[r] = "failed"
         \/ pc'[r] = "rbSave" /\ loc'[r].copy = tx[loc[r].tx]
  <2>1. CASE Return(r, "rbLoad", "failed")
    BY <1>1, <2>1, ReturnLands
  <2>2. CASE /\ Goto(r, "rbSave")
             /\ loc' = [loc EXCEPT ![r].copy = tx[loc[r].tx],
                   ![r].plan = IF op[r] = "tun" THEN loc[r].plan ELSE tx[loc[r].tx].rollback]
    BY <1>1, <1>3, <2>2 DEF TypeOK, Local, Goto, Moved
  <2> QED
    BY <2>1, <2>2 DEF LoadTx
<1>5. CoreKnown(r) /\ AdapterKnown(r)
  BY DEF UndoneInv, UndoneOK
<1>6. op[r] = "tun" => loc[r].tx = r /\ tx[r].state \in {"verifying", "committed"}
  BY <1>1 DEF UndoTarget, RecordInv, RecordStage, Reported
<1>7. UndoneOK(r)'
  BY <1>1, <1>2, <1>4, <1>5, <1>6
     DEF UndoneOK, CoreKnown, RecordKnown, AdapterKnown, OtherAdapter, Settled
<1> QED
  BY <1>1, <1>4, <1>7, UndonePlain DEF Owned

LEMMA UndoneRemoveConfig ==
  ASSUME Inv, UndoneInv, NEW r \in Requests, RemoveConfig(r) \/ SetInactive(r) PROVE UndoneInv'
<1>1. /\ TypeOK /\ HandlerKind(r) /\ UNCHANGED <<tx, net, op, core, adapters, adapter>>
  BY DEF RemoveConfig, SetInactive, Inv, mgrVars, procVars
<1>2. Moved(r) /\ pc[r] \in {"rmConfig", "setInactive"} /\ pc'[r] = "ok"
  BY <1>1, ReturnLands DEF RemoveConfig, SetInactive
<1>3. UndoneOK(r)'
  BY <1>1, <1>2 DEF HandlerKind, UndoneOK, CoreKnown, RecordKnown, AdapterKnown, Settled
<1> QED
  BY <1>1, <1>2, <1>3, UndonePlain DEF Owned

LEMMA UndoneRemoveTxFile ==
  ASSUME Inv, UndoneInv, NEW r \in Requests, RemoveTxFile(r) PROVE UndoneInv'
<1>1. /\ TypeOK /\ HandlerKind(r) /\ UndoTarget(r)
      /\ UNCHANGED <<net, op, core, adapters, adapter>>
  BY DEF RemoveTxFile, Inv, mgrVars, procVars
<1>2. Moved(r) /\ pc[r] = "rmFile" /\ pc'[r] \in {"setInactive", "failed"}
  BY <1>1, StepLands, ReturnLands DEF RemoveTxFile
<1>3. PICK t \in Requests : t = loc[r].tx /\ Established(t) /\ op[r] = "disconnect"
  BY <1>1, <1>2 DEF HandlerKind, UndoTarget, Established
<1>4. UndoneOK(r)'
  BY <1>1, <1>2, <1>3 DEF UndoneOK, CoreKnown, RecordKnown, AdapterKnown, Settled
<1>5. Aside(r, t)
  BY <1>1, <1>2, <1>3 DEF Aside, Owned, RemoveTxFile, TypeOK
<1> QED
  BY <1>3, <1>4, <1>5, UndoneFramed

LEMMA UndoneProcesses ==
  ASSUME Inv, UndoneInv, NEW c \in Requests, CoreExit(c) \/ WaitForExit(c) \/ AdapterExit(c)
  PROVE  UndoneInv'
<1>1. TypeOK /\ UNCHANGED <<tx, net, op, pc, loc, adapters>>
  BY DEF Inv, CoreExit, WaitForExit, AdapterExit
<1>2. ASSUME NEW r \in Requests
      PROVE  /\ \/ core'[r] = core[r]
                \/ core[r] = "running" /\ core'[r] = "exited"
                \/ core[r] = "exited" /\ core'[r] = "reaped"
             /\ adapter[r] = "none" <=> adapter'[r] = "none"
             /\ adapter'[r] = "running" => adapter[r] = "running"
  BY <1>1 DEF CoreExit, WaitForExit, AdapterExit, TypeOK
<1>3. ASSUME NEW r \in Requests, OtherAdapter(r) PROVE OtherAdapter(r)'
  BY <1>2, <1>3 DEF OtherAdapter
<1>4. ASSUME NEW r \in Requests PROVE UndoneOK(r)'
  <2>1. CoreKnown(r) /\ RecordKnown(r) /\ AdapterKnown(r) /\ Settled(r)
    BY DEF UndoneInv, UndoneOK
  <2> QED
    BY <1>1, <1>2, <1>3, <2>1 DEF UndoneOK, CoreKnown, RecordKnown, AdapterKnown, Settled, Owned
<1> QED
  BY <1>4 DEF UndoneInv

LEMMA UndoneBeginRollback ==
  ASSUME ~StopsMayFail, Inv, RecordInv, UndoneInv, NEW r \in Requests, BeginRollback(r)
  PROVE  UndoneInv'
<1> DEFINE copy == loc[r].copy
           Copy(state) == [copy EXCEPT !.state = state]
<1>1. /\ TypeOK /\ HandlerKind(r) /\ UndoTarget(r) /\ pc[r] = "rbSave"
      /\ UNCHANGED <<op, net, core, adapters>>
  BY DEF BeginRollback, Inv, mgrVars
<1>2. op[r] \in {"tun", "disconnect"} /\ loc[r] \in Local /\ copy \in TxRecord
  BY <1>1 DEF HandlerKind, TypeOK, Local
<1>3. PICK t \in Requests : /\ t = loc[r].tx
                            /\ op[r] = "tun" => t = r
                            /\ op[r] = "disconnect" => Established(t) /\ t # r
  BY <1>1, <1>2 DEF UndoTarget, Established
<1>4. \A state \in {"rolling_back", "failed"} :
        Copy(state).state = state /\ Copy(state).children = copy.children
  BY <1>2 DEF TxRecord
<1>5. /\ \A q \in Requests \ {t} : adapter'[q] = adapter[q]
      /\ adapter'[t] \in {adapter[t], "exited"}
      /\ adapter[t] = "none" <=> adapter'[t] = "none"
      /\ adapter'[t] = "running" => adapter[t] = "running"
      /\ copy.state # "rolled_back" /\ pc'[r] = "rbExec" /\ adapter'[t] = "running" => "adapter" \notin copy.children
  <2> HIDE DEF Copy, copy
  <2>1. \/ UNCHANGED adapter /\ pc'[r] # "rbExec"
        \/ adapter' = IF "adapter" \in copy.children /\ adapter[t] = "running"
                      THEN [adapter EXCEPT ![t] = "exited"] ELSE adapter
    BY <1>1, <1>3 DEF BeginRollback, RolledBack, Return, Step, Goto, TypeOK, copy
  <2> QED
    BY <1>1, <2>1 DEF TypeOK
<1>6. /\ Moved(r)
      /\ \/ pc'[r] \in {"failed", "rmFile"}
         \/ /\ pc'[r] = "rbExec" /\ copy.state # "rolled_back"
            /\ loc'[r].copy.children = copy.children
  <2>1. CASE RolledBack(r, "rbSave")
    <3>1. CASE op[r] = "tun"
      BY <1>1, <2>1, <3>1, ReturnLands DEF RolledBack
    <3>2. CASE op[r] # "tun"
      BY <1>1, <2>1, <3>2 DEF RolledBack, Step, Goto, TypeOK, Moved
    <3> QED
      BY <3>1, <3>2
  <2>2. CASE Return(r, "rbSave", "failed")
    BY <1>1, <2>2, ReturnLands
  <2>3. CASE /\ Goto(r, "rbExec") /\ loc' = [loc EXCEPT ![r].copy.state = "rolling_back"]
             /\ copy.state # "rolled_back"
    BY <1>1, <1>2, <2>3 DEF Goto, TypeOK, Local, TxRecord, Moved
  <2> QED
    BY <2>1, <2>2, <2>3 DEF BeginRollback
<1>7. /\ \A q \in Requests \ {t} : tx'[q] = tx[q]
      /\ copy.state \notin {"rolled_back", "rolling_back"} =>
           \/ pc'[r] = "rbExec" /\ tx'[t] = Copy("rolling_back")
           \/ pc'[r] = "failed" /\ tx'[t] \in {tx[t], copy, Copy("rolling_back"), Copy("failed")}
  <2>1. CASE UNCHANGED tx /\ copy.state \in {"rolled_back", "rolling_back"}
    BY <2>1
  <2>2. CASE Goto(r, "rbExec") /\ tx' = [tx EXCEPT ![t] = Copy("rolling_back")]
    <3> HIDE DEF Copy, copy
    <3> QED
      BY <1>1, <2>2 DEF Goto, TypeOK
  <2>3. CASE /\ Return(r, "rbSave", "failed")
             /\ MaybeSaved(t, {Copy("rolling_back")} \cup
                              IF loc[r].mark THEN {copy, Copy("failed")} ELSE {})
    <3> HIDE DEF Copy, copy
    <3> QED
      BY <1>1, <2>3, ReturnLands, SavedOne DEF TypeOK
  <2> QED
    BY <1>3, <2>1, <2>2, <2>3 DEF BeginRollback
<1> HIDE DEF Copy, copy
<1>8. UndoneOK(r)'
  <2>1. CASE op[r] = "tun"
    <3>1. /\ core[r] \in {"none", "reaped"} /\ tx[r].state \notin {"absent", "rolled_back"}
          /\ copy.state \in {"applying", "verifying", "committed"}
          /\ adapter[r] = "running" => OtherAdapter(r)
      BY <1>1, <2>1 DEF UndoneInv, UndoneOK, CoreKnown, RecordKnown, AdapterKnown, copy
    <3>2. OtherAdapter(r) => OtherAdapter(r)'
      BY <1>3, <1>5, <2>1 DEF OtherAdapter
    <3>3. CASE pc'[r] = "rbExec"
      BY <1>1, <1>3, <1>4, <1>5, <1>6, <1>7, <2>1, <3>1, <3>2, <3>3
         DEF UndoneOK, CoreKnown, RecordKnown, AdapterKnown, Settled
    <3>4. CASE pc'[r] = "failed"
      <4>1. tx'[r].state \notin {"absent", "rolled_back"}
        BY <1>3, <1>4, <1>7, <2>1, <3>1, <3>4
      <4> QED
        BY <1>1, <2>1, <3>1, <3>4, <4>1 DEF UndoneOK, CoreKnown, RecordKnown, AdapterKnown, Settled
    <3> QED
      BY <1>7, <3>1, <3>3, <3>4
  <2>2. CASE op[r] = "disconnect"
    BY <1>1, <1>6, <2>2 DEF UndoneOK, CoreKnown, RecordKnown, AdapterKnown, Settled
  <2> QED
    BY <1>2, <2>1, <2>2
<1>9. Aside(r, t)
  BY <1>1, <1>5, <1>6, <1>7 DEF Aside, Owned
<1> QED
  BY <1>2, <1>3, <1>8, <1>9, UndoneFramed

LEMMA UndoneExecuteRollback ==
  ASSUME ~HalfSteps, Inv, RecordInv, RecordInv', UndoneInv, NEW r \in Requests, ExecuteRollback(r)
  PROVE  UndoneInv'
<1> DEFINE Copy(state) == [loc[r].copy EXCEPT !.state = state]
<1>1. /\ TypeOK /\ HandlerKind(r) /\ UndoTarget(r) /\ pc[r] = "rbExec"
      /\ UNCHANGED <<op, core, adapters, adapter>>
  BY DEF ExecuteRollback, Inv, procVars
<1>2. op[r] \in {"tun", "disconnect"} /\ loc[r].copy \in TxRecord
  BY <1>1 DEF HandlerKind, TypeOK, Local
<1>3. PICK t \in Requests : /\ t = loc[r].tx
                            /\ op[r] = "tun" => t = r
                            /\ op[r] = "disconnect" => Established(t) /\ t # r
  BY <1>1, <1>2 DEF UndoTarget, Established
<1>4. \A state \in {"rolled_back", "failed"} :
        Copy(state).state = state /\ Copy(state).children = loc[r].copy.children
  BY <1>2 DEF TxRecord
<1>5. Moved(r) /\ pc'[r] \in {"failed", "rmFile"} /\ (op[r] = "tun" => pc'[r] = "failed")
  <2>1. CASE RolledBack(r, "rbExec")
    <3>1. CASE op[r] = "tun"
      BY <1>1, <2>1, <3>1, ReturnLands DEF RolledBack
    <3>2. CASE op[r] # "tun"
      BY <1>1, <2>1, <3>2 DEF RolledBack, Step, Goto, TypeOK, Moved
    <3> QED
      BY <3>1, <3>2
  <2>2. CASE Return(r, "rbExec", "failed")
    BY <1>1, <2>2, ReturnLands
  <2> QED
    BY <2>1, <2>2 DEF ExecuteRollback
<1>6. \/ tx' = [tx EXCEPT ![t] = Copy("rolled_back")] \/ MaybeSaved(t, {Copy("rolled_back")})
      \/ MaybeSaved(t, IF loc[r].mark THEN {Copy("failed")} ELSE {})
  BY <1>3 DEF ExecuteRollback
<1> HIDE DEF Copy
<1>7. /\ \A q \in Requests \ {t} : tx'[q] = tx[q]
      /\ tx'[t] \in {tx[t], Copy("rolled_back"), Copy("failed")}
  BY <1>1, <1>6, SavedOne DEF TypeOK
<1>8. \A q \in Requests : Owned(q)' \subseteq Owned(q)
  <2>1. \E gone : Remove(gone)
    BY DEF ExecuteRollback
  <2> QED
    BY <2>1, ManagerAssumption DEF Owned, Remove
<1>9. UndoneOK(r)'
  <2>1. CASE op[r] = "tun"
    <3>1. /\ core[r] \in {"none", "reaped"} /\ tx[r].state = "rolling_back"
          /\ adapter[r] = "running" => OtherAdapter(r) /\ "adapter" \notin loc[r].copy.children
      BY <1>1, <2>1 DEF UndoneInv, UndoneOK, CoreKnown, RecordKnown, AdapterKnown
    <3>2. tx'[r].state = "rolled_back" => Owned(r)' = {}
      BY DEF RecordInv, RecordTruth
    <3>3. tx'[r].state \in {"absent", "rolled_back"} =>
            tx'[r].state = "rolled_back" /\ tx'[r].children = loc[r].copy.children
      BY <1>3, <1>4, <1>7, <2>1, <3>1
    <3>4. OtherAdapter(r)' = OtherAdapter(r)
      BY <1>1 DEF OtherAdapter
    <3> QED
      BY <1>1, <1>5, <2>1, <3>1, <3>2, <3>3, <3>4
         DEF UndoneOK, CoreKnown, RecordKnown, AdapterKnown, Settled
  <2>2. CASE op[r] = "disconnect"
    BY <1>1, <1>5, <2>2 DEF UndoneOK, CoreKnown, RecordKnown, AdapterKnown, Settled
  <2> QED
    BY <1>2, <2>1, <2>2
<1>10. Aside(r, t)
  BY <1>1, <1>5, <1>7, <1>8 DEF Aside
<1> QED
  BY <1>2, <1>3, <1>9, <1>10, UndoneFramed

LEMMA UndoneInit == Init => UndoneInv
BY DEF Init, UndoneInv, UndoneOK, CoreKnown, RecordKnown, AdapterKnown, Settled, NoTx

LEMMA UndoneNext ==
  ASSUME ~HalfSteps, ~StopsMayFail, Inv, RecordInv, UndoneInv, [Next]_vars PROVE UndoneInv'
<1>1. RecordInv'
  BY RecNext
<1>2. ASSUME NEW r \in Requests, Continue(r) PROVE UndoneInv'
  BY <1>1, <1>2, UndoneCreateTx, UndoneApplyPlan, UndoneRecordAndVerify, UndoneStartCore,
     UndoneSaveCoreMetadata, UndoneVerifyCoreStarted, UndoneStartAdapter,
     UndoneSaveAdapterMetadata, UndoneVerifyConnectivity, UndoneCommitActiveState,
     UndoneStopAdapter, UndoneStopCore, UndoneWaitCore, UndoneLoadTx, UndoneBeginRollback,
     UndoneExecuteRollback, UndoneRemoveConfig, UndoneRemoveTxFile DEF Continue
<1>3. ASSUME NEW r \in Requests, ConnectProxyOnly(r) \/ ConnectTun(r) \/ Disconnect(r)
      PROVE  UndoneInv'
  BY <1>3, UndoneConnectProxyOnly, UndoneConnectTun, UndoneDisconnect
<1>4. ASSUME NEW r \in Requests, CoreExit(r) \/ WaitForExit(r) \/ AdapterExit(r)
      PROVE  UndoneInv'
  BY <1>4, UndoneProcesses
<1>5. CASE UNCHANGED vars
  BY <1>5 DEF vars, UndoneInv, UndoneOK, CoreKnown, RecordKnown, AdapterKnown, OtherAdapter,
              Settled, Owned
<1> QED
  BY <1>2, <1>3, <1>4, <1>5 DEF Next, AllServed

\* A TUN connect that fails and reports its rollback complete has left no core
\* and none of its routes, rules and tables, however it raced with other calls;
\* its adapter only when its pid could not be saved and another connect took
\* the handle (runTunTransaction, stopRegisteredTunAdapter).  The proviso: what
\* fails fails at its first command, and Xray and tun2socks can be stopped.
THEOREM FailedConnectsAreUndone ==
  ASSUME ~HalfSteps, ~StopsMayFail PROVE Spec => []FailedConnectIsUndone
<1>1. Inv /\ RecordInv /\ UndoneInv /\ [Next]_vars => UndoneInv'
  BY UndoneNext
<1>2. UndoneInv => FailedConnectIsUndone
  BY DEF UndoneInv, UndoneOK, CoreKnown, Settled, Owned, FailedConnectIsUndone
<1> QED
  BY <1>1, <1>2, UndoneInit, Invariance, RecordInvariance, PTL DEF Spec

-----------------------------------------------------------------------------
(* Calls that come one at a time, with commands that work and processes    *)
(* that live.  SerialInv says what the manager, the host and the records   *)
(* are between calls (AtRest), and at each stage of the call that is being *)
(* served (Serves): a connect builds up what a disconnect takes down.      *)

Serving(r) == pc[r] \notin {"idle", "ok", "failed"}

\* Nothing of t is left, nothing of any transaction but t, nothing at all.
Free(t) == tx[t].state # "committed" /\ adapter[t] # "running" /\ Owned(t) = {}
Only(t) == \A q \in Requests \ {t} : Free(q)
Down    == \A t \in Requests : Free(t)

\* The connection t is set up; its adapter can be stopped.
Up(t) == /\ tx[t].state = "committed" /\ Only(t)
         /\ adapter[t] = "running" => adapters = t

\* No core and no config; a core that nobody has told to stop, with its config.
Gone    == connection = Inactive /\ cmd = None /\ ~stopping /\ config = None
Live(c) == cmd = c /\ core[c] = "running" /\ c \notin signalled /\ ~stopping /\ config = c

Connected(mode, t) == connection = [status |-> "active", mode |-> mode, tx |-> t, path |-> TRUE]

AtRest ==
  \/ Gone /\ Down
  \/ \E c \in Requests : Live(c) /\ \/ Connected("proxy-only", None) /\ Down
                                    \/ Connected("tun", c) /\ Up(c)

Connects(r) ==
  /\ pc[r] \in {"create", "apply"} => Gone /\ Down
  /\ pc[r] = "apply" => loc[r].plan = NetResources
  /\ pc[r] \in {"record", "startCore"} => Gone /\ Missing = {} /\ Only(r)
  /\ pc[r] \in {"saveCore", "verifyCore", "startAdapter", "saveAdapter", "verifyNet", "commit"} =>
       Live(r) /\ connection = Inactive /\ Missing = {} /\ Only(r)
  /\ pc[r] \in {"saveAdapter", "verifyNet", "commit"} => adapter[r] = "running" /\ adapters = r
  /\ pc[r] \notin {"stopAdapter", "stopCore", "waitCore", "rbLoad", "rbSave", "rbExec"}

Disconnects(r) ==
  LET t == loc[r].tx
  IN /\ pc[r] = "waitCore" =>
          /\ Gone \/ (cmd = loc[r].core /\ stopping)
          /\ IF loc[r].mode = "tun" THEN Up(t) ELSE Down
     /\ pc[r] # "waitCore" => Gone
     /\ pc[r] = "stopAdapter" => Up(t)
     /\ pc[r] \in {"rbLoad", "rbSave", "rbExec"} => Only(t) /\ adapter[t] # "running"
     /\ pc[r] = "rbLoad" => tx[t].state = "committed"
     /\ pc[r] = "rbSave" => loc[r].copy.state = "committed"
     /\ pc[r] = "rbExec" => tx[t].state = "rolling_back"
     /\ pc[r] \in {"rmConfig", "rmFile", "setInactive"} => Down

Serves(r) == IF op[r] = "tun" THEN Connects(r) ELSE Disconnects(r)

SerialInv ==
  /\ \A r, q \in Requests : Serving(r) /\ Serving(q) => r = q
  /\ Quiescent => AtRest
  /\ \A r \in Requests : Serving(r) => Serves(r)

Reliable == ~Concurrent /\ ~ProcessesMayExit /\ ~StepsMayFail /\ ~StopsMayFail /\ ~HalfSteps

\* A step of the call that is served, or that begins now: what is left to show
\* is the stage the call is at then, or the rest it returns to.
LEMMA SerialFramed ==
  ASSUME SerialInv, NEW r \in Requests, Serving(r) \/ Quiescent,
         \A q \in Requests \ {r} : pc'[q] = pc[q],
         Serving(r)' => Serves(r)', ~Serving(r)' => AtRest'
  PROVE  SerialInv'
<1>1. \A q \in Requests \ {r} : ~Serving(q)'
  BY DEF SerialInv, Serving, Quiescent, Returned
<1>2. Quiescent' => ~Serving(r)'
  BY DEF Quiescent, Serving, Returned
<1> QED
  BY <1>1, <1>2 DEF SerialInv

LEMMA SameHost ==
  ASSUME NEW t, UNCHANGED <<tx, adapter, net>>
  PROVE  /\ Only(t)' <=> Only(t)
         /\ Down' <=> Down
         /\ Missing' = Missing
BY DEF Only, Down, Free, Owned, Missing

LEMMA SameUp ==
  ASSUME NEW t, UNCHANGED <<tx, adapters, adapter, net>> PROVE Up(t)' <=> Up(t)
BY DEF Up, Only, Free, Owned

\* A connect that is served is at its stage, and so is a disconnect.
LEMMA ServedConnect ==
  ASSUME Inv, SerialInv, NEW r \in Requests,
         pc[r] \in {"create", "apply", "record", "startCore", "saveCore", "verifyCore",
                    "startAdapter", "saveAdapter", "verifyNet", "commit", "stopCore"}
  PROVE  Serving(r) /\ op[r] = "tun" /\ Connects(r)
BY DEF Inv, HandlerKind, SerialInv, Serving, Serves

LEMMA ServedDisconnect ==
  ASSUME Inv, SerialInv, NEW r \in Requests,
         pc[r] \in {"stopAdapter", "waitCore", "rbLoad", "rbSave", "rbExec", "rmConfig",
                    "rmFile", "setInactive"}
  PROVE  Serving(r) /\ op[r] = "disconnect" /\ Disconnects(r)
BY DEF Inv, HandlerKind, SerialInv, Serving, Serves, Connects

\* A call is only made between calls.
LEMMA SerialCall ==
  ASSUME Reliable, TypeOK, NEW r \in Requests, NEW name, NEW to, Call(r, name, to)
  PROVE  /\ Quiescent /\ pc[r] = "idle" /\ pc'[r] = to /\ op'[r] = name
         /\ \A q \in Requests \ {r} : pc'[q] = pc[q]
BY DEF Reliable, TypeOK, Call, Step, Goto

\* Between calls the manager is busy exactly while a core is registered.
LEMMA RestBusy ==
  ASSUME Inv, AtRest
  PROVE  /\ Busy <=> cmd # None
         /\ cmd = None => Gone /\ Down
BY ManagerAssumption DEF AtRest, Busy, Gone, Live, Inactive

LEMMA SameRest ==
  ASSUME AtRest, UNCHANGED <<mgrVars, procVars, config, tx, net>> PROVE AtRest'
BY DEF AtRest, Gone, Live, Connected, Down, Up, Only, Free, Owned, mgrVars, procVars

LEMMA FreshCore ==
  ASSUME Inv, StopIsFlagged, NEW r \in Requests, pc[r] \in {"idle", "startCore"}, StartXray(r),
         UNCHANGED signalled
  PROVE  Live(r)'
BY DEF Inv, TypeOK, StartsOnce, StopIsFlagged, StartXray, Live

LEMMA SerialConnectProxyOnly ==
  ASSUME Reliable, Inv, StopIsFlagged, SerialInv, NEW r \in Requests, ConnectProxyOnly(r)
  PROVE  SerialInv'
<1>1. /\ Quiescent /\ pc[r] = "idle" /\ pc'[r] \in {"ok", "failed"}
      /\ \A q \in Requests \ {r} : pc'[q] = pc[q]
  BY SerialCall DEF ConnectProxyOnly, Inv
<1>2. AtRest /\ UNCHANGED <<signalled, adapters, adapter, tx, net>>
  BY <1>1 DEF SerialInv, ConnectProxyOnly
<1>3. AtRest'
  <2>1. CASE UNCHANGED <<cmd, stopping, connection, core, config>>
    BY <1>2, <2>1, SameRest DEF mgrVars, procVars
  <2>2. CASE /\ ~Busy /\ StartXray(r)
             /\ connection' = [status |-> "active", mode |-> "proxy-only", tx |-> None, path |-> TRUE]
    <3>1. Live(r)' /\ Connected("proxy-only", None)'
      BY <1>1, <1>2, <2>2, FreshCore DEF Connected
    <3>2. Down'
      BY <1>2, <2>2, RestBusy, SameHost
    <3> QED
      BY <3>1, <3>2 DEF AtRest
  <2> QED
    BY <2>1, <2>2 DEF ConnectProxyOnly, StartXrayFails, Reliable
<1> QED
  BY <1>1, <1>3, SerialFramed DEF Serving

LEMMA SerialConnectTun ==
  ASSUME Reliable, Inv, SerialInv, NEW r \in Requests, ConnectTun(r) PROVE SerialInv'
<1>1. /\ Quiescent /\ pc[r] = "idle" /\ op'[r] = "tun"
      /\ pc'[r] = IF Busy THEN "failed" ELSE "create"
      /\ \A q \in Requests \ {r} : pc'[q] = pc[q]
  BY SerialCall DEF ConnectTun, Inv
<1>2. AtRest /\ UNCHANGED <<mgrVars, procVars, config, tx, net, loc>>
  BY <1>1 DEF SerialInv, ConnectTun
<1>3. AtRest'
  BY <1>2, SameRest
<1>4. ~Busy => Gone' /\ Down'
  BY <1>2, RestBusy, SameHost DEF Gone, mgrVars, procVars
<1>5. ~Busy => Serves(r)'
  BY <1>1, <1>4 DEF Serves, Connects
<1> QED
  BY <1>1, <1>3, <1>5, SerialFramed DEF Serving

LEMMA SerialDisconnect ==
  ASSUME Reliable, Inv, SerialInv, NEW r \in Requests, Disconnect(r) PROVE SerialInv'
<1>1. /\ Quiescent /\ op'[r] = "disconnect" /\ loc' = [loc EXCEPT ![r] = loc'[r]]
      /\ \A q \in Requests \ {r} : pc'[q] = pc[q]
  BY SerialCall DEF Disconnect, Inv, TypeOK
<1>2. AtRest /\ UNCHANGED <<cmd, core, adapters, adapter, config, tx, net>>
  BY <1>1 DEF SerialInv, Disconnect
<1>3. CASE cmd = None
  <2>1. pc'[r] = "rmConfig" /\ connection' = Inactive /\ UNCHANGED <<stopping, signalled>>
    BY <1>3, SerialCall DEF Disconnect, Inv
  <2>2. Gone' /\ Down'
    BY <1>2, <1>3, <2>1, RestBusy, SameHost DEF Gone
  <2>3. Serves(r)'
    BY <1>1, <2>1, <2>2 DEF Serves, Disconnects
  <2> QED
    BY <1>1, <2>1, <2>3, SerialFramed DEF Serving
<1>4. CASE cmd # None
  <2>1. /\ pc'[r] = "waitCore" /\ stopping'
        /\ loc' = [loc EXCEPT ![r] = [NoLocal EXCEPT !.core = cmd, !.mode = connection.mode,
                     !.tx = connection.tx, !.path = connection.path]]
    BY <1>4, SerialCall DEF Disconnect, Inv, Reliable
  <2>2. loc'[r].core = cmd /\ loc'[r].mode = connection.mode /\ loc'[r].tx = connection.tx
    BY <2>1 DEF Inv, TypeOK, NoLocal
  <2>3. IF connection.mode = "tun" THEN Up(connection.tx) ELSE Down
    BY <1>2, <1>4 DEF AtRest, Gone, Connected
  <2>4. \/ loc'[r].mode = "tun" /\ Up(loc[r].tx)'
        \/ loc'[r].mode # "tun" /\ Down'
    BY <1>2, <2>2, <2>3 DEF Up, Down, Only, Free, Owned
  <2>5. Serves(r)'
    BY <1>1, <1>2, <2>1, <2>2, <2>4 DEF Serves, Disconnects
  <2> QED
    BY <1>1, <2>1, <2>5, SerialFramed DEF Serving
<1> QED
  BY <1>3, <1>4

\* The stages of a connect.  Nothing can fail, so none of them turns back.
LEMMA SerialCreateTx ==
  ASSUME Reliable, Inv, SerialInv, NEW r \in Requests, CreateTx(r) PROVE SerialInv'
<1>1. pc[r] = "create" /\ op[r] = "tun" /\ Serving(r) /\ Gone /\ Down
  BY ServedConnect DEF CreateTx, Step, Connects
<1>2. /\ Step(r, "create", "apply")
      /\ tx' = [tx EXCEPT ![r] = [NoTx EXCEPT !.state = "applying"]]
      /\ loc' = [loc EXCEPT ![r].plan = Plannable]
      /\ UNCHANGED <<mgrVars, procVars, config, net, op>>
  BY DEF CreateTx, Reliable
<1>3. Plannable = NetResources
  BY <1>1, ManagerAssumption DEF Inv, TypeOK, Plannable, Down, Free, Owned
<1>4. /\ pc'[r] = "apply" /\ loc'[r].plan = NetResources
      /\ \A q \in Requests \ {r} : pc'[q] = pc[q]
  BY <1>2, <1>3 DEF Step, Goto, Inv, TypeOK, Local
<1>5. Gone' /\ Down'
  BY <1>1, <1>2 DEF Gone, Down, Free, Owned, NoTx, mgrVars, procVars, Inv, TypeOK
<1>6. Serves(r)'
  BY <1>1, <1>2, <1>4, <1>5 DEF Serves, Connects
<1> QED
  BY <1>1, <1>4, <1>6, SerialFramed DEF Serving

LEMMA SerialApplyPlan ==
  ASSUME Reliable, Inv, RecordInv, SerialInv, NEW r \in Requests, ApplyPlan(r)
  PROVE  SerialInv'
<1>1. /\ pc[r] = "apply" /\ op[r] = "tun" /\ Serving(r) /\ Gone /\ Down
      /\ loc[r].plan = NetResources
  BY ServedConnect DEF ApplyPlan, RollbackSteps, Step, Connects
<1>2. Applicable(r) /\ Missing = NetResources
  BY <1>1, ManagerAssumption DEF Inv, TypeOK, Down, Free, Owned, NetResources, Missing
<1>3. /\ Step(r, "apply", "record") /\ Create(r, NetResources)
      /\ UNCHANGED <<mgrVars, procVars, config, tx, op>>
  BY <1>2 DEF ApplyPlan, Reliable, NetResources
<1>4. pc'[r] = "record" /\ \A q \in Requests \ {r} : pc'[q] = pc[q]
  BY <1>3 DEF Step, Goto, Inv, TypeOK
<1>5. Gone' /\ Missing' = {} /\ Only(r)'
  BY <1>1, <1>3, ManagerAssumption
     DEF Gone, Down, Free, Owned, Only, Missing, Create, mgrVars, procVars
<1>6. Serves(r)'
  BY <1>1, <1>3, <1>4, <1>5 DEF Serves, Connects
<1> QED
  BY <1>1, <1>4, <1>6, SerialFramed DEF Serving

\* A step that writes the connect's own record leaves the others' traces alone.
LEMMA OnlyWrites ==
  ASSUME TypeOK, NEW r \in Requests, Only(r), UNCHANGED <<adapter, net>>,
         \A q \in Requests \ {r} : tx'[q] = tx[q]
  PROVE  Only(r)'
BY DEF Only, Free, Owned

LEMMA SerialRecordAndVerify ==
  ASSUME Reliable, Inv, SerialInv, NEW r \in Requests, RecordAndVerify(r) PROVE SerialInv'
<1>1. /\ pc[r] = "record" /\ op[r] = "tun" /\ Serving(r) /\ Gone /\ Missing = {} /\ Only(r)
  BY ServedConnect DEF RecordAndVerify, RollbackSteps, Return, Step, Connects
<1>2. /\ Step(r, "record", "startCore")
      /\ \A q \in Requests \ {r} : tx'[q] = tx[q]
      /\ UNCHANGED <<mgrVars, procVars, config, net, op>>
  BY <1>1 DEF RecordAndVerify, Reliable, Inv, TypeOK
<1>3. pc'[r] = "startCore" /\ \A q \in Requests \ {r} : pc'[q] = pc[q]
  BY <1>2 DEF Step, Goto, Inv, TypeOK
<1>4. Gone' /\ Missing' = {} /\ Only(r)'
  BY <1>1, <1>2, OnlyWrites DEF Inv, Gone, Missing, mgrVars, procVars
<1>5. Serves(r)'
  BY <1>1, <1>2, <1>3, <1>4 DEF Serves, Connects
<1> QED
  BY <1>1, <1>3, <1>5, SerialFramed DEF Serving

LEMMA SerialStartCore ==
  ASSUME Reliable, Inv, StopIsFlagged, SerialInv, NEW r \in Requests, StartCore(r)
  PROVE  SerialInv'
<1>1. /\ pc[r] = "startCore" /\ op[r] = "tun" /\ Serving(r) /\ Gone /\ Missing = {} /\ Only(r)
  BY ServedConnect DEF StartCore, RollbackPlan, Step, Connects
<1>2. ~Busy
  BY <1>1 DEF Busy, Gone, Inactive
<1>3. /\ StartXray(r) /\ Step(r, "startCore", "saveCore")
      /\ UNCHANGED <<connection, signalled, adapters, adapter, tx, net, op>>
  BY <1>2 DEF StartCore, StartXrayFails, Reliable
<1>4. pc'[r] = "saveCore" /\ \A q \in Requests \ {r} : pc'[q] = pc[q]
  BY <1>3 DEF Step, Goto, Inv, TypeOK
<1>5. Live(r)' /\ (connection = Inactive)' /\ Missing' = {} /\ Only(r)'
  BY <1>1, <1>3, FreshCore, SameHost DEF Gone
<1>6. Serves(r)'
  BY <1>1, <1>3, <1>4, <1>5 DEF Serves, Connects
<1> QED
  BY <1>1, <1>4, <1>6, SerialFramed DEF Serving

\* The stages after the core was started.
CoreStages == {"saveCore", "verifyCore", "startAdapter", "saveAdapter", "verifyNet", "commit"}

LEMMA SerialCoreStage ==
  ASSUME Inv, SerialInv, NEW r \in Requests, NEW from \in CoreStages, NEW to \in CoreStages,
         Step(r, from, to), UNCHANGED <<mgrVars, core, signalled, config, net, op>>,
         \A q \in Requests \ {r} : tx'[q] = tx[q] /\ adapter'[q] = adapter[q],
         to \in {"saveAdapter", "verifyNet", "commit"} => adapter'[r] = "running" /\ adapters' = r
  PROVE  SerialInv'
<1>1. /\ pc[r] = from /\ pc'[r] = to /\ \A q \in Requests \ {r} : pc'[q] = pc[q]
      /\ op'[r] = op[r]
  BY DEF Step, Goto, Inv, TypeOK
<1>2. op[r] = "tun" /\ Serving(r) /\ Live(r) /\ connection = Inactive /\ Missing = {} /\ Only(r)
  BY <1>1, ServedConnect DEF CoreStages, Connects
<1>3. Live(r)' /\ (connection = Inactive)' /\ Missing' = {} /\ Only(r)'
  BY <1>2 DEF Live, Missing, Only, Free, Owned, mgrVars
<1>4. Serves(r)'
  BY <1>1, <1>2, <1>3 DEF Serves, Connects, CoreStages
<1> QED
  BY <1>1, <1>2, <1>4, SerialFramed DEF Serving, CoreStages

LEMMA SerialSaveCoreMetadata ==
  ASSUME Reliable, Inv, SerialInv, NEW r \in Requests, SaveCoreMetadata(r) PROVE SerialInv'
<1>1. /\ Step(r, "saveCore", "verifyCore") /\ UNCHANGED <<mgrVars, procVars, config, net, op>>
      /\ \A q \in Requests \ {r} : tx'[q] = tx[q]
  BY DEF SaveCoreMetadata, Reliable, Inv, TypeOK
<1> QED
  BY <1>1, SerialCoreStage DEF CoreStages, procVars

LEMMA SerialVerifyCoreStarted ==
  ASSUME Reliable, Inv, SerialInv, NEW r \in Requests, VerifyCoreStarted(r) PROVE SerialInv'
<1>1. pc[r] = "verifyCore"
  BY DEF VerifyCoreStarted, Step
<1>2. core[r] = "running"
  BY <1>1, ServedConnect DEF Connects, Live
<1>3. /\ Step(r, "verifyCore", "startAdapter")
      /\ UNCHANGED <<mgrVars, procVars, config, tx, net, op>>
  BY <1>2 DEF VerifyCoreStarted
<1> QED
  BY <1>3, SerialCoreStage DEF CoreStages, procVars

LEMMA SerialStartAdapter ==
  ASSUME Reliable, Inv, SerialInv, NEW r \in Requests, StartAdapter(r) PROVE SerialInv'
<1>1. /\ Step(r, "startAdapter", "saveAdapter")
      /\ adapter' = [adapter EXCEPT ![r] = "running"] /\ adapters' = r
      /\ UNCHANGED <<mgrVars, core, signalled, config, tx, net, op>>
  BY DEF StartAdapter, Reliable
<1> QED
  BY <1>1, SerialCoreStage DEF CoreStages, Inv, TypeOK

LEMMA SerialSaveAdapterMetadata ==
  ASSUME Reliable, Inv, SerialInv, NEW r \in Requests, SaveAdapterMetadata(r) PROVE SerialInv'
<1>1. /\ Step(r, "saveAdapter", "verifyNet") /\ UNCHANGED <<mgrVars, procVars, config, net, op>>
      /\ \A q \in Requests \ {r} : tx'[q] = tx[q]
  BY DEF SaveAdapterMetadata, Reliable, Inv, TypeOK
<1>2. adapter[r] = "running" /\ adapters = r
  BY <1>1, ServedConnect DEF Step, Connects
<1> QED
  BY <1>1, <1>2, SerialCoreStage DEF CoreStages, procVars

LEMMA SerialVerifyConnectivity ==
  ASSUME Reliable, Inv, SerialInv, NEW r \in Requests, VerifyConnectivity(r) PROVE SerialInv'
<1>1. pc[r] = "verifyNet"
  BY DEF VerifyConnectivity, Step
<1>2. Missing = {} /\ core[r] = "running" /\ adapter[r] = "running" /\ adapters = r
  BY <1>1, ServedConnect DEF Connects, Live
<1>3. /\ Step(r, "verifyNet", "commit")
      /\ UNCHANGED <<mgrVars, procVars, config, tx, net, op>>
  BY <1>2 DEF VerifyConnectivity, Reliable
<1> QED
  BY <1>2, <1>3, SerialCoreStage DEF CoreStages, procVars

LEMMA SerialCommitActiveState ==
  ASSUME Reliable, Inv, SerialInv, NEW r \in Requests, CommitActiveState(r) PROVE SerialInv'
<1>1. pc[r] = "commit"
  BY DEF CommitActiveState, Return, Step
<1>2. Serving(r) /\ Live(r) /\ Only(r) /\ adapters = r
  BY <1>1, ServedConnect DEF Connects
<1>3. /\ Return(r, "commit", "ok") /\ tx' = [tx EXCEPT ![r].state = "committed"]
      /\ Connected("tun", r)' /\ UNCHANGED <<cmd, stopping, procVars, config, net, op>>
  BY <1>2 DEF CommitActiveState, Live, Reliable, Connected
<1>4. pc'[r] = "ok" /\ \A q \in Requests \ {r} : pc'[q] = pc[q]
  BY <1>3 DEF Return, Step, Goto, Inv, TypeOK
<1>5. Live(r)'
  BY <1>2, <1>3 DEF Live, procVars
<1>6. Up(r)'
  BY <1>2, <1>3 DEF Up, Only, Free, Owned, procVars, Inv, TypeOK, TxRecord
<1> QED
  BY <1>2, <1>3, <1>4, <1>5, <1>6, SerialFramed DEF Serving, AtRest

\* A connect whose calls come one at a time never stops its core.
LEMMA SerialStopCore ==
  ASSUME Inv, SerialInv, NEW r \in Requests, StopCore(r) PROVE FALSE
<1>1. pc[r] = "stopCore"
  BY DEF StopCore, RollbackPlan, Step
<1> QED
  BY <1>1, ServedConnect DEF Connects

\* The stages of a disconnect.  Its transaction is the one that was connected.
LEMMA SerialWaitCore ==
  ASSUME Reliable, Inv, SerialInv, NEW r \in Requests, WaitCore(r) PROVE SerialInv'
<1>1. pc[r] = "waitCore" /\ core[loc[r].core] = "reaped"
  BY DEF WaitCore
<1>2. op[r] = "disconnect" /\ Serving(r) /\ Disconnects(r)
  BY <1>1, ServedDisconnect
<1>3. Gone
  BY <1>1, <1>2 DEF Disconnects, Inv, TypeOK, RegisteredCore
<1>4. UNCHANGED <<mgrVars, procVars, tx, net, op>> /\ (config' = None \/ config' = config)
  BY <1>2 DEF WaitCore
<1>5. Gone'
  BY <1>3, <1>4 DEF Gone, mgrVars
<1>6. CASE loc[r].mode = "tun"
  <2>1. Step(r, "waitCore", "stopAdapter") /\ loc' = [loc EXCEPT ![r].core = None]
    BY <1>1, <1>2, <1>6 DEF WaitCore, Step
  <2>2. /\ pc'[r] = "stopAdapter" /\ loc'[r].tx = loc[r].tx
        /\ \A q \in Requests \ {r} : pc'[q] = pc[q]
    BY <2>1 DEF Step, Goto, Inv, TypeOK, Local
  <2>3. Up(loc[r].tx)
    BY <1>1, <1>2, <1>6 DEF Disconnects
  <2>4. Up(loc[r].tx)'
    BY <1>4, <2>2, <2>3 DEF Up, Only, Free, Owned, procVars
  <2>5. Serves(r)'
    BY <1>2, <1>4, <1>5, <2>2, <2>4 DEF Serves, Disconnects
  <2> QED
    BY <1>2, <2>2, <2>5, SerialFramed DEF Serving
<1>7. CASE loc[r].mode # "tun"
  <2>1. pc'[r] = "ok" /\ \A q \in Requests \ {r} : pc'[q] = pc[q]
    BY <1>1, <1>2, <1>7 DEF WaitCore, Return, Step, Goto, Inv, TypeOK
  <2>2. Down'
    BY <1>1, <1>2, <1>4, <1>7, SameHost DEF Disconnects, procVars
  <2> QED
    BY <1>2, <1>5, <2>1, <2>2, SerialFramed DEF Serving, AtRest
<1> QED
  BY <1>6, <1>7

LEMMA SerialStopAdapter ==
  ASSUME Reliable, Inv, SerialInv, NEW r \in Requests, StopAdapter(r) PROVE SerialInv'
<1>1. pc[r] = "stopAdapter"
  BY DEF StopAdapter, RollbackPlan, Return, Step
<1>2. /\ op[r] = "disconnect" /\ Serving(r) /\ Gone /\ Up(loc[r].tx)
      /\ loc[r].tx \in Requests
  BY <1>1, ServedDisconnect DEF Disconnects, Inv, UndoTarget, Established
<1>3. /\ adapter' = [a \in Requests |->
            IF a = adapters /\ adapter[a] = "running" THEN "exited" ELSE adapter[a]]
      /\ Step(r, "stopAdapter", "rbLoad")
      /\ UNCHANGED <<mgrVars, core, signalled, config, tx, net, op, loc>>
  BY <1>2 DEF StopAdapter, Reliable
<1>4. pc'[r] = "rbLoad" /\ \A q \in Requests \ {r} : pc'[q] = pc[q]
  BY <1>3 DEF Step, Goto, Inv, TypeOK
<1>5. Only(loc[r].tx)' /\ adapter'[loc[r].tx] # "running" /\ tx'[loc[r].tx].state = "committed"
  BY <1>2, <1>3 DEF Up, Only, Free, Owned
<1>6. Gone'
  BY <1>2, <1>3 DEF Gone, mgrVars
<1>7. Serves(r)'
  BY <1>2, <1>3, <1>4, <1>5, <1>6 DEF Serves, Disconnects
<1> QED
  BY <1>2, <1>4, <1>7, SerialFramed DEF Serving

LEMMA SerialLoadTx ==
  ASSUME Reliable, Inv, SerialInv, NEW r \in Requests, LoadTx(r) PROVE SerialInv'
<1>1. pc[r] = "rbLoad"
  BY DEF LoadTx
<1>2. /\ op[r] = "disconnect" /\ Serving(r) /\ Gone /\ Only(loc[r].tx)
      /\ adapter[loc[r].tx] # "running" /\ tx[loc[r].tx].state = "committed"
      /\ loc[r].tx \in Requests
  BY <1>1, ServedDisconnect DEF Disconnects, Inv, UndoTarget, Established
<1> DEFINE t == loc[r].tx
<1>3. /\ Goto(r, "rbSave") /\ UNCHANGED <<mgrVars, procVars, config, tx, net, op>>
      /\ loc' = [loc EXCEPT ![r].copy = tx[t], ![r].plan = tx[t].rollback]
  BY <1>2 DEF LoadTx, Reliable
<1>4. pc'[r] = "rbSave" /\ \A q \in Requests \ {r} : pc'[q] = pc[q]
  BY <1>3 DEF Goto, Inv, TypeOK
<1>5. loc'[r].tx = loc[r].tx /\ loc'[r].copy.state = "committed"
  BY <1>2, <1>3 DEF Inv, TypeOK, Local
<1>6. Only(loc[r].tx)' /\ adapter'[loc[r].tx] # "running"
  BY <1>2, <1>3, <1>5 DEF Only, Free, Owned, procVars
<1>7. Gone'
  BY <1>2, <1>3 DEF Gone, mgrVars
<1>8. Serves(r)'
  BY <1>2, <1>3, <1>4, <1>5, <1>6, <1>7 DEF Serves, Disconnects
<1> QED
  BY <1>2, <1>4, <1>8, SerialFramed DEF Serving

LEMMA SerialBeginRollback ==
  ASSUME Reliable, Inv, SerialInv, NEW r \in Requests, BeginRollback(r) PROVE SerialInv'
<1>1. pc[r] = "rbSave"
  BY DEF BeginRollback
<1>2. /\ op[r] = "disconnect" /\ Serving(r) /\ Gone /\ Only(loc[r].tx)
      /\ adapter[loc[r].tx] # "running" /\ loc[r].copy.state = "committed"
      /\ loc[r].tx \in Requests /\ TypeOK
  BY <1>1, ServedDisconnect DEF Disconnects, Inv, UndoTarget, Established
<1>3. /\ Goto(r, "rbExec") /\ loc' = [loc EXCEPT ![r].copy.state = "rolling_back"]
      /\ tx' = [tx EXCEPT ![loc[r].tx] = [loc[r].copy EXCEPT !.state = "rolling_back"]]
      /\ config' = None \/ config' = config
      /\ UNCHANGED <<mgrVars, core, adapters, net, op>>
      /\ \/ UNCHANGED adapter
         \/ adapter' = [adapter EXCEPT ![loc[r].tx] = "exited"]
  BY <1>2 DEF BeginRollback, Reliable
<1>4. pc'[r] = "rbExec" /\ \A q \in Requests \ {r} : pc'[q] = pc[q]
  BY <1>2, <1>3 DEF Goto, TypeOK
<1>5. loc'[r].tx = loc[r].tx
  BY <1>2, <1>3 DEF TypeOK, Local
<1>6. tx'[loc[r].tx].state = "rolling_back"
  BY <1>2, <1>3 DEF TypeOK, Local, TxRecord
<1>7. Only(loc[r].tx)' /\ adapter'[loc[r].tx] # "running"
  BY <1>2, <1>3, <1>5 DEF Only, Free, Owned, TypeOK
<1>8. Gone'
  BY <1>2, <1>3 DEF Gone, mgrVars
<1>9. Serves(r)'
  BY <1>2, <1>3, <1>4, <1>5, <1>6, <1>7, <1>8 DEF Serves, Disconnects
<1> QED
  BY <1>2, <1>4, <1>9, SerialFramed DEF Serving

LEMMA SerialExecuteRollback ==
  ASSUME Reliable, Inv, RecordInv, SerialInv, NEW r \in Requests, ExecuteRollback(r)
  PROVE  SerialInv'
<1>1. pc[r] = "rbExec"
  BY DEF ExecuteRollback
<1>2. /\ op[r] = "disconnect" /\ Serving(r) /\ Gone /\ Only(loc[r].tx)
      /\ adapter[loc[r].tx] # "running" /\ loc[r].tx \in Requests /\ TypeOK
  BY <1>1, ServedDisconnect DEF Disconnects, Inv, UndoTarget, Established
<1>3. /\ Remove(loc[r].plan) /\ RolledBack(r, "rbExec")
      /\ tx' = [tx EXCEPT ![loc[r].tx] = [loc[r].copy EXCEPT !.state = "rolled_back"]]
      /\ UNCHANGED <<mgrVars, procVars, config, op>>
  BY DEF ExecuteRollback, Reliable
<1>4. pc'[r] = "rmFile" /\ \A q \in Requests \ {r} : pc'[q] = pc[q]
  BY <1>2, <1>3 DEF RolledBack, Step, Goto, TypeOK
<1>5. tx'[loc[r].tx].state = "rolled_back" /\ \A q \in Requests \ {loc[r].tx} : tx'[q] = tx[q]
  BY <1>2, <1>3 DEF TypeOK, Local, TxRecord
<1>6. Owned(loc[r].tx) \subseteq loc[r].plan
  BY <1>1 DEF RecordInv, RollbackCovers
<1>7. ASSUME NEW q \in Requests PROVE Free(q)'
  <2>1. Owned(q)' \subseteq Owned(q) \ loc[r].plan
    BY <1>3, ManagerAssumption DEF Owned, Remove
  <2>2. CASE q = loc[r].tx
    BY <1>2, <1>3, <1>5, <1>6, <2>1, <2>2 DEF Free, procVars
  <2>3. CASE q # loc[r].tx
    BY <1>2, <1>3, <1>5, <2>1, <2>3 DEF Only, Free, procVars
  <2> QED
    BY <2>2, <2>3
<1>8. Gone' /\ Down'
  BY <1>2, <1>3, <1>7 DEF Gone, Down, mgrVars
<1>9. Serves(r)'
  BY <1>2, <1>3, <1>4, <1>8 DEF Serves, Disconnects
<1> QED
  BY <1>2, <1>4, <1>9, SerialFramed DEF Serving

\* The file goes, the state is reset, or there was only a config to remove.
LEMMA SerialRemoveTxFile ==
  ASSUME Reliable, Inv, SerialInv, NEW r \in Requests, RemoveTxFile(r) PROVE SerialInv'
<1>1. /\ pc[r] = "rmFile" /\ pc'[r] = "setInactive"
      /\ \A q \in Requests \ {r} : pc'[q] = pc[q]
      /\ tx' = [tx EXCEPT ![loc[r].tx] = NoTx]
      /\ UNCHANGED <<mgrVars, procVars, config, net, op, loc>>
  BY DEF RemoveTxFile, Reliable, Step, Goto, Inv, TypeOK
<1>2. op[r] = "disconnect" /\ Serving(r) /\ Gone /\ Down
  BY <1>1, ServedDisconnect DEF Disconnects
<1>3. Gone' /\ Down'
  BY <1>1, <1>2 DEF Gone, Down, Free, Owned, NoTx, mgrVars, procVars, Inv, TypeOK
<1>4. Serves(r)'
  BY <1>1, <1>2, <1>3 DEF Serves, Disconnects
<1> QED
  BY <1>1, <1>2, <1>4, SerialFramed DEF Serving

LEMMA SerialLastStep ==
  ASSUME Inv, SerialInv, NEW r \in Requests, SetInactive(r) \/ RemoveConfig(r)
  PROVE  SerialInv'
<1>1. /\ pc[r] \in {"setInactive", "rmConfig"} /\ pc'[r] = "ok"
      /\ \A q \in Requests \ {r} : pc'[q] = pc[q]
      /\ connection' \in {connection, Inactive} /\ config' \in {config, None}
      /\ UNCHANGED <<cmd, stopping, procVars, tx, net>>
  BY DEF SetInactive, RemoveConfig, Return, Step, Goto, Inv, TypeOK, mgrVars
<1>2. Serving(r) /\ Gone /\ Down
  BY <1>1, ServedDisconnect DEF Disconnects
<1>3. Gone' /\ Down'
  BY <1>1, <1>2, SameHost DEF Gone, procVars
<1> QED
  BY <1>1, <1>2, <1>3, SerialFramed DEF Serving, AtRest

\* The processes.  A core that lives is nobody's to stop, so it only exits, and
\* is only reaped, while a disconnect waits for it.
LEMMA SerialCoreRuns ==
  ASSUME SerialInv, NEW c \in Requests, Inv, core[c] \in {"running", "exited"},
         c \in signalled \/ core[c] = "exited"
  PROVE  \E r \in Requests : /\ pc[r] = "waitCore" /\ Serving(r) /\ op[r] = "disconnect"
                             /\ Disconnects(r) /\ stopping /\ loc[r].core = c
<1>1. cmd = c /\ c # None /\ ~Gone
  BY ManagerAssumption DEF Inv, RegisteredCore, Gone
<1>2. ~Live(c) /\ \A q \in Requests : ~Live(q)
  BY <1>1 DEF Live
<1>3. PICK r \in Requests : Serving(r) /\ Serves(r)
  BY <1>1, <1>2 DEF SerialInv, AtRest, Quiescent, Serving, Returned
<1>4. pc[r] \in Labels /\ HandlerKind(r)
  BY DEF Inv, TypeOK
<1>5. op[r] # "tun"
  BY <1>1, <1>2, <1>3, <1>4 DEF Serves, Connects, Serving, Labels, HandlerKind
<1>6. Disconnects(r) /\ pc[r] = "waitCore"
  BY <1>1, <1>3, <1>5 DEF Serves, Disconnects
<1> QED
  BY <1>1, <1>3, <1>4, <1>5, <1>6 DEF Disconnects, HandlerKind

LEMMA SerialCoreExit ==
  ASSUME Reliable, Inv, SerialInv, NEW c \in Requests, CoreExit(c) PROVE SerialInv'
<1>1. /\ core[c] = "running" /\ c \in signalled
      /\ UNCHANGED <<cmd, stopping, connection, adapters, adapter, config, tx, net, op, pc, loc>>
  BY DEF CoreExit, Reliable
<1>2. PICK r \in Requests : /\ pc[r] = "waitCore" /\ Serving(r) /\ op[r] = "disconnect"
                            /\ Disconnects(r)
  BY <1>1, SerialCoreRuns
<1>3. Serves(r)'
  BY <1>1, <1>2 DEF Serves, Disconnects, Gone, Up, Down, Only, Free, Owned
<1> QED
  BY <1>1, <1>2, <1>3, SerialFramed DEF Serving

LEMMA SerialWaitForExit ==
  ASSUME Inv, SerialInv, NEW c \in Requests, WaitForExit(c) PROVE SerialInv'
<1>1. core[c] = "exited"
  BY DEF WaitForExit
<1>2. PICK r \in Requests : /\ pc[r] = "waitCore" /\ Serving(r) /\ op[r] = "disconnect"
                            /\ Disconnects(r) /\ stopping
  BY <1>1, SerialCoreRuns
<1>3. Gone' /\ UNCHANGED <<adapters, adapter, tx, net, op, pc, loc>>
  BY <1>2 DEF WaitForExit, Gone
<1>4. Serves(r)'
  BY <1>2, <1>3 DEF Serves, Disconnects, Up, Down, Only, Free, Owned
<1> QED
  BY <1>2, <1>3, <1>4, SerialFramed DEF Serving

LEMMA SerialInit == Init => SerialInv
BY ManagerAssumption DEF Init, SerialInv, Serving, AtRest, Gone, Down, Free, Owned, NoTx

LEMMA SerialNext ==
  ASSUME Reliable, Inv, RecordInv, StopIsFlagged, SerialInv, [Next]_vars PROVE SerialInv'
<1>1. ASSUME NEW r \in Requests, Continue(r) PROVE SerialInv'
  BY <1>1, SerialCreateTx, SerialApplyPlan, SerialRecordAndVerify, SerialStartCore,
     SerialSaveCoreMetadata, SerialVerifyCoreStarted, SerialStartAdapter,
     SerialSaveAdapterMetadata, SerialVerifyConnectivity, SerialCommitActiveState,
     SerialStopAdapter, SerialStopCore, SerialWaitCore, SerialLoadTx, SerialBeginRollback,
     SerialExecuteRollback, SerialLastStep, SerialRemoveTxFile DEF Continue
<1>2. ASSUME NEW r \in Requests, ConnectProxyOnly(r) \/ ConnectTun(r) \/ Disconnect(r)
      PROVE  SerialInv'
  BY <1>2, SerialConnectProxyOnly, SerialConnectTun, SerialDisconnect
<1>3. ASSUME NEW r \in Requests, CoreExit(r) \/ WaitForExit(r) \/ AdapterExit(r)
      PROVE  SerialInv'
  BY <1>3, SerialCoreExit, SerialWaitForExit DEF AdapterExit, Reliable
<1>4. CASE UNCHANGED vars
  BY <1>4 DEF vars, SerialInv, Serving, Quiescent, Returned, AtRest, Serves, Connects,
              Disconnects, Gone, Live, Connected, Up, Down, Only, Free, Owned, Missing
<1> QED
  BY <1>1, <1>2, <1>3, <1>4 DEF Next, AllServed

THEOREM SerialInvariance == ASSUME Reliable PROVE Spec => []SerialInv
<1>1. Inv /\ RecordInv /\ StopIsFlagged /\ SerialInv /\ [Next]_vars => SerialInv'
  BY SerialNext
<1>2. ~HalfSteps
  BY DEF Reliable
<1> QED
  BY <1>1, <1>2, SerialInit, Invariance, RecordInvariance, FlagInvariance, PTL DEF Spec

\* Between calls, an inactive daemon has nothing left of any connection it made:
\* no committed record, no route, rule or table, no adapter (disconnectTun,
\* rollbackTunTransaction).  The proviso: calls come one at a time, commands
\* and saves work, and Xray and tun2socks live until they are stopped.
THEOREM SerialCallsLeaveClean == ASSUME Reliable PROVE Spec => []InactiveMeansClean
<1>1. SerialInv => InactiveMeansClean
  BY DEF SerialInv, InactiveMeansClean, AtRest, Connected, Down, Free, Owned
<1> QED
  BY <1>1, SerialInvariance, PTL

\* Between calls, the generated config is that of the registered core, and
\* there is none once the daemon is inactive (startXrayLocked, waitForExit,
\* removeGeneratedConfig).  The same proviso.
THEOREM SerialConfigMatches == ASSUME Reliable PROVE Spec => []ConfigMatchesCore
<1>1. SerialInv => ConfigMatchesCore
  BY DEF SerialInv, ConfigMatchesCore, AtRest, Connected, Gone, Live
<1> QED
  BY <1>1, SerialInvariance, PTL
=============================================================================

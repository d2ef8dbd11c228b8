----------------------------- MODULE XrayManager -----------------------------
(***************************************************************************)
(* The connection manager of podlazd (internal/daemon): one XrayManager    *)
(* shared by every HTTP handler.  Handlers run concurrently; m.mu protects *)
(* cmd, done, stopping and state, and is released around every wait, every *)
(* network command and every transaction file access but the commit.  One  *)
(* action is one section of a handler between two points where another     *)
(* handler can run.                                                        *)
(*                                                                         *)
(* A request starts at most one core, one adapter and one transaction, so  *)
(* the request that created them names them: core r, adapter r, file r.    *)
(***************************************************************************)
EXTENDS TransactionState

CONSTANTS
  Requests,          \* the Connect and Disconnect calls of a behaviour
  None,              \* a nil pointer, an empty id, a missing file
  Concurrent,        \* a call may arrive while another one is being served
  ProcessesMayExit,  \* Xray and tun2socks may die on their own
  StepsMayFail,      \* a command, a probe or a file write may return an error
  HalfSteps,         \* a step of several commands may fail after its first one
  StopsMayFail       \* Xray cannot be signalled, tun2socks outlives its stop

ASSUME ManagerAssumption ==
  /\ None \notin Requests
  /\ {Concurrent, ProcessesMayExit, StepsMayFail, HalfSteps, StopsMayFail}
       \subseteq BOOLEAN

VARIABLES
  cmd,         \* m.cmd and m.done: the core that is registered, or None
  stopping,    \* m.stopping
  connection,  \* m.state
  core,        \* the Xray processes, "reaped" once waitForExit closed done
  signalled,   \* the cores a SIGTERM (then a SIGKILL) was sent to
  adapters,    \* tunAdapterHandles: the adapter registered for the manager
  adapter,     \* the tun2socks processes
  config,      \* generated/xray.json: the request that wrote it, or None
  tx,          \* the transaction files
  net,         \* who created each networking resource on the host, or None
  op, pc, loc  \* the handlers: call, next section and local variables

procVars == <<core, signalled, adapters, adapter>>
mgrVars  == <<cmd, stopping, connection>>
vars     == <<cmd, stopping, connection, core, signalled, adapters, adapter,
              config, tx, net, op, pc, loc>>

-----------------------------------------------------------------------------
(* Data.  "link" stands for podlaz0 and what the kernel and resolved drop  *)
(* with it (the default route of table podlaz, the per-link DNS); "rules"  *)
(* for the policy rules and the server bypass route, which survive it, and *)
(* "table" for the nftables table.                                         *)

NetResources == {"link", "rules", "table"}
Children     == {"core", "adapter"}
Processes    == {"none", "running", "exited", "reaped"}
Labels == {"idle", "create", "apply", "record", "startCore", "saveCore",
           "verifyCore", "startAdapter", "saveAdapter", "verifyNet", "commit",
           "stopAdapter", "stopCore", "waitCore", "rbLoad", "rbSave", "rbExec",
           "rmFile", "setInactive", "rmConfig", "ok", "failed"}

TxRecord   == [state : FileStates, rollback : SUBSET NetResources,
               children : SUBSET Children]
NoTx       == [state |-> "absent", rollback |-> {}, children |-> {}]
Connection == [status : {"inactive", "active", "error"},
               mode   : {"none", "proxy-only", "tun"},
               tx     : Requests \cup {None},
               path   : BOOLEAN]           \* RuntimeConfigPath is not empty
Inactive   == [status |-> "inactive", mode |-> "none", tx |-> None, path |-> FALSE]
Local      == [core : Requests \cup {None}, mode : {"none", "proxy-only", "tun"},
               tx : Requests \cup {None}, path : BOOLEAN,
               copy : TxRecord, plan : SUBSET NetResources, mark : BOOLEAN]
NoLocal    == [core |-> None, mode |-> "none", tx |-> None, path |-> FALSE,
               copy |-> NoTx, plan |-> {}, mark |-> FALSE]

Init ==
  /\ cmd = None /\ stopping = FALSE /\ connection = Inactive
  /\ core = [r \in Requests |-> "none"] /\ signalled = {}
  /\ adapters = None /\ adapter = [r \in Requests |-> "none"]
  /\ config = None
  /\ tx = [r \in Requests |-> NoTx]
  /\ net = [x \in NetResources |-> None]
  /\ op = [r \in Requests |-> "none"]
  /\ pc = [r \in Requests |-> "idle"]
  /\ loc = [r \in Requests |-> NoLocal]

Goto(r, label) == pc' = [pc EXCEPT ![r] = label]
Step(r, from, to) == pc[r] = from /\ Goto(r, to)
Return(r, from, result) == /\ Step(r, from, result)
                           /\ loc' = [loc EXCEPT ![r] = NoLocal]
Returned(r) == pc[r] \in {"ok", "failed"}
Quiescent == \A r \in Requests : pc[r] = "idle" \/ Returned(r)
Call(r, name, to) == /\ Concurrent \/ Quiescent
                     /\ Step(r, "idle", to)
                     /\ op' = [op EXCEPT ![r] = name]

-----------------------------------------------------------------------------
(* The core process.                                                       *)

\* BUG: asks what is reported instead of what is running.
NoCoreByStatus == connection.status = "inactive"
NoCore == cmd = None

\* BUG: forgets the core of a connect that has not committed yet.
BusyByStatus == connection.status = "active"
Busy == ~NoCore \/ connection.status = "active"

\* BUG: the core of a connect is not looked up before its commit.
RegisteredOnceActive(r) == cmd = r /\ connection.status = "active"
\* BUG: a core that was started once is taken for the registered one.
RegisteredOnceStarted(r) == core[r] # "none"
Registered(r) == cmd = r

\* BUG: the config, which holds credentials, goes as soon as Xray runs.
StartXrayForgetful(r) ==
  /\ config' = None
  /\ core' = [core EXCEPT ![r] = "running"]
  /\ cmd' = r /\ stopping' = FALSE

\* startXrayLocked, with m.mu held: write the config, start Xray, register it.
StartXray(r) ==
  /\ config' = r
  /\ core' = [core EXCEPT ![r] = "running"]
  /\ cmd' = r /\ stopping' = FALSE

\* startXrayLocked when the config is not written, not synced, or removed
\* again because Xray cannot start.
StartXrayFails(r) ==
  /\ StepsMayFail
  /\ config' \in {config, r, None}
  /\ UNCHANGED <<core, cmd, stopping>>

\* Xray exits: on its own, or because it was signalled.
CoreExit(c) ==
  /\ core[c] = "running"
  /\ ProcessesMayExit \/ c \in signalled
  /\ core' = [core EXCEPT ![c] = "exited"]
  /\ UNCHANGED <<cmd, stopping, connection, signalled, adapters, adapter,
                 config, tx, net, op, pc, loc>>

\* BUG: waitForExit gives up on a core that was told to stop.
WaitForExitUnlessStopping(c) ==
  /\ core[c] = "exited" /\ ~stopping
  /\ core' = [core EXCEPT ![c] = "reaped"]
  /\ cmd' = None
  /\ connection' = [connection EXCEPT !.status = "error"]
  /\ UNCHANGED <<stopping, signalled, adapters, adapter, config, tx, net, op, pc, loc>>

\* waitForExit.  Its early return when another core is registered cannot be
\* taken: a core is only registered while none is (RegisteredCore).
WaitForExit(c) ==
  /\ core[c] = "exited"
  /\ core' = [core EXCEPT ![c] = "reaped"]
  /\ cmd' = None
  /\ stopping' = FALSE
  /\ IF stopping
       THEN connection' = Inactive /\ config' = None
       ELSE /\ connection' = [connection EXCEPT !.status = "error"]
            /\ UNCHANGED config
  /\ UNCHANGED <<signalled, adapters, adapter, tx, net, op, pc, loc>>

\* tun2socks dies on its own: it is logged, and nothing else happens.
AdapterExit(a) ==
  /\ ProcessesMayExit
  /\ adapter[a] = "running"
  /\ adapter' = [adapter EXCEPT ![a] = "exited"]
  /\ UNCHANGED <<cmd, stopping, connection, core, signalled, adapters, config,
                 tx, net, op, pc, loc>>

-----------------------------------------------------------------------------
(* Connect, proxy-only: one section under m.mu.                            *)

ConnectProxyOnly(r) ==
  /\ \/ /\ Busy
        /\ Call(r, "proxy-only", "failed")
        /\ UNCHANGED <<cmd, stopping, connection, core, config>>
     \/ /\ ~Busy
        /\ Call(r, "proxy-only", "ok")
        /\ StartXray(r)
        /\ connection' = [status |-> "active", mode |-> "proxy-only",
                          tx |-> None, path |-> TRUE]
     \/ /\ ~Busy
        /\ Call(r, "proxy-only", "failed")
        /\ StartXrayFails(r)
        /\ UNCHANGED connection
  /\ UNCHANGED <<signalled, adapters, adapter, tx, net, loc>>

-----------------------------------------------------------------------------
(* Connect, tun: connectTun and fullTunnelTransactionRunner.run.           *)

\* The check under m.mu, released before the snapshot and the plan.
ConnectTun(r) ==
  /\ Call(r, "tun", IF Busy THEN "failed" ELSE "create")
  /\ UNCHANGED <<mgrVars, procVars, config, tx, net, loc>>

\* What can be planned: a table that exists would have to be validated, which
\* no executor supports.
Plannable == {x \in NetResources : x = "table" => net["table"] = None}

\* Look at the host and plan, save the planned record, move it to applying.
CreateTx(r) ==
  /\ \/ /\ Step(r, "create", "apply")
        /\ tx' = [tx EXCEPT ![r] = [NoTx EXCEPT !.state = "applying"]]
        /\ loc' = [loc EXCEPT ![r].plan = Plannable]
     \/ /\ StepsMayFail
        /\ Step(r, "create", "failed")
        /\ \E state \in {"absent", "planned", "applying"} :
             tx' = [tx EXCEPT ![r] = [NoTx EXCEPT !.state = state]]
        /\ UNCHANGED loc
  /\ UNCHANGED <<mgrVars, procVars, config, net, op>>

\* BUG: undoes the applied steps without putting them on record first.
RollbackStepsUnrecorded(r, from, copy, steps) ==
  /\ Step(r, from, "rbSave")
  /\ loc' = [loc EXCEPT ![r] = [NoLocal EXCEPT !.tx = r, !.plan = steps, !.mark = TRUE,
               !.copy = copy]]

\* Go to the rollback of runTunTransaction (rollbackTunFailure): undo the
\* recorded steps, and mark the record failed when that fails too.
RollbackSteps(r, from, copy, steps) ==
  /\ Step(r, from, "rbSave")
  /\ loc' = [loc EXCEPT ![r] = [NoLocal EXCEPT !.tx = r, !.plan = steps, !.mark = TRUE,
               !.copy = [copy EXCEPT !.rollback = steps]]]

\* BUG: the rollback of the runner leaves the nftables table behind.
RollbackPlanWithoutTable(r, from) ==
  /\ Step(r, from, "rbLoad")
  /\ loc' = [loc EXCEPT ![r] = [NoLocal EXCEPT !.tx = r, !.plan = {"link", "rules"}]]

\* Go to the rollback of the runner, which undoes the whole plan.
RollbackPlan(r, from) ==
  /\ Step(r, from, "rbLoad")
  /\ loc' = [loc EXCEPT ![r] = [NoLocal EXCEPT !.tx = r, !.plan = NetResources]]

Missing == {x \in NetResources : net[x] = None}
Create(r, steps) == net' = [x \in NetResources |-> IF x \in steps THEN r ELSE net[x]]

\* What is recorded when a step fails: the steps that came before it.
Before(x) == CASE x = "link"  -> {}
               [] x = "rules" -> {"link"}
               [] x = "table" -> {"link"} \cup (Missing \cap {"rules"})

\* executor.Apply refuses a plan without the table, then creates the link (it
\* must not exist), the rules and the table.  Identical rules that exist are
\* neither added nor recorded; adding a table that came into being since the
\* plan succeeds.  A table that fails is deleted again.
Applicable(r) == "table" \in loc[r].plan /\ net["link"] = None

ApplyPlan(r) ==
  /\ \/ /\ Applicable(r)
        /\ Step(r, "apply", "record")
        /\ Create(r, Missing \cup {"table"})
        /\ loc' = [loc EXCEPT ![r].plan = Missing \cup {"table"}]
     \/ /\ ~Applicable(r)
        /\ RollbackSteps(r, "apply", tx[r], {})
        /\ UNCHANGED net
     \/ \E x \in NetResources :
          /\ StepsMayFail /\ Applicable(r)
          /\ \/ Create(r, Before(x))
             \/ /\ x = "table"
                /\ net' = [y \in NetResources |->
                     IF y = "table" THEN None ELSE IF y \in Before(x) THEN r ELSE net[y]]
             \/ /\ HalfSteps /\ (net[x] = None \/ x = "table")
                /\ Create(r, Before(x) \cup {x})
          /\ RollbackSteps(r, "apply", tx[r], Before(x))
  /\ UNCHANGED <<mgrVars, procVars, config, tx, op>>

\* A failed save may have replaced the file already, by any of these records.
MaybeSaved(t, records) == tx' \in {tx} \cup {[tx EXCEPT ![t] = rec] : rec \in records}

\* Record the steps, move to applied and verifying, verify the host.  When the
\* record cannot be read back, the error is returned without a rollback.
RecordAndVerify(r) ==
  LET steps == loc[r].plan
      Recorded(state) == [tx[r] EXCEPT !.state = state, !.rollback = steps]
  IN /\ \/ /\ Missing = {}
           /\ Step(r, "record", "startCore")
           /\ tx' = [tx EXCEPT ![r] = Recorded("verifying")]
           /\ UNCHANGED loc
        \/ /\ StepsMayFail \/ Missing # {}
           /\ tx' = [tx EXCEPT ![r] = Recorded("verifying")]
           /\ RollbackSteps(r, "record", Recorded("verifying"), steps)
        \/ /\ StepsMayFail
           /\ RollbackSteps(r, "record", tx[r], steps)
           /\ MaybeSaved(r, {Recorded("applying"), Recorded("applied"), Recorded("verifying")})
        \/ /\ StepsMayFail
           /\ tx' = [tx EXCEPT ![r] = Recorded("verifying")]
           /\ Return(r, "record", "failed")
     /\ UNCHANGED <<mgrVars, procVars, config, net, op>>

\* startCore checks again under m.mu: a proxy-only core may have won the race.
StartCore(r) ==
  /\ \/ /\ Busy
        /\ RollbackPlan(r, "startCore")
        /\ UNCHANGED <<core, cmd, stopping, config>>
     \/ /\ ~Busy
        /\ StartXray(r)
        /\ Step(r, "startCore", "saveCore")
        /\ loc' = [loc EXCEPT ![r].core = r]
     \/ /\ ~Busy
        /\ StartXrayFails(r)
        /\ RollbackPlan(r, "startCore")
  /\ UNCHANGED <<connection, signalled, adapters, adapter, tx, net, op>>

SaveCoreMetadata(r) ==
  /\ \/ /\ Step(r, "saveCore", "verifyCore")
        /\ tx' = [tx EXCEPT ![r].children = {"core"}]
     \/ /\ StepsMayFail
        /\ Step(r, "saveCore", "stopCore")
        /\ MaybeSaved(r, {[tx[r] EXCEPT !.children = {"core"}]})
  /\ UNCHANGED <<mgrVars, procVars, config, net, op, loc>>

\* A select between done and a timer: either may win once done is closed.
VerifyCoreStarted(r) ==
  /\ \/ Step(r, "verifyCore", "startAdapter")
     \/ core[r] = "reaped" /\ Step(r, "verifyCore", "stopCore")
  /\ UNCHANGED <<mgrVars, procVars, config, tx, net, op, loc>>

\* BUG: the runner rolls back without stopping the core first.
StartAdapterOrRollBack(r) ==
  /\ \/ /\ Step(r, "startAdapter", "saveAdapter")
        /\ adapter' = [adapter EXCEPT ![r] = "running"]
        /\ adapters' = r /\ UNCHANGED loc
     \/ /\ StepsMayFail
        /\ RollbackPlan(r, "startAdapter")
        /\ UNCHANGED <<adapter, adapters>>
  /\ UNCHANGED <<mgrVars, core, signalled, config, tx, net, op>>

\* Start tun2socks, then store its handle over any other.
StartAdapter(r) ==
  /\ \/ /\ Step(r, "startAdapter", "saveAdapter")
        /\ adapter' = [adapter EXCEPT ![r] = "running"]
        /\ adapters' = r
     \/ /\ StepsMayFail
        /\ Step(r, "startAdapter", "stopCore")
        /\ UNCHANGED <<adapter, adapters>>
  /\ UNCHANGED <<mgrVars, core, signalled, config, tx, net, op, loc>>

\* The adapter's pid joins the children of the record.
SaveAdapterMetadata(r) ==
  /\ LET saved == [tx[r] EXCEPT !.children = Children]
     IN \/ /\ Step(r, "saveAdapter", "verifyNet")
           /\ tx' = [tx EXCEPT ![r] = saved]
        \/ /\ StepsMayFail
           /\ Step(r, "saveAdapter", "stopAdapter")
           /\ MaybeSaved(r, {saved})
  /\ UNCHANGED <<mgrVars, procVars, config, net, op, loc>>

\* The probes go through the link, the adapter and the core.
VerifyConnectivity(r) ==
  /\ \/ /\ Missing = {} /\ core[r] = "running" /\ adapter[r] = "running"
        /\ Step(r, "verifyNet", "commit")
     \/ /\ StepsMayFail \/ Missing # {} \/ core[r] # "running" \/ adapter[r] # "running"
        /\ Step(r, "verifyNet", "stopAdapter")
  /\ UNCHANGED <<mgrVars, procVars, config, tx, net, op, loc>>

\* commitActiveState, under m.mu.
CommitActiveState(r) ==
  /\ \/ /\ ~Registered(r)              \* the core was reaped: nothing to stop
        /\ Step(r, "commit", "stopAdapter")
        /\ loc' = [loc EXCEPT ![r].core = None]
        /\ UNCHANGED <<tx, connection>>
     \/ /\ Registered(r)
        /\ Return(r, "commit", "ok")
        /\ tx' = [tx EXCEPT ![r].state = "committed"]
        /\ connection' = [status |-> "active", mode |-> "tun", tx |-> r, path |-> TRUE]
     \/ /\ Registered(r) /\ StepsMayFail
        /\ Step(r, "commit", "stopAdapter")
        /\ MaybeSaved(r, {[tx[r] EXCEPT !.state = "committed"]})
        /\ UNCHANGED <<loc, connection>>
  /\ UNCHANGED <<cmd, stopping, procVars, config, net, op>>

-----------------------------------------------------------------------------
(* Stopping what a connection started.                                     *)

\* stopRegisteredTunAdapter takes the handle, whoever registered it.  The
\* runner ignores its error; disconnectTun returns it, the handle being lost.
StopAdapter(r) ==
  LET goOn == IF op[r] = "tun" /\ loc[r].core = None
                THEN RollbackPlan(r, "stopAdapter")
                ELSE /\ Step(r, "stopAdapter", IF op[r] = "tun" THEN "stopCore" ELSE "rbLoad")
                     /\ UNCHANGED loc
  IN /\ adapters' = None
     /\ \/ /\ adapter' = [a \in Requests |->
               IF a = adapters /\ adapter[a] = "running" THEN "exited" ELSE adapter[a]]
           /\ goOn
        \/ /\ StopsMayFail /\ adapters # None
           /\ UNCHANGED adapter
           /\ IF op[r] = "tun" THEN goOn ELSE Return(r, "stopAdapter", "failed")
     /\ UNCHANGED <<mgrVars, core, signalled, config, tx, net, op>>

\* stopStartedCore: flag the stop if the core is still registered, signal it.
\* The runner ignores its error, after SIGTERM or SIGKILL failed.
StopCore(r) ==
  /\ stopping' = (stopping \/ Registered(r))
  /\ \/ /\ Step(r, "stopCore", "waitCore")
        /\ signalled' = signalled \cup {r}
        /\ UNCHANGED <<config, loc>>
     \/ /\ StopsMayFail /\ core[r] = "running"
        /\ RollbackPlan(r, "stopCore")
        /\ signalled' \in {signalled, signalled \cup {r}}
        /\ config' = None
  /\ UNCHANGED <<cmd, connection, core, adapters, adapter, tx, net, op>>

-----------------------------------------------------------------------------
(* rollbackTunTransaction, on the handler's own copy of the record.        *)

\* The file is loaded by name; disconnectTun rebuilds the plan from it.
LoadTx(r) ==
  /\ pc[r] = "rbLoad"
  /\ LET file == tx[loc[r].tx]
     IN \/ /\ file.state # "absent"
           /\ Goto(r, "rbSave")
           /\ loc' = [loc EXCEPT ![r].copy = file,
                        ![r].plan = IF op[r] = "tun" THEN @ ELSE file.rollback]
        \/ /\ StepsMayFail \/ file.state = "absent"
           /\ Return(r, "rbLoad", "failed")
  /\ UNCHANGED <<mgrVars, procVars, config, tx, net, op>>

\* A connect returns its error, a disconnect goes on to the file.
RolledBack(r, from) ==
  IF op[r] = "tun" THEN Return(r, from, "failed")
  ELSE /\ Step(r, from, "rmFile")
       /\ loc' = [loc EXCEPT ![r] = [NoLocal EXCEPT !.tx = loc[r].tx]]

\* Save rolling_back, stop the recorded children, remove the recorded config.
\* When the save fails, a connect that marks failures tries to save it again.
BeginRollback(r) ==
  LET t == loc[r].tx
      copy == loc[r].copy
      Copy(state) == [copy EXCEPT !.state = state]
  IN /\ pc[r] = "rbSave"
     /\ \/ /\ copy.state = "rolled_back"          \* already undone
           /\ RolledBack(r, "rbSave")
           /\ UNCHANGED <<tx, signalled, adapter, config>>
        \/ /\ copy.state # "rolled_back"
           /\ Goto(r, "rbExec")
           /\ loc' = [loc EXCEPT ![r].copy.state = "rolling_back"]
           /\ tx' = IF copy.state = "rolling_back" THEN tx
                    ELSE [tx EXCEPT ![t] = Copy("rolling_back")]
           /\ signalled' = IF "core" \in copy.children /\ core[t] = "running"
                             THEN signalled \cup {t} ELSE signalled
           /\ \/ adapter' = IF "adapter" \in copy.children /\ adapter[t] = "running"
                               THEN [adapter EXCEPT ![t] = "exited"] ELSE adapter
              \/ StopsMayFail /\ UNCHANGED adapter
           /\ config' = IF "core" \in copy.children THEN None ELSE config
        \/ /\ StepsMayFail /\ copy.state \notin {"rolled_back", "rolling_back"}
           /\ Return(r, "rbSave", "failed")
           /\ MaybeSaved(t, {Copy("rolling_back")} \cup
                            IF loc[r].mark THEN {copy, Copy("failed")} ELSE {})
           /\ UNCHANGED <<signalled, adapter, config>>
     /\ UNCHANGED <<mgrVars, core, adapters, net, op>>

\* BUG: the rules are taken to go with the link.
RemoveWithLink(gone) ==
  net' = [x \in NetResources |-> IF x \in gone \ {"rules"} THEN None ELSE net[x]]
Remove(gone) == net' = [x \in NetResources |-> IF x \in gone THEN None ELSE net[x]]

\* executor.Rollback deletes by name, whoever created the resource, and goes
\* on after an error; the record then stays rolling_back, or is marked failed.
ExecuteRollback(r) ==
  LET t == loc[r].tx
      Copy(state) == [loc[r].copy EXCEPT !.state = state]
  IN /\ pc[r] = "rbExec"
     /\ \/ /\ Remove(loc[r].plan)
           /\ tx' = [tx EXCEPT ![t] = Copy("rolled_back")]
           /\ RolledBack(r, "rbExec")
        \/ /\ StepsMayFail                          \* the last save fails
           /\ Remove(loc[r].plan)
           /\ MaybeSaved(t, {Copy("rolled_back")})
           /\ Return(r, "rbExec", "failed")
        \/ \E gone \in SUBSET loc[r].plan :
             /\ StepsMayFail
             /\ Remove(gone)
             /\ MaybeSaved(t, IF loc[r].mark THEN {Copy("failed")} ELSE {})
             /\ Return(r, "rbExec", "failed")
     /\ UNCHANGED <<mgrVars, procVars, config, op>>

-----------------------------------------------------------------------------
(* Disconnect.                                                             *)

\* The section under m.mu.  Its branch for an active TUN connection without a
\* core cannot be taken (ActiveIsBacked).
Disconnect(r) ==
  /\ \/ /\ NoCore
        /\ connection' = Inactive
        /\ Call(r, "disconnect", "rmConfig")
        /\ loc' = [loc EXCEPT ![r].path = connection.path]
        /\ UNCHANGED <<stopping, signalled>>
     \/ /\ ~NoCore
        /\ stopping' = TRUE
        /\ signalled' = signalled \cup {cmd}
        /\ Call(r, "disconnect", "waitCore")
        /\ loc' = [loc EXCEPT ![r] = [NoLocal EXCEPT !.core = cmd, !.mode = connection.mode,
                     !.tx = connection.tx, !.path = connection.path]]
        /\ UNCHANGED connection
     \/ /\ ~NoCore /\ StopsMayFail /\ core[cmd] = "running"
        /\ stopping' = TRUE                      \* and it stays so
        /\ signalled' \in {signalled, signalled \cup {cmd}}
        /\ Call(r, "disconnect", "failed")
        /\ UNCHANGED <<connection, loc>>
  /\ UNCHANGED <<cmd, core, adapters, adapter, config, tx, net>>

\* removeGeneratedConfig, after m.mu was released.
RemoveConfig(r) ==
  /\ Return(r, "rmConfig", "ok")
  /\ config' = IF loc[r].path THEN None ELSE config
  /\ UNCHANGED <<mgrVars, procVars, tx, net, op>>

\* stopCoreProcess waits for done, whoever calls it; the config goes next.
\* The state captured before the wait says whether there is a TUN to undo.
WaitCore(r) ==
  /\ pc[r] = "waitCore"
  /\ core[loc[r].core] = "reaped"
  /\ IF op[r] = "disconnect"
       THEN /\ config' = IF loc[r].path THEN None ELSE config
            /\ IF loc[r].mode = "tun"
                 THEN /\ Goto(r, "stopAdapter")
                      /\ loc' = [loc EXCEPT ![r].core = None]
                 ELSE Return(r, "waitCore", "ok")
       ELSE /\ config' = None
            /\ RollbackPlan(r, "waitCore")
  /\ UNCHANGED <<mgrVars, procVars, tx, net, op>>

RemoveTxFile(r) ==
  /\ \/ /\ Step(r, "rmFile", "setInactive")
        /\ tx' = [tx EXCEPT ![loc[r].tx] = NoTx]
        /\ UNCHANGED loc
     \/ /\ Return(r, "rmFile", "failed")
        /\ StepsMayFail /\ tx[loc[r].tx].state # "absent"
        /\ UNCHANGED tx
  /\ UNCHANGED <<mgrVars, procVars, config, net, op>>

\* The last section under m.mu resets the state, whatever it is by now.
SetInactive(r) ==
  /\ Return(r, "setInactive", "ok")
  /\ connection' = Inactive
  /\ UNCHANGED <<cmd, stopping, procVars, config, tx, net, op>>

-----------------------------------------------------------------------------
\* The sections a handler runs through once it was called.
Continue(r) ==
  \/ CreateTx(r) \/ ApplyPlan(r) \/ RecordAndVerify(r) \/ StartCore(r)
  \/ SaveCoreMetadata(r) \/ VerifyCoreStarted(r) \/ StartAdapter(r)
  \/ SaveAdapterMetadata(r) \/ VerifyConnectivity(r) \/ CommitActiveState(r)
  \/ StopAdapter(r) \/ StopCore(r) \/ WaitCore(r)
  \/ LoadTx(r) \/ BeginRollback(r) \/ ExecuteRollback(r)
  \/ RemoveConfig(r) \/ RemoveTxFile(r) \/ SetInactive(r)

\* Every call of the behaviour was served: nothing is left to run.
AllServed == (\A r \in Requests : Returned(r)) /\ UNCHANGED vars

Next ==
  \/ \E r \in Requests :
       \/ ConnectProxyOnly(r) \/ ConnectTun(r) \/ Disconnect(r)
       \/ Continue(r)
       \/ CoreExit(r) \/ WaitForExit(r) \/ AdapterExit(r)
  \/ AllServed

Spec == Init /\ [][Next]_vars

\* A handler that can go on does; waitForExit reaps a core that exited; and a
\* signalled core exits, since it is killed five seconds after the SIGTERM.
Fairness == \A r \in Requests :
  /\ WF_vars(Continue(r))
  /\ WF_vars(WaitForExit(r))
  /\ WF_vars(CoreExit(r) /\ r \in signalled)

FairSpec == Spec /\ Fairness

-----------------------------------------------------------------------------
(* Properties.                                                             *)

TypeOK ==
  /\ cmd \in Requests \cup {None} /\ stopping \in BOOLEAN
  /\ connection \in Connection
  /\ core \in [Requests -> Processes] /\ signalled \subseteq Requests
  /\ adapters \in Requests \cup {None} /\ adapter \in [Requests -> Processes]
  /\ config \in Requests \cup {None}
  /\ tx \in [Requests -> TxRecord]
  /\ net \in [NetResources -> Requests \cup {None}]
  /\ op \in [Requests -> {"none", "proxy-only", "tun", "disconnect"}]
  /\ pc \in [Requests -> Labels]
  /\ loc \in [Requests -> Local]

\* However connects and disconnects race, at most one Xray is alive, and it is
\* the one the manager can stop; a stop is only pending for a live core.
RegisteredCore ==
  /\ \A c \in Requests : core[c] \in {"running", "exited"} <=> cmd = c
  /\ stopping => cmd # None

\* A connection reported active has its core, and a TUN connection reported
\* active has its committed record on disk: no disconnect, however late it
\* resumes, has begun to undo it (connectTun, disconnectTun).
ActiveIsBacked ==
  connection.status = "active" =>
    /\ cmd # None
    /\ connection.mode = "tun" =>
         connection.tx = cmd /\ tx[cmd].state = "committed"

\* From the moment a record says verifying, it names every resource its
\* transaction left on the host, so that a later rollback can find it.
RecordCoversHost ==
  \A t \in Requests :
    tx[t].state \in {"verifying", "committed", "rolling_back", "failed"} =>
      {x \in NetResources : net[x] = t} \subseteq tx[t].rollback

\* A record that says rolled_back tells the truth: nothing that transaction
\* created is left, even when two disconnects undo it with stale copies.
RolledBackIsClean ==
  \A t \in Requests, x \in NetResources :
    tx[t].state = "rolled_back" => net[x] # t

\* A core that dies unasked is reported, and one that was asked to stop is
\* never reported as a crash (waitForExit, the stopping flag).
CrashReported ==
  [][\A c \in Requests :
       core[c] = "exited" /\ core'[c] = "reaped" =>
         (connection'.status = "error" <=> ~stopping /\ c \notin signalled)]_vars

\* Another connect has started an adapter, whose handle replaces that of r.
OtherAdapter(r) == \E q \in Requests \ {r} : adapter[q] # "none"

\* A TUN connect that reports a completed rollback left no core and no network
\* state of its own behind.  Its adapter runs on only when its pid was never
\* recorded and its handle went to another connect (runTunTransaction,
\* stopRegisteredTunAdapter).
FailedConnectIsUndone ==
  \A r \in Requests :
    op[r] = "tun" /\ pc[r] = "failed" /\ tx[r].state \in {"absent", "rolled_back"} =>
      /\ core[r] \in {"none", "reaped"}
      /\ adapter[r] = "running" => "adapter" \notin tx[r].children /\ OtherAdapter(r)
      /\ \A x \in NetResources : net[x] # r

\* Once no call is running and the daemon reports inactive, nothing that a
\* committed connection set up remains: no record, no resource, no adapter.
InactiveMeansClean ==
  Quiescent /\ connection.status = "inactive" =>
    \A t \in Requests :
      /\ tx[t].state # "committed"
      /\ adapter[t] # "running"
      /\ \A x \in NetResources : net[x] # t

\* Between calls that come one at a time, the generated config is the one the
\* registered core was started with, and there is none without a connection.
ConfigMatchesCore ==
  Quiescent => /\ cmd # None => config = cmd
               /\ connection.status = "inactive" => config = None

\* Every call returns: waiting for a core to be reaped never blocks forever.
CallsReturn == \A r \in Requests : pc[r] # "idle" ~> Returned(r)

-----------------------------------------------------------------------------
(* The inductive invariants of XrayManager_proofs.                         *)

\* The TUN connection t was committed and its connect call returned.
Established(t) == t \in Requests /\ op[t] = "tun" /\ pc[t] = "ok"

TunConnection ==
  connection.mode = "tun" =>
    /\ Established(connection.tx)
    /\ connection.tx = cmd \/ core[connection.tx] = "reaped"

\* A core is started by the request it is named after, once.
StartsOnce(r) ==
  pc[r] \in {"idle", "create", "apply", "record", "startCore"} => core[r] = "none"

HandlerKind(r) ==
  /\ pc[r] \in {"create", "apply", "record", "startCore", "saveCore", "verifyCore",
                "startAdapter", "saveAdapter", "verifyNet", "commit", "stopCore"}
       => op[r] = "tun"
  /\ pc[r] \in {"rmConfig", "rmFile", "setInactive"} => op[r] = "disconnect"
  /\ pc[r] \in {"waitCore", "stopAdapter", "rbLoad", "rbSave", "rbExec"}
       => op[r] \in {"tun", "disconnect"}

\* A connect undoes its own transaction, a disconnect one that was committed
\* and whose core is gone.
UndoTarget(r) ==
  /\ op[r] = "tun" /\ pc[r] \in {"rbLoad", "rbSave", "rbExec"} => loc[r].tx = r
  /\ op[r] = "disconnect" /\ pc[r] = "waitCore" /\ loc[r].mode = "tun" =>
       /\ Established(loc[r].tx)
       /\ loc[r].tx = loc[r].core \/ core[loc[r].tx] = "reaped"
  /\ op[r] = "disconnect" /\ pc[r] \in {"stopAdapter", "rbLoad", "rbSave", "rbExec", "rmFile"} =>
       Established(loc[r].tx) /\ core[loc[r].tx] = "reaped"

Inv == /\ TypeOK /\ RegisteredCore /\ ActiveIsBacked /\ TunConnection
       /\ \A r \in Requests : StartsOnce(r) /\ HandlerKind(r) /\ UndoTarget(r)

\* Whoever signalled the registered core has flagged the stop before; a
\* connect that undoes its transaction has no core left, or flagged its stop.
StopIsFlagged ==
  /\ cmd \in signalled => stopping
  /\ \A r \in Requests :
       /\ core[r] = "none" => r \notin signalled
       /\ pc[r] \in {"saveCore", "verifyCore", "startAdapter", "saveAdapter", "verifyNet",
                     "commit", "stopCore"} => loc[r].core = r /\ core[r] # "none"
       /\ op[r] = "tun" /\ pc[r] = "stopAdapter" =>
            loc[r].core \in {r, None} /\ core[r] # "none"
       /\ op[r] = "tun" /\ cmd = r /\
            (pc[r] \in {"waitCore", "rbLoad", "rbSave", "rbExec"}
               \/ (pc[r] = "stopAdapter" /\ loc[r].core = None)) => stopping

Owned(t) == {x \in NetResources : net[x] = t}

\* The steps of t are on record, and so is that they are the whole plan.
Reported(t) == tx[t].state \in {"verifying", "committed"}

\* Where the transaction t is, and what the host may hold of it by then.
RecordStage(t) ==
  /\ pc[t] \in {"idle", "create", "apply"} \/ op[t] # "tun" => Owned(t) = {}
  /\ pc[t] \in {"apply", "record"} => tx[t].state = "applying"
  /\ pc[t] = "record" => Owned(t) \subseteq loc[t].plan
  /\ pc[t] \in {"startCore", "saveCore", "verifyCore", "startAdapter", "saveAdapter",
               "verifyNet", "commit", "stopCore"} => Reported(t)
  /\ op[t] = "tun" /\ pc[t] \in {"stopAdapter", "waitCore", "rbLoad"} => Reported(t)
  /\ Established(t) => tx[t].state \notin {"planned", "applying", "applied"}

\* RecordCoversHost and RolledBackIsClean, for the transaction t.
RecordTruth(t) ==
  /\ tx[t].state \in {"verifying", "committed", "rolling_back", "failed"} =>
       Owned(t) \subseteq tx[t].rollback
  /\ tx[t].state = "rolled_back" => Owned(t) = {}

\* What a rollback holds in memory covers what it has to undo.
RollbackCovers(r) ==
  /\ pc[r] \in {"rbSave", "rbExec"} =>
       Owned(loc[r].tx) \subseteq loc[r].plan \cap loc[r].copy.rollback
  /\ pc[r] \in {"rbLoad", "rbSave", "rbExec"} /\ op[r] = "tun" /\ ~loc[r].mark
       => loc[r].plan = NetResources
  /\ loc[r].mark => op[r] = "tun" /\ pc[r] \in {"rbSave", "rbExec"}

RecordInv == \A r \in Requests : RecordStage(r) /\ RecordTruth(r) /\ RollbackCovers(r)
=============================================================================

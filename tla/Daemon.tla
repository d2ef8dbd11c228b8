------------------------------- MODULE Daemon -------------------------------
(***************************************************************************)
(* podlazd as a process: the lock and the socket in the runtime directory, *)
(* the scan at startup, the requests it serves, its shutdown, a crash, and *)
(* systemd, which empties the directory and starts it again.  Several      *)
(* daemons may be started on one directory.                                *)
(*                                                                         *)
(* A connect is a plan made from the host, a transaction record and the    *)
(* entries on the host; XrayManager has the calls that overlap in one      *)
(* daemon, and TunTransaction every step of one transaction.               *)
(***************************************************************************)
EXTENDS TransactionState, Planner, FiniteSets

CONSTANTS
  Daemons,   \* the processes that may be started as podlazd
  Recovers,  \* the handlers that serve POST /v1/recover
  None,      \* no daemon, no record
  MaxTx,     \* bound on the transactions
  Worlds     \* by name: the host, the daemons that are units, what polkit grants,
             \* whether the path of the socket is taken by another file, bounds

Budgets == {"starts", "connects", "recovers", "crashes", "faults"}

ASSUME DaemonAssumption ==
  /\ None \notin Daemons \cup Recovers /\ "file" \notin Daemons \cup {None}
  /\ "connect" \notin Recovers \cup {None}
  /\ MaxTx \in Nat
  /\ \A w \in DOMAIN Worlds : /\ Worlds[w].budget \in [Budgets -> Nat]
                              /\ Worlds[w].budget["connects"] <= MaxTx

\* The server has IPv4 and IPv6 addresses; "none" is no interface, and the
\* uplink is not the interface that the daemon creates.
ASSUME HostAssumption ==
  \A w \in DOMAIN Worlds : /\ Worlds[w].host.answers \in Seq({"s4", "s6"})
                          /\ Worlds[w].host.dev \notin {"none", ManagedInterface}

VARIABLES
  world,    \* the name of the world this behaviour is in
  phase,    \* how far Server.Run of each daemon has got
  lock,     \* podlazd.lock: the daemon that created it, or None
  socket,   \* podlazd.sock: the daemon that listens on it, "file", or None
  wiped,    \* history: the directory was emptied under a running daemon
  net,      \* the networking entries of podlaz on the host
  records,  \* the transaction files
  generated,\* the directory of generated configs is there
  conn,     \* the connection of each daemon
  connect,  \* the connect handler
  rec,      \* the recover handlers
  scan,     \* startupScanState: what each daemon found when it last scanned
  budget,   \* what may still happen: starts, connects, recovers, crashes, faults
  touched,  \* history: the handlers under which another one has changed something
  lost,     \* history: entries whose record was never written or is gone
  half,     \* history: entries that a step which failed half-way has made
  dirty     \* history: an exit or a crash has cut a connect or a rollback short

serverVars == <<phase, lock, socket, wiped>>
hostVars   == <<net, records, generated>>
handlers   == <<conn, connect, rec, scan>>
history    == <<touched, lost, half, dirty>>
vars == <<world, serverVars, hostVars, handlers, budget, history>>

-----------------------------------------------------------------------------
(* Data.                                                                   *)

W    == Worlds[world]
Host == W.host

Phases  == {"off", "failed", "starting", "locked", "scanned", "free", "serving",
            "stopping", "closed", "unlinked", "broken", "cut", "exited"}
Running(d) == phase[d] \notin {"off", "exited", "failed", "starting"}
Accepts(d) == phase[d] \in {"serving", "stopping"}
IsUnit(d)  == d \in W.units

Ids  == 1 .. MaxTx
NoTx == [state |-> "absent", entries |-> {}, children |-> FALSE]

Inactive  == [mode |-> "none", core |-> FALSE, tx |-> None]
NoPlan    == [entries |-> {}, bypass |-> "", dns |-> "", firewall |-> ""]
NoConnect == [pc |-> "idle", by |-> None, tx |-> None, plan |-> NoPlan, steps |-> {}]
NoScan    == [found |-> {}, warnings |-> FALSE]
NoRecover == [pc |-> "idle", by |-> None, todo |-> {}, results |-> {},
              tx |-> None, copy |-> NoTx, scan |-> NoScan]

\* Bound: only in some worlds does a recover overlap a connect.
MayOverlap(now) == W.overlap \/ ~now
Spend(what) == budget[what] > 0 /\ budget' = [budget EXCEPT ![what] = @ - 1]
SpendIf(fault) == IF fault THEN Spend("faults") ELSE UNCHANGED budget
InFlight    == {h \in Recovers : rec[h].pc # "idle"}
\* h has changed something under every other handler.
Touch(h)    == touched' = touched \cup
                 ((InFlight \cup (IF connect.pc = "idle" THEN {} ELSE {"connect"})) \ {h})

Init ==
  /\ world \in DOMAIN Worlds
  /\ phase = [d \in Daemons |-> "off"]
  /\ lock = None /\ wiped = FALSE
  /\ socket \in IF Worlds[world].notASocket THEN {"file"} ELSE {None}
  /\ net = {} /\ records = [i \in Ids |-> NoTx] /\ generated = FALSE
  /\ conn = [d \in Daemons |-> Inactive] /\ connect = NoConnect
  /\ rec = [h \in Recovers |-> NoRecover] /\ scan = [d \in Daemons |-> NoScan]
  /\ budget = Worlds[world].budget
  /\ touched = {} /\ lost = {} /\ half = {} /\ dirty = FALSE

-----------------------------------------------------------------------------
(* The recovery scan (recovery.go).  It reports what it finds; a tool that *)
(* is missing or fails is a warning.                                       *)

Candidate(kind, tx) == [kind |-> kind, tx |-> tx]
RecoveryScan ==
  [found |->
     {Candidate("transaction-state", i) : i \in {j \in Ids : RequiresCleanup(records[j].state)}}
       \cup {Candidate(k, None) : k \in
               (IF Link \in net /\ Host.ip = "ok" THEN {"tun-interface"} ELSE {}) \cup
               (IF OfKind(net, "table") # {} /\ Host.nft = "ok" THEN {"nftables-table"} ELSE {}) \cup
               (IF generated THEN {"generated-runtime-configs"} ELSE {})},
   warnings |-> Host.ip # "ok" \/ Host.nft # "ok"]

\* orderCleanupCandidates.
Weight(c) == CASE c.kind = "transaction-state" -> 10
               [] c.kind = "nftables-table"    -> 20
               [] c.kind = "tun-interface"     -> 30
               [] OTHER                        -> 40

-----------------------------------------------------------------------------
(* Server.Run, up to the first request.                                    *)

\* A user starts a daemon, systemd starts its unit.
Start(d) ==
  /\ phase[d] = "off" \/ (phase[d] = "failed" /\ ~IsUnit(d))
  /\ Spend("starts")
  /\ phase' = [phase EXCEPT ![d] = "starting"]
  /\ UNCHANGED <<world, lock, socket, wiped, hostVars, handlers, history>>

\* BUG: the lock file is opened without O_EXCL.
TakeLockShared(d) ==
  /\ phase[d] = "starting"
  /\ lock' = d /\ phase' = [phase EXCEPT ![d] = "locked"]
  /\ conn' = [conn EXCEPT ![d] = Inactive]
  /\ UNCHANGED <<world, socket, wiped, hostVars, connect, rec, scan, budget, history>>

\* O_CREATE|O_EXCL: whoever finds the file gives up and leaves it alone.
TakeLock(d) ==
  /\ phase[d] = "starting"
  /\ IF lock = None
     THEN lock' = d /\ phase' = [phase EXCEPT ![d] = "locked"]
     ELSE lock' = lock /\ phase' = [phase EXCEPT ![d] = "failed"]
  /\ conn' = [conn EXCEPT ![d] = Inactive]
  /\ UNCHANGED <<world, socket, wiped, hostVars, connect, rec, scan, budget, history>>

ScanAtStartup(d) ==
  /\ phase[d] = "locked" /\ phase' = [phase EXCEPT ![d] = "scanned"]
  /\ scan' = [scan EXCEPT ![d] = RecoveryScan]
  /\ UNCHANGED <<world, lock, socket, wiped, hostVars, conn, connect, rec, budget, history>>

\* A file that is no socket is left alone, and the start fails.
RemoveStaleSocket(d) ==
  /\ phase[d] = "scanned"
  /\ IF socket = "file"
     THEN UNCHANGED socket /\ lock' = None /\ phase' = [phase EXCEPT ![d] = "failed"]
     ELSE socket' = None /\ UNCHANGED lock /\ phase' = [phase EXCEPT ![d] = "free"]
  /\ UNCHANGED <<world, wiped, hostVars, handlers, budget, history>>

\* Listen and chmod; net.Listen fails on a path that exists.
Listen(d) ==
  /\ phase[d] = "free"
  /\ \/ /\ socket = None /\ socket' = d /\ phase' = [phase EXCEPT ![d] = "serving"]
        /\ UNCHANGED <<lock, budget>>
     \/ /\ socket # None \/ budget.faults > 0
        /\ IF socket # None THEN UNCHANGED budget ELSE Spend("faults")
        /\ phase' = [phase EXCEPT ![d] = "failed"] /\ lock' = None
        /\ UNCHANGED socket
  /\ UNCHANGED <<world, wiped, hostVars, handlers, history>>

-----------------------------------------------------------------------------
(* Helpers of the handlers.                                                *)

Healthy(host) == /\ host.ip = "ok" /\ host.nft = "ok" /\ host.resolvectl = "ok"
                 /\ host.dev # "" /\ \E k \in DOMAIN host.answers : host.answers[k] = "s4"

\* What a step leaves on the host; nothing that is gone is lost or half-made.
Leave(after, forgotten, halfMade) ==
  /\ net' = after
  /\ lost' = (lost \cup forgotten) \cap net'
  /\ half' = (half \cup halfMade) \cap net'
Undo(gone) == Leave(Without(net, gone), {}, {})

\* What of the entries a rollback that fails leaves: the one whose command
\* failed, all of them when the context has ended or no file could be written,
\* or none when only the last file could not.
FailsToUndo(entries) == {{}, entries} \cup {{e} : e \in entries}

SetRecord(i, record) == records' = [records EXCEPT ![i] = record]

\* The entries of a connect that were applied and not recorded yet.
Unrecorded == IF connect.pc = "record" THEN connect.steps ELSE {}

\* What ends with the process of d.
EndProcess(d) ==
  /\ conn' = [conn EXCEPT ![d] = Inactive]
  /\ connect' = IF connect.by = d THEN NoConnect ELSE connect
  /\ rec' = [h \in Recovers |-> IF rec[h].by = d THEN NoRecover ELSE rec[h]]
  /\ lost' = lost \cup (IF connect.by = d THEN Unrecorded ELSE {})
  /\ touched' = touched \ {h \in Recovers : rec[h].by = d}
  /\ UNCHANGED half

-----------------------------------------------------------------------------
(* POST /v1/connect.  One connect at a time: XrayManager has the overlaps  *)
(* of connects.                                                            *)

ConnectProxyOnly(d) ==
  /\ Accepts(d) /\ "connect-proxy-only" \in W.grants
  /\ conn[d] = Inactive /\ connect.pc = "idle" /\ MayOverlap(InFlight # {})
  /\ Spend("connects")
  /\ conn' = [conn EXCEPT ![d] = [mode |-> "proxy-only", core |-> TRUE, tx |-> None]]
  /\ generated' = TRUE
  /\ Touch(None)
  /\ UNCHANGED <<world, serverVars, net, records, connect, rec, scan, lost, half, dirty>>

\* The record is there before anything is applied.
ConnectTun(d) ==
  /\ Accepts(d) /\ "connect-tun" \in W.grants
  /\ conn[d] = Inactive /\ connect.pc = "idle" /\ MayOverlap(InFlight # {})
  /\ Spend("connects")
  /\ LET i == budget["connects"]
     IN  /\ SetRecord(i, [state |-> "applying", entries |-> {}, children |-> FALSE])
         /\ connect' = [pc |-> "apply", by |-> d, tx |-> i,
                        plan |-> PlanTun(CollectSnapshot(Host, net)), steps |-> {}]
  /\ dirty' = (dirty \/ phase[d] = "stopping")
  /\ touched' = (touched \ {"connect"}) \cup InFlight
  /\ UNCHANGED <<world, serverVars, net, generated, conn, rec, scan, lost, half>>

\* executor.Apply does the whole plan.
Apply ==
  /\ connect.pc = "apply" /\ Applies(connect.plan, Host, net)
  /\ net' = net \cup connect.plan.entries
  /\ connect' = [connect EXCEPT !.pc = "record",
                                !.steps = Applied(connect.plan.entries, net)]
  /\ Touch("connect")
  /\ UNCHANGED <<world, serverVars, records, generated, conn, rec, scan, budget,
                 lost, half, dirty>>

\* rollbackTunFailure on the host `on`: it undoes the steps that were reported
\* and keeps the file with them, as rolled back; or the rollback fails; or no
\* file can be written, and then nothing is undone.
RollbackTunFailure(on, halfMade, steps, fault) ==
  LET record(state) == [state |-> state, entries |-> steps, children |-> FALSE]
  IN  /\ connect' = NoConnect
      /\ \/ /\ Leave(Without(on, steps), {}, halfMade)
            /\ SetRecord(connect.tx, record("rolled_back"))
            /\ SpendIf(fault) /\ UNCHANGED dirty
         \/ /\ Spend("faults") /\ dirty' = TRUE
            /\ \/ \E stays \in FailsToUndo(steps) :
                    /\ Leave(Without(on, steps \ stays), {}, halfMade)
                    /\ SetRecord(connect.tx, record("failed"))
               \/ /\ Leave(on, steps \ records[connect.tx].entries, halfMade)
                  /\ UNCHANGED records

\* The plan is refused, or the step e is, or fails with some of it done; what
\* comes before e has been done.
ApplyFails ==
  /\ connect.pc = "apply"
  /\ \/ ~Validated(connect.plan) /\ RollbackTunFailure(net, {}, {}, FALSE)
     \/ /\ Validated(connect.plan)
        /\ \E e \in connect.plan.entries :
             LET before == Before(connect.plan, e)
                 steps  == Applied(before, net)
                 works  == Applicable(e, Host, net)
             IN  /\ \A f \in before : Applicable(f, Host, net)
                 /\ \E made \in IF works THEN SUBSET Applied({e}, net) ELSE {{}} :
                      RollbackTunFailure(net \cup before \cup made, made, steps, works)
  /\ Touch("connect")
  /\ UNCHANGED <<world, serverVars, generated, conn, rec, scan>>

\* Save writes the whole record, also when the file has gone meanwhile.
RecordApplied ==
  /\ connect.pc = "record"
  /\ SetRecord(connect.tx, [state |-> "verifying", entries |-> connect.steps,
                            children |-> FALSE])
  /\ connect' = [connect EXCEPT !.pc = "check"]
  /\ Touch("connect")
  /\ UNCHANGED <<world, serverVars, net, generated, conn, rec, scan, budget, lost, half, dirty>>

InPlace == connect.plan.entries \subseteq net

\* A save fails, the file is gone, or Verify misses an entry.
RecordFails ==
  /\ connect.pc \in {"record", "check"}
  /\ RollbackTunFailure(net, {}, connect.steps,
                        InPlace /\ records[connect.tx].state # "absent")
  /\ Touch("connect")
  /\ UNCHANGED <<world, serverVars, generated, conn, rec, scan>>

\* The record cannot be read again: the connect ends without a rollback.
LoadFails ==
  /\ connect.pc \in {"apply", "check"}
  /\ SpendIf(records[connect.tx].state # "absent")
  /\ dirty' = (dirty \/ records[connect.tx].state # "absent")
  /\ connect' = NoConnect
  /\ UNCHANGED <<world, serverVars, hostVars, conn, rec, scan, touched, lost, half>>

\* executor.Verify.
VerifyPlan ==
  /\ connect.pc = "check" /\ InPlace /\ records[connect.tx].state # "absent"
  /\ connect' = [connect EXCEPT !.pc = "core"]
  /\ UNCHANGED <<world, serverVars, hostVars, conn, rec, scan, budget, history>>

\* Xray, its metadata, tun2socks and its metadata.
StartChildren ==
  /\ connect.pc = "core" /\ records[connect.tx].state # "absent"
  /\ generated' = TRUE
  /\ conn' = [conn EXCEPT ![connect.by].core = TRUE]
  /\ records' = [records EXCEPT ![connect.tx].children = TRUE]
  /\ connect' = [connect EXCEPT !.pc = "verify"]
  /\ Touch("connect")
  /\ UNCHANGED <<world, serverVars, net, rec, scan, budget, lost, half, dirty>>

\* The probes pass only over a tunnel; the commit needs the core that was
\* started, and the record.
Commit ==
  /\ connect.pc = "verify" /\ Tunnelled(Host, net) /\ conn[connect.by].core
  /\ records[connect.tx].state = "verifying"
  /\ records' = [records EXCEPT ![connect.tx].state = "committed"]
  /\ conn' = [conn EXCEPT ![connect.by] = [mode |-> "tun", core |-> TRUE, tx |-> connect.tx]]
  /\ connect' = NoConnect
  /\ Touch("connect")
  /\ UNCHANGED <<world, serverVars, net, generated, rec, scan, budget, lost, half, dirty>>

\* rollbackTunTransaction of the record i: everything is undone; or a file
\* cannot be read or written first, or the rollback fails; or there is no
\* record to go by.
RolledBack(i, what, after) ==
  \/ /\ records[i].state # "absent"
     /\ Undo(what) /\ SetRecord(i, after) /\ UNCHANGED <<budget, dirty>>
  \/ /\ records[i].state # "absent" /\ Spend("faults") /\ dirty' = TRUE
     /\ \/ UNCHANGED <<net, records, lost, half>>
        \/ \E stays \in FailsToUndo(what) :
             /\ Undo(what \ stays)
             /\ records' = [records EXCEPT ![i].state = "rolling_back"]
  \/ /\ records[i].state = "absent" /\ UNCHANGED <<net, records, lost, half, budget, dirty>>

UndoneRecord(i) == [records[i] EXCEPT !.state = "rolled_back"]

\* The runner undoes the whole plan and leaves the file.
ConnectFails ==
  /\ connect.pc \in {"core", "verify"}
  /\ RolledBack(connect.tx, connect.plan.entries, UndoneRecord(connect.tx))
  /\ conn' = [conn EXCEPT ![connect.by] = Inactive]
  /\ connect' = NoConnect
  /\ Touch("connect")
  /\ UNCHANGED <<world, serverVars, generated, rec, scan>>

-----------------------------------------------------------------------------
(* POST /v1/disconnect, and the same call at shutdown.                     *)

\* disconnectTun removes the file, or it stays as rolled back.
DisconnectOf(d) ==
  /\ conn' = [conn EXCEPT ![d] = Inactive]
  /\ IF conn[d].mode = "tun"
     THEN LET i == conn[d].tx
          IN  /\ Touch(None)
              /\ \/ RolledBack(i, records[i].entries, NoTx)
                 \/ /\ records[i].state # "absent" /\ Spend("faults") /\ UNCHANGED dirty
                    /\ Undo(records[i].entries) /\ SetRecord(i, UndoneRecord(i))
     ELSE UNCHANGED <<net, records, lost, half, budget, dirty, touched>>
  /\ UNCHANGED generated

Disconnect(d) ==
  /\ Accepts(d) /\ "disconnect" \in W.grants /\ conn[d] # Inactive
  /\ DisconnectOf(d)
  /\ UNCHANGED <<world, serverVars, connect, rec, scan>>

-----------------------------------------------------------------------------
(* POST /v1/recover.                                                       *)

RecoverStart(h, d) ==
  /\ Accepts(d) /\ "recover-execute" \in W.grants
  /\ rec[h].pc = "idle" /\ MayOverlap(connect.pc # "idle") /\ Spend("recovers")
  /\ rec' = [rec EXCEPT ![h] = [pc |-> "clean", by |-> d, todo |-> RecoveryScan.found,
                                results |-> {}, tx |-> None, copy |-> NoTx,
                                scan |-> RecoveryScan]]
  /\ touched' = touched \ {h}
  /\ UNCHANGED <<world, serverVars, hostVars, conn, connect, scan, lost, half, dirty>>

ToolWorks(tool) == (IF tool = "nft" THEN Host.nft ELSE Host.ip) = "ok"

\* BUG: what was skipped does not keep the record.
SkippedNothing(record) == FALSE
\* What a record asks for and recovery will not do: children are never
\* signalled, and what it cannot tell from the host's own state stays.
SkippedOf(record) == record.children \/ \E e \in record.entries : ~Recognised(e)

\* The candidates are taken in the order of their weights, and each leaves one
\* result.
First(h, c) == c \in rec[h].todo /\ \A other \in rec[h].todo : Weight(c) <= Weight(other)
Report(h, c, status) ==
  LET r == rec[h]
      result == [candidate |-> c, status |-> status]
  IN  rec' = [rec EXCEPT ![h] = [r EXCEPT !.pc = "clean", !.tx = None, !.copy = NoTx,
                                          !.todo = r.todo \ {c},
                                          !.results = r.results \cup {result}]]

\* cleanupTransactionState.  First it reads the record again.
CleanLoads(h) ==
  /\ rec[h].pc = "clean"
  /\ \E c \in rec[h].todo :
       /\ c.kind = "transaction-state" /\ First(h, c)
       /\ LET record == records[c.tx]
          IN  \/ record.state = "absent" /\ Report(h, c, "failed") /\ UNCHANGED budget
              \/ record.state # "absent" /\ Report(h, c, "failed") /\ Spend("faults")
              \/ /\ record.state # "absent" /\ ~RequiresCleanup(record.state)
                 /\ Report(h, c, "recovered") /\ UNCHANGED budget
              \/ /\ RequiresCleanup(record.state)
                 /\ rec' = [rec EXCEPT ![h] = [@ EXCEPT !.pc = "undo", !.tx = c.tx,
                                                         !.copy = record]]
                 /\ UNCHANGED budget
  /\ UNCHANGED <<world, serverVars, hostVars, conn, connect, scan, history>>

\* Everything it recognises is tried, also after a failure; or the client has
\* gone, and with the context of its request every command fails.
CleanUndoes(h) ==
  /\ rec[h].pc = "undo"
  /\ LET copy   == rec[h].copy
         c      == Candidate("transaction-state", rec[h].tx)
         known  == {e \in copy.entries : Recognised(e)}
         broken == {e \in known : ~ToolWorks(Tool(e))}
     IN  \E stays \in FailsToUndo(known), fault \in BOOLEAN :
           /\ stays # {} => fault
           /\ SpendIf(fault)
           /\ Undo(known \ (broken \cup stays))
           /\ \/ (fault \/ broken # {}) /\ Report(h, c, "failed")
              \/ ~fault /\ broken = {} /\ SkippedOf(copy) /\ Report(h, c, "skipped")
              \/ /\ ~fault /\ broken = {} /\ ~SkippedOf(copy)
                 /\ rec' = [rec EXCEPT ![h].pc = "remove"]
  /\ Touch(h)
  /\ UNCHANGED <<world, serverVars, records, generated, conn, connect, scan, dirty>>

\* The file goes, whatever it says by now: what a connect has saved in it since
\* it was read is in no record any more.
CleanRemoves(h) ==
  /\ rec[h].pc = "remove"
  /\ LET i == rec[h].tx
         c == Candidate("transaction-state", i)
     IN  \/ /\ SetRecord(i, NoTx)
            /\ lost' = lost \cup (net \cap (records[i].entries \ rec[h].copy.entries))
            /\ Report(h, c, "recovered") /\ UNCHANGED budget
         \/ /\ records[i].state # "absent" /\ Spend("faults")
            /\ Report(h, c, "failed") /\ UNCHANGED <<records, lost>>
  /\ Touch(h)
  /\ UNCHANGED <<world, serverVars, net, generated, conn, connect, scan, half, dirty>>

CleanCandidate(c) ==
  \/ /\ c.kind = "generated-runtime-configs"
     /\ generated' = FALSE /\ UNCHANGED <<net, lost, half>>
  \/ c.kind = "tun-interface"  /\ Undo({Link}) /\ UNCHANGED generated
  \/ c.kind = "nftables-table" /\ Undo(OfKind(net, "table")) /\ UNCHANGED generated

\* The other candidates.
CleanOther(h) ==
  /\ rec[h].pc = "clean"
  /\ \E c \in rec[h].todo :
       /\ c.kind # "transaction-state" /\ First(h, c)
       /\ \/ CleanCandidate(c) /\ Report(h, c, "recovered") /\ UNCHANGED budget
          \/ /\ c.kind # "generated-runtime-configs" /\ Spend("faults")
             /\ Report(h, c, "failed") /\ UNCHANGED <<net, generated, lost, half>>
  /\ Touch(h)
  /\ UNCHANGED <<world, serverVars, records, conn, connect, scan, dirty>>

\* BUG: Refresh keeps what the recover started from.
RefreshScansFirst(h) ==
  /\ rec[h].pc = "clean" /\ rec[h].todo = {}
  /\ rec' = [rec EXCEPT ![h].pc = "store"]
  /\ UNCHANGED <<world, serverVars, hostVars, conn, connect, scan, budget, history>>

\* Refresh scans before it takes its mutex.
RefreshScans(h) ==
  /\ rec[h].pc = "clean" /\ rec[h].todo = {}
  /\ rec' = [rec EXCEPT ![h].pc = "store", ![h].scan = RecoveryScan]
  /\ UNCHANGED <<world, serverVars, hostVars, conn, connect, scan, budget, history>>

RefreshStores(h) ==
  /\ rec[h].pc = "store"
  /\ scan' = [scan EXCEPT ![rec[h].by] = rec[h].scan]
  /\ rec' = [rec EXCEPT ![h].pc = "done"]
  /\ Touch(h)
  /\ UNCHANGED <<world, serverVars, hostVars, conn, connect, budget, lost, half, dirty>>

Respond(h) ==
  /\ rec[h].pc = "done"
  /\ rec' = [rec EXCEPT ![h] = NoRecover] /\ touched' = touched \ {h}
  /\ UNCHANGED <<world, serverVars, hostVars, conn, connect, scan, budget, lost, half, dirty>>

HasFailures(results) == \E r \in results : r.status = "failed"

\* BUG: what was skipped is not counted.
NeverIncomplete(results) == FALSE
HasIncompleteCleanup(results) ==
  \E r \in results : r.status = "skipped" /\ r.candidate.kind = "transaction-state"

\* The exit code of `podlaz recover --execute`.
ExitCode(results) == IF HasFailures(results) \/ HasIncompleteCleanup(results) THEN 1 ELSE 0

-----------------------------------------------------------------------------
(* Server.Run, from the last request on.                                   *)

\* BUG: the daemon stops and leaves its connection as it is.
StopLeavesConnection(d) ==
  /\ phase[d] = "serving" /\ phase' = [phase EXCEPT ![d] = "stopping"]
  /\ UNCHANGED <<world, lock, socket, wiped, hostVars, handlers, budget, history>>

\* Disconnect, called by Run.  A connect that is under way goes on.
DisconnectAtEnd(d) ==
  IF connect.by = d
  THEN /\ conn' = [conn EXCEPT ![d] = Inactive]
       /\ dirty' = TRUE
       /\ UNCHANGED <<hostVars, budget, touched, lost, half>>
  ELSE DisconnectOf(d)

\* A signal: Disconnect first, and new requests are served meanwhile.
Stop(d) ==
  /\ phase[d] = "serving" /\ phase' = [phase EXCEPT ![d] = "stopping"]
  /\ DisconnectAtEnd(d)
  /\ UNCHANGED <<world, lock, socket, wiped, connect, rec, scan>>

\* Serve returns an error of its own.
ServeFails(d) ==
  /\ phase[d] = "serving" /\ budget.faults > 0
  /\ phase' = [phase EXCEPT ![d] = "broken"]
  /\ DisconnectAtEnd(d)
  /\ UNCHANGED <<world, lock, socket, wiped, connect, rec, scan>>

\* http.Server.Shutdown closes the listener, which unlinks the socket, and
\* waits five seconds for the handlers that still run.
CloseListener(d) ==
  /\ phase[d] = "stopping" /\ phase' = [phase EXCEPT ![d] = "closed"]
  /\ socket' = None
  /\ UNCHANGED <<world, lock, wiped, hostVars, handlers, budget, history>>

Ended(d) == CASE phase[d] = "cut" -> "failed"
              [] phase[d] = "unlinked" /\ IsUnit(d) -> "exited"
              [] OTHER -> "off"

\* BUG: the deferred calls run in the order they were registered.
UnwindLockFirst(d) ==
  \/ /\ phase[d] \in {"closed", "broken"}
     /\ lock' = None
     /\ phase' = [phase EXCEPT ![d] = IF phase[d] = "closed" THEN "unlinked" ELSE "cut"]
     /\ UNCHANGED <<world, socket, wiped, hostVars, handlers, budget, history>>
  \/ /\ phase[d] \in {"unlinked", "cut"}
     /\ socket' = None /\ phase' = [phase EXCEPT ![d] = Ended(d)]
     /\ EndProcess(d)
     /\ UNCHANGED <<world, lock, wiped, hostVars, scan, budget, dirty>>

\* Handlers that still run after the five seconds make Run return an error,
\* which systemd takes for a failure unless it has sent the signal itself.
Busy(d) == connect.by = d \/ \E h \in Recovers : rec[h].by = d

\* The deferred calls: the socket, then the lock, and the process ends.
Unwind(d) ==
  \/ /\ phase[d] \in {"closed", "broken"}
     /\ socket' = None
     /\ \E next \in {"unlinked", "cut"} :
          /\ next = "unlinked" => phase[d] = "closed"
          /\ next = "cut" => phase[d] = "broken" \/ Busy(d)
          /\ phase' = [phase EXCEPT ![d] = next]
     /\ UNCHANGED <<world, lock, wiped, hostVars, handlers, budget, history>>
  \/ /\ phase[d] \in {"unlinked", "cut"}
     /\ lock' = None /\ phase' = [phase EXCEPT ![d] = Ended(d)]
     /\ EndProcess(d)
     /\ UNCHANGED <<world, socket, wiped, hostVars, scan, budget, dirty>>

\* BUG: the handlers of the daemon outlive it.
CrashKeepsHandlers(d) ==
  /\ Running(d) /\ Spend("crashes")
  /\ phase' = [phase EXCEPT ![d] = "failed"] /\ dirty' = TRUE
  /\ UNCHANGED <<world, lock, socket, wiped, hostVars, handlers, touched, lost, half>>

\* The lock file, the socket and the records stay.
Crash(d) ==
  /\ Running(d) /\ Spend("crashes")
  /\ phase' = [phase EXCEPT ![d] = "failed"] /\ dirty' = TRUE
  /\ EndProcess(d)
  /\ UNCHANGED <<world, lock, socket, wiped, hostVars, scan>>

\* BUG: the lock is not in the runtime directory.
UnitEndsKeepsLock(d) ==
  /\ IsUnit(d) /\ phase[d] \in {"exited", "failed"}
  /\ phase' = [phase EXCEPT ![d] = IF phase[d] = "failed" THEN "starting" ELSE "off"]
  /\ socket' = None /\ records' = [i \in Ids |-> NoTx] /\ generated' = FALSE
  /\ wiped' = (wiped \/ \E e \in Daemons \ {d} : Running(e))
  /\ lost' = net
  /\ Touch(None)
  /\ UNCHANGED <<world, lock, net, handlers, budget, half, dirty>>

\* RuntimeDirectory=podlaz: systemd empties the directory when the process of
\* the unit has ended.  Restart=on-failure: it starts a failed one again.
UnitEnds(d) ==
  /\ IsUnit(d) /\ phase[d] \in {"exited", "failed"}
  /\ phase' = [phase EXCEPT ![d] = IF phase[d] = "failed" THEN "starting" ELSE "off"]
  /\ lock' = None /\ socket' = None
  /\ records' = [i \in Ids |-> NoTx] /\ generated' = FALSE
  /\ wiped' = (wiped \/ \E e \in Daemons \ {d} : Running(e))
  /\ lost' = net
  /\ Touch(None)
  /\ UNCHANGED <<world, net, handlers, budget, half, dirty>>

\* A user removes the lock file that a crash left.
ClearStaleLock ==
  /\ lock # None /\ ~Running(lock)
  /\ lock' = None
  /\ UNCHANGED <<world, phase, socket, wiped, hostVars, handlers, budget, history>>

Next ==
  \/ \E d \in Daemons :
       \/ Start(d) \/ TakeLock(d) \/ ScanAtStartup(d) \/ RemoveStaleSocket(d) \/ Listen(d)
       \/ ConnectProxyOnly(d) \/ ConnectTun(d) \/ Disconnect(d)
       \/ Stop(d) \/ ServeFails(d) \/ CloseListener(d) \/ Unwind(d)
       \/ Crash(d) \/ UnitEnds(d)
       \/ \E h \in Recovers : RecoverStart(h, d)
  \/ \E h \in Recovers : \/ CleanLoads(h) \/ CleanUndoes(h) \/ CleanRemoves(h) \/ CleanOther(h)
                         \/ RefreshScans(h) \/ RefreshStores(h) \/ Respond(h)
  \/ Apply \/ ApplyFails \/ RecordApplied \/ RecordFails \/ LoadFails \/ VerifyPlan
  \/ StartChildren \/ Commit \/ ConnectFails
  \/ ClearStaleLock

\* systemd and a process that starts go on; users need not do anything.
Fairness ==
  \A d \in Daemons : /\ WF_vars(UnitEnds(d)) /\ WF_vars(TakeLock(d))
                     /\ WF_vars(ScanAtStartup(d)) /\ WF_vars(RemoveStaleSocket(d))
                     /\ WF_vars(Listen(d))

Spec == Init /\ [][Next]_vars
FairSpec == Spec /\ Fairness

-----------------------------------------------------------------------------
(* Properties.                                                             *)

\* What each variable holds; a handler belongs to a daemon that runs, and so
\* does a connection (the handlers of server.go end with their process).
TypeOK ==
  /\ phase \in [Daemons -> Phases] /\ lock \in Daemons \cup {None}
  /\ socket \in Daemons \cup {None, "file"} /\ wiped \in BOOLEAN
  /\ \A i \in Ids : records[i].state \in FileStates
  /\ \A d \in Daemons : conn[d] # Inactive => Running(d)
  /\ connect.pc # "idle" => Running(connect.by)
  /\ \A h \in InFlight : Running(rec[h].by)

\* Two daemons never run on one runtime directory, as long as systemd does not
\* empty it under one of them (the O_EXCL lock of server.go).
OneServer == ~wiped => \A d, e \in Daemons : Running(d) /\ Running(e) => d = e

\* The socket that clients find belongs to the daemon that serves: no other
\* daemon, starting or ending, has taken it away (removeStaleSocket, the
\* deferred calls of Run).
SocketIsServers == ~wiped => \A d \in Daemons : Accepts(d) => socket = d

\* On a host that has what it takes the plan has a bypass and can be applied,
\* and once a plan with a bypass is applied, whatever was left on the host
\* before, the server is reached on the uplink and everything else only through
\* the tunnel, as long as no recover interferes (collect.go, tun.go).
PlanCarriesTraffic ==
  connect.pc # "idle" /\ "connect" \notin touched =>
    /\ connect.pc = "apply" /\ Healthy(Host) /\ net = {} =>
         connect.plan.bypass # "" /\ Applies(connect.plan, Host, net)
    /\ connect.pc # "apply" /\ connect.plan.bypass # "" => Tunnelled(Host, net)

\* Every entry on the host is in the record of a transaction that does not say
\* it is undone, or about to be written to one: no disconnect, failed connect or
\* recover forgets one, whatever fails in it (tun_transaction.go,
\* daemon_executor.go).  What is forgotten is what a step that failed half-way
\* has made (half), and (lost) what a process or the directory took with it,
\* what a connect that could not write its record has done, and what a connect
\* had saved in a record that a recover had read before and removes after.
NothingForgotten ==
  net \subseteq (UNION {records[i].entries : i \in {j \in Ids : records[j].state # "rolled_back"}})
                  \cup Unrecorded \cup lost \cup half

\* A recover that nothing has disturbed, with working tools and no failure,
\* leaves of the records it went through only DNS settings and a bypass route
\* without a gateway, and nothing it can find on the host.
RecoverDoesAllItCan ==
  \A h \in InFlight :
    rec[h].pc = "done" /\ h \notin touched /\ ~HasFailures(rec[h].results)
      /\ Host.ip = "ok" /\ Host.nft = "ok" =>
      /\ Link \notin net /\ OfKind(net, "table") = {}
      /\ \A i \in Ids : RequiresCleanup(records[i].state) =>
           \A e \in net \cap records[i].entries :
             e.kind = "dns" \/ (e.kind = "route" /\ e.via = "")

\* A recover that nothing has disturbed and that exits with 0 leaves no
\* candidate, and status and doctor say so (recover_cli.go, server.go).
RecoverOkMeansClean ==
  \A h \in InFlight :
    rec[h].pc = "done" /\ h \notin touched /\ ExitCode(rec[h].results) = 0
      => scan[rec[h].by].found = {}

\* When a recover that nothing has disturbed answers, the scan that status and
\* doctor show is that of the host as it is (startupScan.Refresh).
ScanIsCurrent ==
  \A h \in InFlight :
    rec[h].pc = "done" /\ h \notin touched => scan[rec[h].by] = RecoveryScan

\* When every daemon has ended, and no crash, failed rollback or late connect
\* came in between, no record asks for a recovery, committed ones included, and
\* of podlaz only what NothingForgotten allows for is left on the host
\* (server.go, tun_transaction_rollback.go).
CleanExit ==
  (\A d \in Daemons : ~Running(d)) /\ ~dirty =>
    /\ net \subseteq lost \cup half
    /\ \A i \in Ids : records[i].state \in {"absent", "rolled_back"}

\* systemd brings a failed unit back, whatever file the last daemon left or
\* holds: a stale lock, a stale socket, the lock of a daemon started by hand.
UnitServesAgain ==
  \A d \in Daemons : IsUnit(d) /\ phase[d] = "failed" ~> phase[d] = "serving"
=============================================================================

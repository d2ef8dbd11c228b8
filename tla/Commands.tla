------------------------------ MODULE Commands ------------------------------
(***************************************************************************)
(* What the commands of `podlaz` make of the daemon.  `status`, `doctor`   *)
(* and `recover` without --execute only read; they are operators over the  *)
(* state of Daemon.  `check` starts a connection of its own, probes it and *)
(* takes it down again, in three requests with the daemon and other users  *)
(* at work in between.                                                     *)
(***************************************************************************)
EXTENDS Daemon

VARIABLES
  check,   \* runDefaultProfileCheck: where it is, what it has reported last
  holder   \* who made the connection of each daemon, for which profile

client == <<check, holder>>
cvars  == <<vars, client>>

Checked == "checked"   \* the profile that is checked; W.profiles are those that users connect

Nobody  == [by |-> "nobody", profile |-> "none"]
NoCheck == [pc |-> "idle", result |-> "none", left |-> 0, overtaken |-> FALSE]

CommandsInit ==
  /\ Init
  /\ check = [NoCheck EXCEPT !.left = W.checks]
  /\ holder = [d \in Daemons |-> Nobody]

-----------------------------------------------------------------------------
(* What the readers are told.                                              *)

Reachable(d) == socket = d /\ Accepts(d)
Active(d)    == conn[d].mode # "none"
Pending      == {i \in Ids : RequiresCleanup(records[i].state)}

\* FromDaemon and HasUnhealthyState; the plan of an active TUN connection
\* always carries a warning.
ScanDirty(d)    == scan[d].found # {} \/ scan[d].warnings
PlanWarns(d)    == conn[d].mode = "tun"
\* BUG: the records are not read again, only the scan is shown.
ShowsScanOnly(d) == ScanDirty(d) \/ PlanWarns(d)
HasUnhealthyState(d) == ScanDirty(d) \/ PlanWarns(d) \/ Pending # {}

activeDaemonWarningOnlyStatus(d) ==
  Active(d) /\ ~ScanDirty(d) /\ Pending = {} /\ PlanWarns(d)

\* Without a daemon whatever is in the runtime directory, and the directory
\* itself, is stale; an empty directory is taken for a missing one.
InspectFindsNothing == lock = None /\ socket = None /\ ~generated
                         /\ \A i \in Ids : records[i].state = "absent"

StatusExitsOk ==
  IF \E d \in Daemons : Reachable(d)
  THEN \A d \in Daemons :
         Reachable(d) => ~HasUnhealthyState(d) \/ activeDaemonWarningOnlyStatus(d)
  ELSE InspectFindsNothing

\* staleResources and the checks of the manager: a daemon that cannot be
\* reached is a warning, and so is what the routes of TUN mode depend on.
DoctorQuiet ==
  /\ Host.ip = "ok" /\ Host.nft = "ok"
  /\ Link \notin net /\ OfKind(net, "table") = {} /\ Pending = {}
  /\ \E d \in Daemons : Reachable(d) /\ ~ScanDirty(d) /\ ~PlanWarns(d)

\* `podlaz recover`: its own scan and that of the daemon.
DryRunQuiet ==
  /\ RecoveryScan = NoScan
  /\ \A d \in Daemons : Reachable(d) => ~ScanDirty(d)

-----------------------------------------------------------------------------
(* podlaz check.  The checked profile is renderable; the probes change     *)
(* nothing.                                                                *)

Ends(result) == check' = [check EXCEPT !.pc = "idle", !.result = result, !.overtaken = FALSE]
At(pc)       == check' = [check EXCEPT !.pc = pc]
Unreachable  == \A d \in Daemons : ~Reachable(d)

CheckStarts ==
  /\ check.pc = "idle" /\ check.left > 0
  /\ check' = [NoCheck EXCEPT !.pc = "look", !.left = check.left - 1]
  /\ UNCHANGED <<vars, holder>>

\* The first status: a connection that is there is left alone.
CheckLooks ==
  /\ check.pc = "look"
  /\ \/ Unreachable /\ Ends("failed")
     \/ \E d \in Daemons : Reachable(d) /\ IF Active(d) THEN Ends("skipped") ELSE At("connect")
  /\ UNCHANGED <<vars, holder>>

CheckConnects(d) ==
  /\ check.pc = "connect" /\ Reachable(d) /\ ConnectProxyOnly(d)
  /\ holder' = [holder EXCEPT ![d] = [by |-> "check", profile |-> Checked]]
  /\ \/ At("probe")
     \* The answer is late: the handler does not look at its context.
     \/ budget.faults > 0 /\ Ends("failed")

CheckRefused ==
  /\ check.pc = "connect"
  /\ \/ Unreachable
     \/ \E d \in Daemons : Reachable(d) /\
          (conn[d] # Inactive \/ "connect-proxy-only" \notin W.grants)
  /\ Ends("failed")
  /\ UNCHANGED <<vars, holder>>

\* BUG: any active proxy-only connection is taken for the temporary one.
MatchesAnyProfile(d) == conn[d].mode = "proxy-only"
\* The file of the config and the listeners are the same for every profile.
Matches(d) == conn[d].mode = "proxy-only" /\ holder[d].profile = Checked

\* The second status.
CheckLooksAgain ==
  /\ check.pc = "probe"
  /\ \/ Unreachable /\ Ends("warned")
     \/ \E d \in Daemons : Reachable(d) /\ IF Matches(d) THEN At("disconnect") ELSE Ends("warned")
  /\ UNCHANGED <<vars, holder>>

Undone(d) ==
  conn[d].mode = "tun" => /\ records[conn[d].tx].state # "absent"
                          /\ records'[conn[d].tx].state = "absent"
CheckDisconnects(d) ==
  /\ check.pc = "disconnect" /\ Reachable(d) /\ Disconnect(d)
  /\ Ends(IF Undone(d) THEN "ok" ELSE "warned")
  /\ UNCHANGED holder

\* BUG: a cleanup that could not be done is no warning.
DisconnectErrorIgnored ==
  /\ check.pc = "disconnect"
  /\ \/ Unreachable /\ Ends("ok")
     \/ \E d \in Daemons : /\ Reachable(d) /\ Ends("ok")
                           /\ conn[d] = Inactive \/ "disconnect" \notin W.grants
  /\ UNCHANGED <<vars, holder>>

\* Nothing to disconnect is a success.
CheckDisconnectsNothing ==
  /\ check.pc = "disconnect"
  /\ \/ Unreachable /\ Ends("warned")
     \/ \E d \in Daemons : /\ Reachable(d)
                           /\ \/ "disconnect" \notin W.grants /\ Ends("warned")
                              \/ "disconnect" \in W.grants /\ conn[d] = Inactive /\ Ends("ok")
  /\ UNCHANGED <<vars, holder>>

\* podlaz handles no signal.
CheckKilled ==
  /\ check.pc # "idle" /\ Ends("killed")
  /\ UNCHANGED <<vars, holder>>

-----------------------------------------------------------------------------
(* Everybody else.                                                         *)

\* History: what the check saw last has changed before it disconnects.
Overtaken == check' = IF check.pc = "disconnect" /\ (conn' # conn \/ socket' # socket)
                      THEN [check EXCEPT !.overtaken = TRUE] ELSE check
Meanwhile == Overtaken /\ UNCHANGED holder

UserConnects(d, p) ==
  /\ holder' = [holder EXCEPT ![d] = [by |-> "user", profile |-> p]]
  /\ Overtaken

CommandsNext ==
  \/ CheckStarts \/ CheckLooks \/ CheckRefused \/ CheckLooksAgain
  \/ CheckDisconnectsNothing \/ CheckKilled
  \/ \E d \in Daemons : CheckConnects(d) \/ CheckDisconnects(d)
  \/ \E d \in Daemons, p \in W.profiles : \/ ConnectProxyOnly(d) /\ UserConnects(d, p)
                                          \/ ConnectTun(d) /\ UserConnects(d, p)
  \/ \E d \in Daemons :
       \/ Start(d) /\ Meanwhile
       \/ TakeLock(d) /\ Meanwhile
       \/ ScanAtStartup(d) /\ Meanwhile
       \/ RemoveStaleSocket(d) /\ Meanwhile
       \/ Listen(d) /\ Meanwhile
       \/ Disconnect(d) /\ Meanwhile
       \/ Stop(d) /\ Meanwhile
       \/ ServeFails(d) /\ Meanwhile
       \/ CloseListener(d) /\ Meanwhile
       \/ Unwind(d) /\ Meanwhile
       \/ Crash(d) /\ Meanwhile
       \/ UnitEnds(d) /\ Meanwhile
       \/ \E h \in Recovers : RecoverStart(h, d) /\ Meanwhile
  \/ \E h \in Recovers :
       \/ CleanLoads(h) /\ Meanwhile
       \/ CleanUndoes(h) /\ Meanwhile
       \/ CleanRemoves(h) /\ Meanwhile
       \/ CleanOther(h) /\ Meanwhile
       \/ RefreshScans(h) /\ Meanwhile
       \/ RefreshStores(h) /\ Meanwhile
       \/ Respond(h) /\ Meanwhile
  \/ Apply /\ Meanwhile
  \/ ApplyFails /\ Meanwhile
  \/ RecordApplied /\ Meanwhile
  \/ RecordFails /\ Meanwhile
  \/ LoadFails /\ Meanwhile
  \/ VerifyPlan /\ Meanwhile
  \/ StartChildren /\ Meanwhile
  \/ Commit /\ Meanwhile
  \/ ConnectFails /\ Meanwhile
  \/ ClearStaleLock /\ Meanwhile

CommandsSpec == CommandsInit /\ [][CommandsNext]_cvars /\ Fairness

-----------------------------------------------------------------------------
(* Properties.                                                             *)

\* When status exits with 0, when doctor has no warning about podlaz or when a
\* dry run of recover lists nothing, every entry on the host is that of a
\* committed record, is about to be recorded, or is one that NothingForgotten
\* allows for, of a step that failed half-way or lost: what a failed rollback,
\* disconnect or recover has left is shown by all three, however old the scan
\* of the daemon is (status.go, stale_resources.go, recover_cli.go).
ReportsMissNothing ==
  StatusExitsOk \/ DoctorQuiet \/ DryRunQuiet =>
    net \subseteq (UNION {records[i].entries : i \in {j \in Ids : records[j].state = "committed"}})
                    \cup Unrecorded \cup lost \cup half

\* A check that reports no trouble has left no connection of its own, whatever
\* the daemon and the other users did in the meantime, as long as the directory
\* stays (runDefaultProfileCheck, cleanupMatchingTemporaryProxy).
CheckLeavesNoProxy ==
  check.pc = "idle" /\ check.result = "ok" /\ ~wiped =>
    \A d \in Daemons : conn[d] # Inactive => holder[d].by # "check"

\* The connection that a check takes down is its own, or one that it cannot
\* tell from its own, proxy-only to the same profile, unless it came after the
\* last look; a TUN connection or one to another profile that was there at that
\* look is never touched (cleanupMatchingTemporaryProxy).
CheckSparesOthers ==
  [][\A d \in Daemons : CheckDisconnects(d) =>
       \/ check.overtaken
       \/ conn[d].mode = "proxy-only" /\ holder[d].profile = Checked]_cvars
=============================================================================

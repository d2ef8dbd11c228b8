-------------------------- MODULE Commands_proofs --------------------------
(***************************************************************************)
(* The daemon together with `podlaz check` and other users.  Commands adds *)
(* to Daemon who has made a connection and how far a check is, so whatever *)
(* holds of Daemon holds here too; what a check promises follows from an   *)
(* invariant on both.                                                      *)
(***************************************************************************)
EXTENDS Commands, DaemonHost_proofs

USE DEF Running, Accepts, IsRecord, IsPlan, IsConnect, IsRecover

-----------------------------------------------------------------------------
(* Every step of the commands is a step of the daemon, or none at all.     *)

LEMMA CommandsStep == [CommandsNext]_cvars => [Next]_vars
<1> SUFFICES ASSUME [CommandsNext]_cvars PROVE [Next]_vars
  OBVIOUS
<1>1. CASE \/ CheckStarts \/ CheckLooks \/ CheckRefused \/ CheckLooksAgain
           \/ CheckDisconnectsNothing \/ CheckKilled \/ UNCHANGED cvars
  BY <1>1 DEF CheckStarts, CheckLooks, CheckRefused, CheckLooksAgain,
     CheckDisconnectsNothing, CheckKilled, cvars
<1>2. CASE \/ \E d \in Daemons : CheckConnects(d) \/ CheckDisconnects(d)
           \/ \E d \in Daemons, p \in W.profiles : \/ ConnectProxyOnly(d) /\ UserConnects(d, p)
                                                   \/ ConnectTun(d) /\ UserConnects(d, p)
  BY <1>2 DEF Next, CheckConnects, CheckDisconnects
<1> QED
  BY <1>1, <1>2, Zenon DEF CommandsNext, Next

\* The commands use the daemon as Daemon has it, with the same fairness.
THEOREM CommandsUseDaemon == CommandsSpec => FairSpec
<1>1. CommandsInit => Init
  BY DEF CommandsInit
<1> QED
  BY <1>1, CommandsStep, PTL DEF CommandsSpec, FairSpec, Spec

\* What is proved of the daemon also holds when a check and other users are at
\* work.
THEOREM DaemonKeepsPromises ==
  CommandsSpec => [](/\ TypeOK /\ OneServer /\ SocketIsServers /\ NothingForgotten /\ ScanIsCurrent
                     /\ PlanCarriesTraffic /\ RecoverDoesAllItCan /\ RecoverOkMeansClean
                     /\ CleanExit)
<1> QED
  BY CommandsUseDaemon, TypesAlways, OneServerAlways, SocketIsServersAlways,
     NothingForgottenAlways, ScanIsCurrentAlways, PlanCarriesTrafficAlways,
     RecoverDoesAllItCanAlways, RecoverOkMeansCleanAlways, CleanExitAlways, PTL DEF FairSpec

-----------------------------------------------------------------------------
(* What the readers are told.                                              *)

Asleep(r) == r = NoTx \/ r.state \in {"committed", "rolled_back"}

\* A record that no command has to clean up is that of a commit or of a
\* rollback, or none.
LEMMA CleanRecords ==
  ASSUME Shaped, NEW i \in Ids, ~RequiresCleanup(records[i].state)
  PROVE  Asleep(records[i])
BY DEF Shaped, Fits, Present, Asleep, RequiresCleanup, TxStates

\* Each of the three looks at the records for itself: none asks for a cleanup.
LEMMA QuietMeansClean ==
  ASSUME Shaped, StatusExitsOk \/ DoctorQuiet \/ DryRunQuiet
  PROVE  \A i \in Ids : Asleep(records[i])
<1>1. CASE Pending = {}
  BY <1>1, CleanRecords DEF Pending
<1>2. CASE StatusExitsOk
  <2>1. CASE \E d \in Daemons : Reachable(d)
    BY <1>1, <1>2, <2>1 DEF StatusExitsOk, HasUnhealthyState, activeDaemonWarningOnlyStatus
  <2>2. CASE InspectFindsNothing
    BY <2>2, CleanRecords DEF InspectFindsNothing, RequiresCleanup, TxStates
  <2> QED
    BY <1>2, <2>1, <2>2 DEF StatusExitsOk
<1>3. CASE DoctorQuiet
  BY <1>1, <1>3 DEF DoctorQuiet
<1>4. CASE DryRunQuiet
  <2>1. RecoveryScan.found = {}
    BY <1>4 DEF DryRunQuiet, NoScan
  <2>2. \A i \in Ids : RequiresCleanup(records[i].state) =>
                         Candidate("transaction-state", i) \in RecoveryScan.found
    BY DEF RecoveryScan
  <2> QED
    BY <2>1, <2>2, CleanRecords
<1> QED
  BY <1>2, <1>3, <1>4

\* When status exits with 0, when doctor has no warning or when a dry run of
\* recover lists nothing, whatever is on the host is that of a committed record
\* or about to be recorded, but for what a step that failed half-way has made
\* and what lost its record: they read the records again, so that what a failed
\* connect, disconnect or recover has left shows, and do not rely on the scan of
\* the daemon (status.go, stale_resources.go, recover_cli.go).
THEOREM ReportsMissNothingAlways == CommandsSpec => []ReportsMissNothing
<1>1. Books /\ Shaped => ReportsMissNothing
  <2> DEFINE Committed == UNION {records[i].entries : i \in {j \in Ids : records[j].state = "committed"}}
  <2> SUFFICES ASSUME Books, Shaped, StatusExitsOk \/ DoctorQuiet \/ DryRunQuiet
               PROVE  net \subseteq Committed \cup Unrecorded \cup lost \cup half
    BY Zenon DEF ReportsMissNothing
  <2>1. ASSUME NEW e \in net, e \notin Unrecorded \cup lost \cup half
        PROVE  e \in Committed
    <3>1. PICK i \in Ids : e \in records[i].entries /\ records[i].state # "rolled_back"
      BY <2>1 DEF Books, Covered, Names
    <3>2. records[i] # NoTx
      BY <3>1 DEF NoTx
    <3> QED
      BY <3>1, <3>2, QuietMeansClean DEF Asleep
  <2> QED
    BY <2>1
<1> QED
  BY <1>1, CommandsUseDaemon, KeptAlways, PTL DEF FairSpec, Kept

-----------------------------------------------------------------------------
(* What a check knows.  A connection that is under way is a user's, so one *)
(* of the check's is there from its connect on; and what was seen at the   *)
(* last look is still there unless the check was overtaken.                *)

IsCheck(c) == c = [pc |-> c.pc, result |-> c.result, left |-> c.left, overtaken |-> c.overtaken]

Client ==
  /\ IsCheck(check)
  /\ DOMAIN holder = Daemons
  /\ connect.pc # "idle" => holder[connect.by].by = "user"
  /\ CheckLeavesNoProxy
  /\ check.pc = "disconnect" /\ ~check.overtaken =>
       \A d \in Daemons : socket = d => Matches(d)

\* The invariants of the daemon that the two promises rest on.
Served == LockHeld /\ Books /\ Known /\ Owners

LEMMA ServedInit == CommandsInit => Served
BY LockInit, BooksInit, KnownInit, OwnersInit DEF CommandsInit, Served

LEMMA ServedNext == Served /\ [CommandsNext]_cvars => Served'
BY CommandsStep, LockNext, BooksNext, KnownNext, OwnersNext DEF Served

LEMMA ClientInit == CommandsInit => Client
<1> SUFFICES ASSUME CommandsInit PROVE Client
  OBVIOUS
<1>1. check = [pc |-> "idle", result |-> "none", left |-> W.checks, overtaken |-> FALSE]
  BY DEF CommandsInit, NoCheck
<1>2. DOMAIN holder = Daemons /\ connect.pc = "idle"
  BY IdleHandlers DEF CommandsInit, Init, Idle
<1> QED
  BY <1>1, <1>2 DEF Client, IsCheck, CheckLeavesNoProxy

\* Only one daemon has a connection, as long as the directory stays.
LEMMA OneConnection ==
  ASSUME Served, ~wiped, NEW d \in Daemons, NEW e \in Daemons,
         Accepts(d), conn[e] # Inactive
  PROVE  d = e
BY DEF Served, LockHeld, Owners, Owned, Up, Accepts, Running

\* Where a check gets to.
LEMMA CheckMoves ==
  ASSUME Client
  PROVE  /\ \A pc : At(pc) => IsCheck(check)' /\ check'.pc = pc
         /\ \A r : Ends(r) => IsCheck(check)' /\ check'.pc = "idle" /\ check'.result = r
BY DEF Client, IsCheck, At, Ends

\* A step of the check that does nothing to the daemon.
LEMMA ClientLooks ==
  ASSUME Served, Client, UNCHANGED <<vars, holder>>, IsCheck(check)',
         check'.pc = "idle" /\ check'.result = "ok" =>
           \A d \in Daemons : conn[d] = Inactive \/ wiped,
         check'.pc = "disconnect" => \A d \in Daemons : socket = d => Matches(d)
  PROVE  Client'
BY DEF Client, CheckLeavesNoProxy, Matches, vars, serverVars, handlers

LEMMA ClientCheckStarts ==
  ASSUME Served, Client, CheckStarts PROVE Client'
<1>1. check' = [pc |-> "look", result |-> "none", left |-> check.left - 1, overtaken |-> FALSE]
  BY DEF CheckStarts, NoCheck
<1>2. UNCHANGED <<vars, holder>>
  BY DEF CheckStarts
<1> QED
  BY <1>1, <1>2, ClientLooks DEF IsCheck

LEMMA ClientCheckLooks ==
  ASSUME Served, Client, CheckLooks \/ CheckRefused \/ CheckKilled PROVE Client'
<1>1. /\ IsCheck(check)' /\ check'.pc \in {"idle", "connect"}
      /\ check'.pc = "idle" => check'.result # "ok"
  BY CheckMoves DEF CheckLooks, CheckRefused, CheckKilled
<1>2. UNCHANGED <<vars, holder>>
  BY DEF CheckLooks, CheckRefused, CheckKilled
<1> QED
  BY <1>1, <1>2, ClientLooks

LEMMA ClientCheckLooksAgain ==
  ASSUME Served, Client, CheckLooksAgain PROVE Client'
<1>1. UNCHANGED <<vars, holder>>
  BY DEF CheckLooksAgain
<1>2. CASE Ends("warned")
  BY <1>1, <1>2, CheckMoves, ClientLooks
<1>3. CASE \E d \in Daemons : Reachable(d) /\ Matches(d) /\ At("disconnect")
  BY <1>1, <1>3, CheckMoves, ClientLooks DEF Reachable
<1> QED
  BY <1>2, <1>3 DEF CheckLooksAgain

LEMMA ClientCheckDisconnectsNothing ==
  ASSUME Served, Client, CheckDisconnectsNothing PROVE Client'
<1>1. UNCHANGED <<vars, holder>>
  BY DEF CheckDisconnectsNothing
<1>2. CASE Ends("warned")
  BY <1>1, <1>2, CheckMoves, ClientLooks
<1>3. CASE \E d \in Daemons : Reachable(d) /\ conn[d] = Inactive /\ Ends("ok")
  <2>1. PICK d \in Daemons : Reachable(d) /\ conn[d] = Inactive /\ Ends("ok")
    BY <1>3
  <2>2. \A e \in Daemons : conn[e] = Inactive \/ wiped
    <3>1. ASSUME NEW e \in Daemons, conn[e] # Inactive, ~wiped PROVE FALSE
      BY <2>1, <3>1, OneConnection DEF Reachable
    <3> QED
      BY <3>1
  <2> QED
    BY <1>1, <2>1, <2>2, CheckMoves, ClientLooks
<1> QED
  BY <1>2, <1>3 DEF CheckDisconnectsNothing

LEMMA ClientCheckConnects ==
  ASSUME Served, Client, NEW d \in Daemons, CheckConnects(d) PROVE Client'
<1>1. /\ connect.pc = "idle" /\ UNCHANGED connect
      /\ holder' = [holder EXCEPT ![d] = [by |-> "check", profile |-> Checked]]
      /\ At("probe") \/ Ends("failed")
  BY DEF CheckConnects, ConnectProxyOnly
<1>2. IsCheck(check)' /\ check'.pc \in {"probe", "idle"} /\ (check'.pc = "idle" => check'.result = "failed")
  BY <1>1, CheckMoves
<1> QED
  BY <1>1, <1>2 DEF Client, CheckLeavesNoProxy

LEMMA ClientCheckDisconnects ==
  ASSUME Served, Client, NEW d \in Daemons, CheckDisconnects(d) PROVE Client'
<1>1. /\ Accepts(d) /\ conn' = [conn EXCEPT ![d] = Inactive] /\ DOMAIN conn = Daemons
      /\ UNCHANGED <<connect, holder, wiped>>
  BY DEF CheckDisconnects, Reachable, Disconnect, DisconnectOf, serverVars, Served, Owners
<1>2. IsCheck(check)' /\ check'.pc = "idle"
  BY CheckMoves DEF CheckDisconnects
<1>3. ~wiped => \A e \in Daemons : conn'[e] = Inactive
  BY <1>1, OneConnection
<1> QED
  BY <1>1, <1>2, <1>3 DEF Client, CheckLeavesNoProxy

-----------------------------------------------------------------------------
(* What the daemon and other users do meanwhile.                           *)

\* The check is told that it was overtaken, and nothing else.
LEMMA OvertakenMoves ==
  ASSUME Client, Overtaken
  PROVE  /\ IsCheck(check)' /\ check'.pc = check.pc /\ check'.result = check.result
         /\ check'.pc = "disconnect" /\ ~check'.overtaken =>
              ~check.overtaken /\ UNCHANGED <<conn, socket>>
BY DEF Client, IsCheck, Overtaken

\* A user connects only where nothing is connected.
LEMMA ClientUserConnects ==
  ASSUME Served, Client, NEW d \in Daemons, NEW p, UserConnects(d, p),
         ConnectProxyOnly(d) \/ ConnectTun(d)
  PROVE  Client'
<1>1. /\ holder' = [holder EXCEPT ![d] = [by |-> "user", profile |-> p]] /\ Overtaken
      /\ conn[d] = Inactive /\ UNCHANGED <<socket, wiped>>
      /\ \A e \in Daemons \ {d} : conn'[e] = conn[e]
  BY DEF UserConnects, ConnectProxyOnly, ConnectTun, serverVars, Served, Owners
<1>2. connect'.pc # "idle" => connect'.by = d
  BY DEF ConnectProxyOnly, ConnectTun
<1>3. DOMAIN holder' = Daemons /\ (connect'.pc # "idle" => holder'[connect'.by].by = "user")
  BY <1>1, <1>2 DEF Client
<1>4. CheckLeavesNoProxy'
  BY <1>1, OvertakenMoves DEF Client, CheckLeavesNoProxy
<1>5. ASSUME check'.pc = "disconnect", ~check'.overtaken, NEW e \in Daemons, socket' = e
      PROVE  Matches(e)'
  <2>1. ~check.overtaken /\ check.pc = "disconnect" /\ UNCHANGED conn
    BY <1>1, <1>5, OvertakenMoves
  <2>2. Matches(e)
    BY <1>1, <1>5, <2>1 DEF Client
  <2>3. e # d
    BY <1>1, <2>2 DEF Matches, Inactive
  <2> QED
    BY <1>1, <2>1, <2>2, <2>3 DEF Matches, Client
<1> QED
  BY <1>1, <1>3, <1>4, <1>5, OvertakenMoves DEF Client

\* Everything the daemon and other users do, but to connect.
Other ==
  \/ \E d \in Daemons :
       \/ Start(d) \/ TakeLock(d) \/ ScanAtStartup(d) \/ RemoveStaleSocket(d) \/ Listen(d)
       \/ Disconnect(d) \/ Stop(d) \/ ServeFails(d) \/ CloseListener(d) \/ Unwind(d)
       \/ Crash(d) \/ UnitEnds(d) \/ \E h \in Recovers : RecoverStart(h, d)
  \/ \E h \in Recovers : CleanStep(h) \/ RefreshScans(h) \/ RefreshStores(h) \/ Respond(h)
  \/ ConnectStep \/ ClearStaleLock

\* A connection that the daemon has after a step it had before, or it is that
\* of the connect.
LEMMA ConnectionsStay ==
  ASSUME Served, Other
  PROVE  /\ connect'.pc # "idle" => connect'.by = connect.by /\ connect.pc # "idle"
         /\ \A d \in Daemons : conn'[d] # Inactive =>
              conn[d] # Inactive \/ (connect.pc # "idle" /\ connect.by = d)
         /\ wiped => wiped'
<1>1. /\ DOMAIN conn = Daemons /\ IsConnect(connect) /\ NoConnect.pc = "idle"
      /\ wiped \in BOOLEAN
  BY IdleHandlers DEF Served, Owners, Places, Books, Shapes, Idle
<1>2. CASE \E d \in Daemons : \/ Start(d) \/ TakeLock(d) \/ ScanAtStartup(d)
                              \/ RemoveStaleSocket(d) \/ Listen(d) \/ CloseListener(d)
                              \/ UnitEnds(d) \/ \E h \in Recovers : RecoverStart(h, d)
  BY <1>1, <1>2 DEF Start, TakeLock, ScanAtStartup, RemoveStaleSocket, Listen, CloseListener,
     UnitEnds, RecoverStart, handlers, serverVars
<1>3. CASE \E d \in Daemons : Disconnect(d) \/ Stop(d) \/ ServeFails(d)
  BY <1>1, <1>3 DEF Disconnect, Stop, ServeFails, DisconnectAtEnd, DisconnectOf, serverVars
<1>4. CASE \E d \in Daemons : Unwind(d) \/ Crash(d)
  BY <1>1, <1>4 DEF Unwind, Crash, EndProcess, handlers
<1>5. CASE \/ Apply \/ ApplyFails \/ RecordApplied \/ RecordFails \/ LoadFails \/ VerifyPlan
  <2>1. UNCHANGED <<conn, wiped>>
    BY <1>5 DEF Apply, ApplyFails, RecordApplied, RecordFails, LoadFails, VerifyPlan, serverVars
  <2>2. connect' = NoConnect \/ (connect.pc # "idle" /\ connect'.by = connect.by)
    BY <1>1, <1>5 DEF Apply, ApplyFails, RecordApplied, RecordFails, RollbackTunFailure,
       LoadFails, VerifyPlan
  <2> QED
    BY <1>1, <2>1, <2>2
<1>6. CASE StartChildren \/ Commit \/ ConnectFails
  BY <1>1, <1>6 DEF StartChildren, Commit, ConnectFails, serverVars
<1>7. CASE \/ \E h \in Recovers : \/ CleanStep(h) \/ RefreshScans(h)
                                   \/ RefreshStores(h) \/ Respond(h)
           \/ ClearStaleLock
  <2>1. UNCHANGED <<conn, connect, wiped>>
    BY <1>7 DEF CleanStep, CleanLoads, CleanUndoes, CleanRemoves, CleanOther, RefreshScans, RefreshStores, Respond, ClearStaleLock, serverVars, handlers
  <2> QED
    BY <2>1
<1> QED
  BY <1>2, <1>3, <1>4, <1>5, <1>6, <1>7 DEF Other, ConnectStep

LEMMA ClientMeanwhile ==
  ASSUME Served, Client, Other, Meanwhile PROVE Client'
<1>1. UNCHANGED holder /\ Overtaken
  BY DEF Meanwhile
<1>2. /\ connect'.pc # "idle" => connect'.by = connect.by /\ connect.pc # "idle"
      /\ \A d \in Daemons : conn'[d] # Inactive =>
           conn[d] # Inactive \/ (connect.pc # "idle" /\ connect.by = d)
      /\ wiped => wiped'
  BY <1>1, ConnectionsStay
<1>3. CheckLeavesNoProxy'
  BY <1>1, <1>2, OvertakenMoves DEF Client, CheckLeavesNoProxy
<1>4. ASSUME check'.pc = "disconnect", ~check'.overtaken, NEW e \in Daemons, socket' = e
      PROVE  Matches(e)'
  BY <1>1, <1>4, OvertakenMoves DEF Client, Matches
<1> QED
  BY <1>1, <1>2, <1>3, <1>4, OvertakenMoves DEF Client

LEMMA ClientNext == Served /\ Client /\ [CommandsNext]_cvars => Client'
<1> SUFFICES ASSUME Served, Client, [CommandsNext]_cvars PROVE Client'
  OBVIOUS
<1>1. CASE UNCHANGED cvars
  BY <1>1 DEF cvars, client, vars, serverVars, handlers, Client, CheckLeavesNoProxy, Matches
<1>2. CASE \/ CheckStarts \/ CheckLooks \/ CheckRefused \/ CheckLooksAgain
           \/ CheckDisconnectsNothing \/ CheckKilled
           \/ \E d \in Daemons : CheckConnects(d) \/ CheckDisconnects(d)
  BY <1>2, ClientCheckStarts, ClientCheckLooks, ClientCheckLooksAgain,
     ClientCheckDisconnectsNothing, ClientCheckConnects, ClientCheckDisconnects
<1>3. CASE \E d \in Daemons, p \in W.profiles : \/ ConnectProxyOnly(d) /\ UserConnects(d, p)
                                                \/ ConnectTun(d) /\ UserConnects(d, p)
  BY <1>3, ClientUserConnects
<1>4. CASE Other /\ Meanwhile
  BY <1>4, ClientMeanwhile
<1> QED
  BY <1>1, <1>2, <1>3, <1>4, Zenon DEF CommandsNext, Other, ConnectStep, CleanStep

\* A check that reports no trouble has left no connection of its own, whatever
\* the daemon and other users did in the meantime (runDefaultProfileCheck,
\* cleanupMatchingTemporaryProxy), unless systemd has emptied the directory
\* under a running daemon.
THEOREM CheckLeavesNoProxyAlways == CommandsSpec => []CheckLeavesNoProxy
<1>1. Client => CheckLeavesNoProxy
  BY DEF Client
<1> QED
  BY <1>1, ServedInit, ServedNext, ClientInit, ClientNext, PTL DEF CommandsSpec

\* The connection that a check takes down is its own, or one that it cannot
\* tell from its own, unless it came after the last look.
THEOREM CheckSparesOthersAlways == CommandsSpec => CheckSparesOthers
<1>1. ASSUME Client, NEW d \in Daemons, CheckDisconnects(d)
      PROVE  check.overtaken \/ (conn[d].mode = "proxy-only" /\ holder[d].profile = Checked)
  BY <1>1 DEF Client, CheckDisconnects, Reachable, Matches
<1>2. Client =>
        [\A d \in Daemons : CheckDisconnects(d) =>
           \/ check.overtaken
           \/ conn[d].mode = "proxy-only" /\ holder[d].profile = Checked]_cvars
  BY <1>1
<1> QED
  BY <1>2, ServedInit, ServedNext, ClientInit, ClientNext, PTL DEF CommandsSpec, CheckSparesOthers
=============================================================================

# A verification project for podlaz

podlaz is a Linux VPN client: the CLI `podlaz` talks over a Unix socket to the
daemon `podlazd`, which starts Xray and, in TUN mode, changes the routes, policy
rules, DNS and nftables tables of the host inside a *transaction* that it must
be able to undo.  This directory holds TLA+ models of the parts where order,
failure and interleaving decide whether the host is left clean, the TLC runs
that check them on small instances, and TLAPS proofs of the properties that
matter most.

All source paths below are relative to `src/`.

## 1. Inventory

| Component | State it keeps | Operations | Interacts with |
|---|---|---|---|
| Connection manager `internal/daemon/xray_lifecycle.go`, `tun_connect_lifecycle.go`, `tun_full_tunnel_runner.go`, `tun_adapter_*.go`, `tun_child_process_rollback.go` | `m.cmd`, `m.done`, `m.stopping`, `m.state` under `m.mu`; the adapter registry; `generated/xray.json` | Connect (proxy-only, tun), Disconnect, Status, the goroutine `waitForExit` | Xray and tun2socks processes, transaction store, executor |
| TUN transaction runner `internal/daemon/tun_transaction*.go` | a copy of the record per handler | run a transaction, commit, roll back | store, executor |
| Transaction store `internal/state/transaction.go` | one JSON file per transaction in `/run/podlaz/transactions` | Save, Load, Transition, scan, remove | the runner, recovery |
| Network executor `internal/network/executor` | none; the host is its state | Apply, Verify, Rollback of a plan: link, default route, server bypass route, two rules, per-link DNS, nftables table | `ip`, `resolvectl`, `nft` |
| Recovery `internal/recovery`, `internal/daemon/recovery.go` | none | scan for candidates, clean them up, exit code | store, host; not the manager |
| Daemon server, startup scan `internal/daemon/server.go`, `startup_scan.go`, `authorization.go` | `podlazd.lock`, `podlazd.sock`, the scan it found last | start, serve, shut down, restart by systemd, refresh the scan | manager, recovery, another daemon on the same directory, polkit |
| Snapshot, planner `internal/network/snapshot`, `internal/network/planner` | none | host and profile to a plan | the runner, recovery (which must recognise what was planned) |
| Profiles and imports `internal/profile`, `internal/engine` | `profiles.json` | add, import a link, a list or Xray JSON, delete; render for Xray | the CLI processes, without a lock |
| Subscriptions `internal/sub` | `subscriptions.json`, `client-id` | add, import, update, delete | profile store; both files change together |
| Atomic writer `internal/storejson` | none | temporary file, sync, rename, sync of the directory | both stores |
| Commands `internal/app/cli`, `internal/status`, `internal/doctor` | none | status, doctor, recover (dry run), check | the daemon, in several requests; the host |
| API types, rendering, logs, probes, completion, entry points | none | output | |

How they interact.  Every HTTP request is served by a goroutine of its own, and
all share one `XrayManager`.  A handler takes `m.mu` to look or to change the
registration, and lets go of it around everything slow: every network command,
every wait for a process, every transaction file access except the commit.
`waitForExit` runs for each core and takes the same lock when its process ends.
Recovery is another handler, which takes no lock and does not look at the
manager.  The record on disk is what the runner, the disconnect, recovery and
the next daemon have in common.  A CLI process is one command: it reads a
store, computes, and writes it back, and any other process may do the same in
between.  `podlaz check` is a client that uses the daemon like any other user,
in three requests.

What is hard here:

- *Interleaving*: what a handler saw under one hold of `m.mu` may be false
  under the next.  Two connects may both see no core; a disconnect may arrive
  while a connect is half-way; two disconnects may undo one record; recovery
  may run in the middle of either.
- *Partial failure*: each of the seven steps of a plan, each save of the record
  and each process start may fail, some half-way; the runner has a different
  clean-up for each.
- *Crash and recovery*: the daemon may die between a change of the host and
  the record of it.
- *Ordering*: whether the end of Xray is a crash or a stop is decided by a flag
  that must be set before the signal and still be there when it is reaped.
- *Waiting*: two handlers and a goroutine wait on the same channel.
- *Two of a kind*: two daemons on one runtime directory, two recovers that
  refresh one scan, two CLI processes on one file.
- *What one part writes and another must recognise*: recovery decides by the
  fields of an entry whether it is podlaz's own, the planner writes the fields.

What makes each component correct:

- Manager: one live core at most, always the registered one; an active
  connection is backed by its core and its committed record; a connect that
  fails leaves nothing; a crash is reported and a stop is not taken for one;
  every call returns; an inactive daemon has left nothing on the host.
- Transaction and executor: from the moment the steps are recorded, the record
  names what is on the host; it is only given up when all of that is gone; a
  record that says `rolled_back` is true; what was there before is left alone.
- Recovery: after a crash it finds and removes what is left, and comes to an end.
- Server: one daemon at a time on a directory, its socket is not taken away, a
  unit that failed comes back, an exit leaves nothing.
- Planner: once applied, the server is reached on the uplink and the rest only
  through the tunnel.
- Stores: both files can be read whatever happens; a command that fails has
  changed nothing; every subscription profile has one owner; a profile's id
  keeps its meaning.
- Commands: a report that says "clean" is true; a check takes down its own
  connection and no other.

`PROJECT.json` lists every component with its status, and every hazard at the
line where it bites.

## 2. Modules

| Module | What it is | Extends |
|---|---|---|
| `TransactionState` | the states of a record and the transitions the store accepts | |
| `XrayManager` | the connection manager with racing calls, dying processes and failing steps | `TransactionState` |
| `UndoLog` | abstract: what the record of a transaction promises | |
| `TunTransaction` | one transaction step by step, with crashes and recovery; implements `UndoLog` | `TransactionState` |
| `Planner` | operators: snapshot, plan, what of it applies, how packets are then routed, what recovery recognises | |
| `Daemon` | `podlazd` as a process: start, requests, shutdown, crash, systemd; several on one directory | `TransactionState`, `Planner` |
| `Commands` | the reports as operators over `Daemon`, `podlaz check` as one more client | `Daemon` |
| `Profiles` | operators: ids, names, validity of a profile, the outbound it becomes | |
| `Imports` | operators: share links, lists, Xray JSON and subscriptions to profiles | `Profiles` |
| `UserStores` | the CLI processes over the files of a user | `Imports` |
| `MCXrayManager`, `MCDaemon`, `MCUserStores` | the instances for TLC | |
| `XrayManager_proofs` | the manager: its core, its active connection, its records | `XrayManager` |
| `XrayManagerCalls_proofs` | what calls make of the manager: crashes reported, failed connects, serial calls | `XrayManager_proofs` |
| `TunTransaction_proofs` | one transaction, and that it implements `UndoLog` | `TunTransaction` |
| `Daemon_proofs` | the daemon: one server, its books, the scan | `Daemon` |
| `DaemonHost_proofs` | what connects, recovers and exits make of the host | `Daemon_proofs` |
| `Commands_proofs` | the same with the commands as clients; the reports; `check` | `Commands`, `DaemonHost_proofs` |
| `Imports_proofs` | what imports make, whatever they are given | `Imports` |
| `UserStores_proofs` | the stores | `UserStores`, `Imports_proofs` |

`XrayManager`, `TunTransaction` and `Daemon` are three views of the daemon.  The
first keeps every race between calls and lumps the host into three resources;
the second runs one connect and one disconnect alone and keeps every step of
the executor, every save, the crash and recovery; the third has one connect at
a time and one step for each Apply and each rollback, whichever of their
commands fails, and instead several daemons, restarts, the planner's real
entries, and recovers that overlap all of it.

### XrayManager

One action is one section of a handler between two points where another
handler can run: `m.mu` released, a command, a file access or a wait.  `pc[r]`
says which section request `r` runs next, `loc[r]` what the handler holds in
local variables across that point: the captured mode and transaction id of
`Disconnect`, the copy of the record and the plan of a rollback.

| Variable | In the code |
|---|---|
| `cmd`, `stopping`, `connection` | `m.cmd` and `m.done`, `m.stopping`, `m.state` |
| `core`, `signalled` | the Xray processes; `reaped` when `waitForExit` closed `done` |
| `adapters`, `adapter` | `tunAdapterHandles`, the tun2socks processes |
| `config` | which request wrote `generated/xray.json` |
| `tx` | the transaction files: state, rollback steps, recorded children |
| `net` | who created each resource on the host |

A request starts at most one core, one adapter and one transaction, so all
three are named after it.  The host has three resources: `link` (the device
and what disappears with it: default route and per-link DNS), `rules` (policy
rules and bypass route, which survive the link) and `table`.  Deletion is by
name, as in the executor: it removes the resource of whichever transaction
owns it.  The order of the actions of a TUN connect is that of
`fullTunnelTransactionRunner.run`: `CreateTx`, `ApplyPlan`, `RecordAndVerify`,
`StartCore`, `SaveCoreMetadata`, `VerifyCoreStarted`, `StartAdapter`,
`SaveAdapterMetadata`, `VerifyConnectivity`, `CommitActiveState`; each has a
disjunct for every error return, leading to the clean-up that the code does
there.  `StopAdapter`, `StopCore`, `WaitCore` and `LoadTx`, `BeginRollback`,
`ExecuteRollback` are shared by failing connects and disconnects.

Three branches of the code are left out because they cannot be taken, which is
itself proved: `Disconnect` of an active TUN connection without a core
(`ActiveIsBacked`), the early return of `waitForExit` for a core that is not
registered (`RegisteredCore`), and the disconnect of a TUN connection without
a transaction id (`TunConnection` in `Inv`).

### TunTransaction and UndoLog

`Plan` is the order of `executor.Apply`: link, default route, server bypass
route, bypass rule, table rule, DNS, nftables table.  `host[x]` is `ours`,
`foreign` (there before the connect) or `none`.  Each step, each removal of a
rollback and each save of the record is an action of its own, with its failure
before or after the effect.  A save that fails may or may not have replaced
the file (`MaybeSaved`): the file is renamed into place before the directory
is synced.  `Crash` clears the handler's memory and keeps the host.  `Scan` ..
`RecoverFound` are `recover --execute`: the scan of candidates, the
transaction candidate with each undo, the removal of the record when nothing
was skipped or failed, then the table and the link by name.

The processes appear here only as the children entries of the record, which
make recovery skip it; generated configs as recovery candidates are left out.

`UndoLog` says what the record is for, in three variables: what is on the host
(`present <- Ours`), what can still be found and undone (`log`: the recorded
steps, until the record is rolled back or removed) and whether the log has had
one user only (`alone <- ~overlapped`).  Nothing is put on the host while a
log is there, the log only names what is there, and it is not given up while
any of it remains.  The history variable `overlapped` says that recovery and a
connect or disconnect were at work at the same time: the code does nothing
against that, and the promise ends there.

### Planner and Daemon

A host is a record of what the plan depends on: three tools that work, are
absent or fail, the uplink with its gateway, the addresses of the server. `net`
is the set of podlaz's entries on it, with the fields that `ip`, `nft` and
`resolvectl` see (destination, table, gateway, device, priority, backend),
because recovery decides by these fields.  `CollectSnapshot` and `PlanTun` are
`collect.go` and `tun.go`; `Validated` is what the executors refuse before they
begin, `Applicable` what they or the kernel refuse of one entry, `Position` the
order in which `Apply` takes them; `Recognised` is `daemon_executor.go`.  `Out`
and `Tunnelled` are the kernel's rules, tables and the nftables chain, so that a
plan is judged by where packets go and not by its own text.  `Without(net,
{Link})` takes along what the kernel drops with a link.

| `Daemon` | In the code |
|---|---|
| `phase[d]` | how far `Server.Run` of process `d` is: lock, scan, stale socket, listen, serve, the deferred calls |
| `lock`, `socket` | the two files; `socket = "file"` is a path taken by something else |
| `records`, `generated` | the transaction files with what they would undo, the directory of generated configs |
| `conn[d]`, `connect` | the connection, the one connect handler that may run, with its plan and the steps `Apply` has reported |
| `rec[h]`, `scan[d]` | the recover handlers, each with the record it has read; `startupScanState` |
| `wiped`, `touched`, `lost`, `half`, `dirty` | history, read by properties: the directory was emptied under a daemon; something changed under a handler; entries whose record was never written or is gone; entries made by a step that failed half-way; a crash, a late connect or a rollback that failed left something undone |

`Start` .. `Listen` are `Server.Run` up to the first request, `Stop`,
`ServeFails`, `CloseListener`, `Unwind` from the last one on, in the order of
the deferred calls.  While a daemon is `stopping` its listener is still open and
requests are served.  `Crash` ends the process, leaving its files; `UnitEnds`
is systemd, which for a unit with `RuntimeDirectory=podlaz` removes the
directory after the process and restarts it after a failure
(`packaging/systemd/podlazd.service:9,15`).

`ConnectTun` reads the host and writes the record; `Apply` does the whole plan,
or `ApplyFails` at any step of it: what came before is undone by name, what the
step itself has done of several commands (`tuntap add` but not `up`,
`tun_device.go:35-45`) was not reported and stays.  `RecordApplied` and
`VerifyPlan` go on, `RecordFails` and `LoadFails` are the error returns of
`runTunTransaction`: the first rolls back, the second, when the record cannot be
read again, does not.  `StartChildren`, `Commit` and `ConnectFails` follow the
runner.

A rollback (`RollbackTunFailure` inside a transaction, `RolledBack` after it) ends
in one of three ways.  All is undone and the file stays, saying `rolled_back`;
only `disconnectTun` removes it, and even then the removal may fail.  Or some
commands fail (`FailsToUndo`), and the file says `failed` or `rolling_back`, which
recovery takes up.  Or the file cannot be read or written, and nothing is
undone.

`RecoverStart` scans.  A record is then read (`CleanLoads`), undone
(`CleanUndoes`) and removed (`CleanRemoves`) in three steps, between which a
connect may save into it; other candidates are one step (`CleanOther`), all in
the order of `orderCleanupCandidates` (`First`).  `RefreshScans` and
`RefreshStores` are the two halves of `startupScan.Refresh`, which scans before
it takes its mutex.  An Xray that dies by itself and overlapping connects are in
`XrayManager`.

### Commands

`StatusExitsOk`, `DoctorQuiet` and `DryRunQuiet` say when `podlaz status`,
`podlaz doctor` and `podlaz recover` have nothing to complain about, with a
daemon that answers and without one.  A report is read at one instant.
`check` is `runDefaultProfileCheck`: a status, a connect of its own, a probe, a
second status, a disconnect; `holder[d]` remembers who made a connection and for
which profile.  Every action of `Daemon` can happen between two of its requests.

### Profiles, Imports and UserStores

Texts are members of small sets with the differences the code reacts to: upper
case, a text that looks like a secret, a name without Latin letters, a host
that is none.  A name is the sequence of its words; an id is what it is
computed from, a readable base and the tuple that is hashed.  A link is the
record of its decoded parts, a JSON document a record of its outbounds; what
the importers make of them (defaults, refusals, deduplication of ids and of
names, the name of a wrapper) is `Imports`, and what Xray would be told is
`Outbound`.

| `UserStores` | In the code |
|---|---|
| `files` | `profiles.json` and `subscriptions.json`: absent, torn or a set |
| `clientID` | `client-id`: absent, created and still empty, or written |
| `cli[c]` | the command a process runs, the step it is at, its local variables |
| `history` | read by properties: whether commands overlapped, a process died, a directory sync or a restore failed; ids that were sent; profiles a user kept or deleted |

A step is what a process does between two accesses to a file.  `Save` is
`storejson.Write`: it fails before the rename, or after it when the directory
is synced.  `Restore` and `Rewrite` are `os.WriteFile` in
`source_workflow.go`, which truncates before it writes.  `ReadClientID` ..
`SyncClientID` are `client_identity.go`.  `Crash` kills a process at any step.

### Mutants

Operators whose comment begins with `BUG:` are used by no action.  Each is a
plausible mistake in the definition that follows it; substituting it makes TLC
find the property listed with it under `mutants` violated, which shows that the
property depends on the code.

## 3. Runs

| Run | Instance | Checks | Result |
|---|---|---|---|
| `manager_safety` | 3 racing calls; processes die, steps fail or half-fail; 545 k states | `TypeOK`, `RegisteredCore`, `ActiveIsBacked` | hold |
| `manager_undone` | 3 racing calls; processes die, steps fail; 430 k states | `FailedConnectIsUndone`, `RecordCoversHost`, `RolledBackIsClean` | hold |
| `manager_serial` | 5 calls one at a time, no failure | `InactiveMeansClean`, `ConfigMatchesCore` | hold |
| `manager_live` | 3 racing calls; processes die, Xray may resist signals; fairness; 160 k states | `CallsReturn`, `CrashReported` | hold |
| `manager_race` | 2 racing calls, no failure | `InactiveMeansClean` | violated |
| `manager_crash` | 2 calls one at a time, Xray may die | `InactiveMeansClean` | violated |
| `tx_log` | failures everywhere, a bypass route that may be there before, one crash, recovery at any time; 2.0 M states | `TypeOK`, `IsUndoLog`, `CommittedRecordIsExact`, `RolledBackLeavesOneStep`, `ForeignOutlivesRecords` | hold |
| `tx_foreign` | one bypass route that may be there before | `RollbackOnlyApplied` | violated |
| `tx_crash` | one crash, no failing command | `RecoverableAfterCrash` | violated |
| `tx_dns` | one crash, no failing command | `RecoveryFinishes` | violated |
| `stores` | 2 processes, 7 worlds; 270 k states | what the files hold: `StoresReadable`, `NoOrphans`, `LinkedProfilesStored`, `OwnedOnce`, `OthersProfilesStay`, `FailedCommandChangesNothing`, `OneClientId`; what imports make: `NamesDistinct`, `SameIdSameOutbound`, `TunRunsProxyOnly`; `TypeOK` | hold |
| `daemon` | 2 daemons, 2 recovers, 21 worlds; fairness; 833 k states | one server: `OneServer`, `SocketIsServers`, `UnitServesAgain`; the host: `PlanCarriesTraffic`, `NothingForgotten`, `CleanExit`; recovery: `RecoverDoesAllItCan`, `RecoverOkMeansClean`, `ScanIsCurrent`; commands: `ReportsMissNothing`, `CheckLeavesNoProxy`, `CheckSparesOthers`; `TypeOK` | hold |

**Bounds of the first ten.** The number of requests, the number of crashes and
one transaction per behaviour of `TunTransaction`; nothing else is bounded.  A
race over the manager needs a call that holds the core and one that undoes it;
the third call is the connection that the slower of the two then destroys or
the second disconnect with a stale copy.  Five serial calls are two connections
with a disconnect each and one call more.  The proofs of section 5 are for any
number of calls.  In `tx_log` one crash is enough: what a second one in the
middle of a recovery leaves behind is what the same recovery leaves when all of
its remaining commands fail, and that is in the run.  Recovery is not bounded:
it may be run any number of times.

`HalfSteps` is on in `manager_safety` and `tx_log` and off in
`manager_undone`: a step of several commands that fails after the first one
(`tuntap add` succeeded, `mtu` failed) is not reported as applied, so neither
undone nor recorded, and `FailedConnectIsUndone` does not hold with it.  What
holds then is `RolledBackLeavesOneStep`: at most that step is left behind.

`FailedConnectIsUndone` says that a TUN connect that reports a completed
rollback has left no core, no network state and no adapter that is recorded.
Its adapter may run on in one case: its pid could not be saved, and another
connect put its own handle into the registry, which holds one
(`tun_adapter_runtime.go:113`), before the clean-up asked for it.  TLC needs
five racing requests to get there, which is more than the run has; the
statement is what is proved for any number of them.

**Worlds.** `stores` and `daemon` start in any of several *worlds*, a record each
of what the environment offers and of the bounds: budgets for commands, or for
starts, connects, recovers, crashes and faults.  Each world is made for one
kind of trouble, because all of it at once would be out of reach.

- `stores`: subscription lists with clashing names and ids (`list`), Xray JSON
  (`object`), every other command (`command`), two subscriptions that share a
  profile with two faults or deaths (`fault`), the same with four commands and
  no fault (`long`), with commands that overlap (`overlap`), and two first
  requests to a server (`request`).  Three commands are two that build up a
  state and one that meets it; four allow a profile to be deleted and imported
  again.  Feeds change between refreshes: a source sends any of its contents.
- `daemon`: connects, recovers, a recover in the middle of a connect
  (`overlap`), restarts after a crash, an uplink without a gateway (`ppp`), two
  daemons started by hand (`daemons`), a connect with a fault and then another
  daemon (`fails`), a unit and a daemon started by hand (`unit`), a unit alone, a
  path of the socket taken by another file (`file`),
  six hosts on which a connect cannot succeed, and five worlds with a check:
  with other users' connections, crashes, systemd, and grants missing.

`CHECK_DEADLOCK` is off in `stores` and `daemon`: a behaviour stops when its
budgets are used up and every handler has returned.  The other runs have it at
its default: a manager whose calls were all served stutters explicitly
(`AllServed`), so any other state in which nothing can happen would be
reported, and in `TunTransaction` recovery can always be run.

**Exceptions in the properties.** Several properties of `stores` and `daemon`
exclude situations against which the code does nothing; each exclusion is
needed, TLC finds a violation without it, and section 4 lists what happens
there.  `~wiped`: systemd emptied the directory under a daemon started by
hand.  `touched`: something changed under a recover or a connect.  `half`: what a
step that failed half-way has made.  `lost`: what has no record because its
process ended, because systemd emptied the directory, because no file could be
written, or because a recover removed a record into which a connect had saved
its steps after the recover had read it.  `dirty`: a crash, a rollback that
failed or was given up, or a connect that an exit overtook.  `alone`: commands
that do not overlap.  `unsynced`, `unrestored`, `crashed`: the sync of a
directory failed, a restore failed, a process was killed.

### Fairness

In `manager_live`, `WF(Continue(r))`: a goroutine that can run
does.  All of its commands have timeouts and a connectivity probe is bounded.
`WF(WaitForExit(r))`: `cmd.Wait` returns for a process that exited.
`WF(CoreExit(r))` for a core that was signalled: `stopCoreProcess` sends
SIGKILL five seconds after SIGTERM.  Nothing is assumed about calls arriving or
processes dying on their own.

In `daemon`, for `UnitServesAgain`, weak fairness of `UnitEnds(d)`: systemd
notices that the process of its unit has ended and restarts it; and of
`TakeLock`, `ScanAtStartup`, `RemoveStaleSocket` and `Listen`: a process that
starts goes on, its only waits are commands with timeouts.  Requests, signals,
crashes, users and other daemons are not fair.  The retry limit of systemd is
never met within the budget of crashes and faults.

## 4. What the violated runs show

Each of these is a disagreement between the code and a document or comment of
the repository, with the lines quoted in `PROJECT.json`.

- `manager_race`.  `Disconnect` reads mode and transaction id before it waits
  for the core.  When a TUN connect is between `startCore` and its commit, these
  are still those of the inactive state.  The connect commits, the core is
  reaped, the status becomes inactive: the routes, the rules, the adapter and a
  committed record stay.
- `manager_crash`.  After Xray died in TUN mode, `Disconnect` takes the branch
  for "no process" and only resets the status; the transaction stays.
- `tx_foreign`.  A bypass route that existed before is not recorded as
  applied, but a failure after the network steps rolls back the whole plan and
  deletes it.  (`ForeignOutlivesRecords` shows that this is the only way.)
- `tx_crash`.  The steps are first saved when all of them are done.  A daemon
  that dies before that leaves rules and the server route that no record names.
- `tx_dns`.  Recovery compares the DNS backend with a name the planner never
  writes, skips the DNS step of podlaz's own link, and keeps the record forever.

What the exceptions in the properties of `daemon` and `stores` stand for:

- The packaged unit lets systemd empty `/run/podlaz` when the process ends, so
  the records are gone after a crash and the rules and the bypass route stay
  (`lost`), against `docs/state-and-security.md:30-31`.  A unit that fails to
  start beside a daemon started by hand removes that daemon's lock, socket and
  records (`wiped`).  Without systemd a stale lock blocks every start.
- A step of several commands that fails after the first is not reported, so the
  rollback does not undo it and the record does not name it: after `tuntap add`
  succeeded and `mtu` failed the record says `rolled_back`, `podlaz0` is there,
  and `podlaz status` exits with 0 until the next scan, which a recover or a
  restart makes (`half`; `tun_device.go:35-45`).
- A connect that fails leaves a file that says `rolled_back`, which stays until
  systemd empties the directory: recovery does not list it, and only a disconnect
  removes a record that is undone.  `CleanExit` therefore promises no empty
  directory, only that no record asks for a recovery.
- A recover in the middle of a connect reads a record without steps, or with
  them, and removes it after the connect has saved it again: what the connect
  had applied by then is in no record any more (`lost`; `daemon_executor.go:89`
  and `:114`).  `NothingForgotten` shows that this, a process or directory that
  ended, and a file that could not be written are the only ways.
- A rollback whose commands fail leaves the entries and a record that asks for a
  recovery, and a connect that cannot read its record again ends without any
  rollback (`dirty`; `tun_transaction.go:47-50`, `:71-74`): an exit after it is
  not clean, and the reports say so.
- A connect that is accepted between the disconnect at shutdown and the closing
  of the listener is never undone, and the exit does not wait for one that is
  under way for more than five seconds (`dirty`).
- The bypass route of an uplink without a gateway is neither recognised by
  recovery nor adopted by the next connect; the DNS entry is always skipped.
  These are the two entries that `RecoverDoesAllItCan` names.
- Two recovers at once: each scans before it takes the mutex, so the older scan
  can be stored last (`ScanIsCurrent` asks for an undisturbed recover).
- A scan whose commands fail gives warnings and no candidates, so
  `recover --execute` exits with 0 on a host it could not look at:
  `RecoverOkMeansClean` speaks of what was found.
- The disconnect of `check` names no connection: one made after its last
  status, or one to the same profile, is taken down, although
  `docs/cli.md:187-194` limits it to the one it started (`overtaken`, and the
  second disjunct of `CheckSparesOthers`).  A check that is killed, or whose
  connect answers too late, leaves its connection (`CheckLeavesNoProxy` is about
  checks that report no trouble).
- Overlapping commands on a store lose updates.  Two `subscription update`s
  that both roll back can leave `profiles.json` unreadable for good: the
  snapshot of one was taken while the restore of the other had truncated the
  file (`source_workflow.go:166-204`; `unrestored` in `StoresReadable`).
- A process that dies between the two writes of an update strands profiles that
  collide with every later update (`NoOrphans` excludes it); a profile that is
  deleted and imported again belongs to whoever still links it (`dropped`).
- A client-id file that was created and not written blocks every later fetch.
- The ids of VMess and Trojan links leave out ALPN, path, host and service name
  and fold the case of passwords; `SameIdSameOutbound` is for VLESS.

## 5. Proofs

TLAPS checks the theorems for every value of the constants, from the named
assumptions of the modules: any set of requests, daemons, recovers, processes
and worlds, infinite ones included, and any budgets.  `PROJECT.json` lists the
theorems with the properties they state.

**`XrayManager_proofs`** (assumption `ManagerAssumption`: `None` is no request,
the switches are Boolean): `TypeCorrect`, `OneCore`, `ActiveBacked`.
`RegisteredCore` and `ActiveIsBacked` are not inductive.  To keep an active
connection's record committed one has to know that no rollback at work can
touch it, so `Inv` adds: a disconnect only undoes a transaction whose connect
returned and whose core is reaped (`UndoTarget`, `TunConnection`); a connect
only undoes its own (`UndoTarget`, with `HandlerKind` for which handler is at
which label); and a request that did not reach `startCore` has no core yet
(`StartsOnce`).  There is one lemma per action; `HandlerFrame` collects what
all steps that leave the manager alone have in common.
`RecordsCoverHost` and `RolledBackLeavesNothing` have the further assumption
`~HalfSteps` (section 3 says why).  `RecordInv` follows one transaction from
its first step (`RecordStage`: what the host may hold of it by then) and says
that the plan and the copy that any rollback holds in memory, however stale,
cover what is left (`RollbackCovers`).  That is what makes two disconnects with
copies of the same record harmless to its truth.

**`XrayManagerCalls_proofs`**: `CrashesAreReported`, the action property
`CrashReported`, by `StopIsFlagged`: whoever signalled the registered core has
set the flag before, and a connect on a path that will signal it has either
lost it or flagged it.
`FailedConnectsAreUndone` (`~HalfSteps` and `~StopsMayFail`: signals work, as in
the run) states `FailedConnectIsUndone` for racing calls.  `UndoneInv` follows
the three things a connect owns along every error path: its core is gone before
its rollback begins (`CoreKnown`); the state in its record and in its copy tell
at which point the rollback is, so that it cannot be refused (`RecordKnown`);
its adapter is registered, or another connect has started one, or it is stopped
by its recorded pid (`AdapterKnown`).  What a connect does to the others is put
once, as `Aside`.
`SerialCallsLeaveClean` and `SerialConfigMatches` state `InactiveMeansClean` and
`ConfigMatchesCore` for calls one at a time with nothing failing (`Reliable`,
the constants of `manager_serial`), for any number of calls; the two violated
runs show that both provisos are needed.  `SerialInv` says what manager, host
and records are between calls (`AtRest`) and at each stage of the call that is
served (`Connects`, `Disconnects`).

**`TunTransaction_proofs`** (`TransactionAssumption`): `TypeCorrect`,
`ForeignKept`, `CommittedExact`, `RolledBackLeavesOne`, and `RecordIsUndoLog`,
the refinement of `UndoLog`, under the further assumption `RuntimeDirKept`.
Each has an invariant of its own, because each needs to know something else of
a step half-way: `ForeignInv`, that nothing that was there before is in the
file, the copy or recovery's copy, whichever of them is stale; `StageInv`, which
states the file may be in at each stage and that the copy names all that is on
the host, and the file does once it was saved; `OneStepInv`, that a rollback
which has met no error has left nothing behind it but the one step that failed
half-way; `LogInv`, what the handler may rely on while it is the only user of
the log.  The refinement maps each step of the executor, of a save and of
recovery to a step of the log or to a stutter.

**`Daemon_proofs`** (`DaemonAssumption`: the names of daemons, recovers and of
"no one" are distinct, budgets are numbers): `TypesAlways`, `OneServerAlways`,
`SocketIsServersAlways`, `NothingForgottenAlways`, `ScanIsCurrentAlways`.
`LockHeld` says that whoever is between taking the lock and removing it holds
it, and whoever accepts requests owns the socket, as long as systemd has not
emptied the directory; in `Unwind` the socket must go first for it to hold.
`Books` accounts for every entry on the host (`Covered`): it is half-made, lost,
in the hands of the connect that will record it, or named by a record (`Names`)
that does not say `rolled_back` and that no recover is about to remove with a
copy that has it.  The last is what the three steps of a recover need: what its
copy names is off the host when it comes to the removal, so that only what was
saved into the record since can be lost by it.  `ConnectStep` and `CleanStep`
put once what the steps of a connect and of a recover leave alone.  `Known`
carries through the two halves of a refresh what a recover that nothing
disturbed knows of the host.  `Owners` gives connections and handlers to daemons
that are between serving and their end.

**`DaemonHost_proofs`** (also `HostAssumption`: the addresses of the server are
an IPv4 or an IPv6 one, the uplink is an interface and not the tunnel):
`RecoverOkMeansCleanAlways`, `RecoverDoesAllItCanAlways`, `CleanExitAlways`,
`PlanCarriesTrafficAlways`, for any worlds, so for any hosts, budgets and
numbers of records.
`Shaped` bounds what can be on a host: a plan that was applied was for IPv4, so
every entry there, in a record or about to be recorded, is one of eight, also
when it comes from a step that failed (`ReachedFits`, `MayFit`: a plan for IPv6
gets as far as the route that is refused).
`Cleaning` is about a recover that nothing disturbs: whatever a scan would find
at this moment is still in its list, or failed, or is a record of which
something was skipped, and then only what is not recognised is left of it.
While it has a record in hand, its copy is that record (`Cleaned`).  A candidate
that was handled is gone or reported as not gone, and handling one never makes
another to find (`FindsLess`, `CleanedGoesOn`, `CleanedReports`).
`Tidy` is what makes an exit clean: until a crash, a failed rollback or a late
connect, each record that is not absent or rolled back is that of the connect
under way or of the connection of a daemon that serves (`Uncut`); when all are
settled, `BooksSettled` reads from `Books` that nothing but `half` and `lost` is on
the host.
`PlanCarriesTrafficAlways` computes the kernel's choice of rule and route over
the entries of an applied plan together with anything of these eight that was
there before it; the plan is still that of the host when it is applied, as long
as nothing touched the host under the connect (`Traffic`).

**`Commands_proofs`**: `CommandsUseDaemon` shows that every step of the
composition is one of `Daemon`, so `CommandsSpec`, which run `daemon` checks,
implies the daemon's specification with its fairness, and
`DaemonKeepsPromises` repeats its invariants for it.  `CheckLeavesNoProxyAlways`
and `CheckSparesOthersAlways` rest on `Client`: a connect that is under way is a
user's, and what a check saw at its last look is still there unless it was
overtaken.  `ReportsMissNothingAlways` follows from `Books` and `Shaped`: what is
on the host and neither lost nor half-made is in a record that is not rolled
back, and such a record is one that each of the reports shows, unless it is
committed (`Asleep`, `QuietMeansClean`).

**`Imports_proofs`** are lemmas about the operators of `Profiles` and `Imports`
for every link, list and JSON document: parsing yields nothing or a list of
profiles (`GoodParse`), each with the id that the formula for its protocol gives
for its own fields (`IsProfile`), and deduplication of ids and of names, the
wrapper's name and the change of a profile's source keep that.  Lists built by
folds are shown to be lists by a least counterexample, and so is that the names
which `DeduplicateDisplayNames` gives one after another exist
(`NamingExists`).  Each of them is new: of the numbers that are tried one is
free by the pigeonhole principle (`FreeNameIsFree`), hence `NamesApart` of all
that parsing yields.
`SameIdMeansSameOutbound` and `TunMeansProxyOnly` are the two properties of a
profile that follow.

**`UserStores_proofs`** (`StoresAssumption`; `ContentsAssumption`: what a file or
a server holds, and the name of a link, is made of lists): `TypesAlways`,
`StoresReadableAlways`,
`OneClientIdAlways`, `FailedCommandChangesNothingAlways`,
`SameIdSameOutboundAlways`, `TunRunsProxyOnlyAlways`, `OwnedOnceAlways`,
`LinkedProfilesStoredAlways`, `NoOrphansAlways`, `NamesDistinctAlways`,
`OthersProfilesStayAlways`.
`StoresInv` says that a process at a step has read what the step needs
(`Ready`), that what it is about to write can be loaded (`Loadable`: ids are
unique, every member valid and its id the one of its fields), which
store is written before which step and what a failing write undoes (`Leads`),
and that a file is torn only while or after it is put back.  That a change keeps
ids unique is counted: a set of profiles is in bijection with its ids
(`UniqueMeansInjective`).  `IsClientID` says that the ids shown to servers are
the one in the file and that at most one process is about to write it, the one
that created it.  `UndoInv` is the bookkeeping of the rollback: while a command
runs alone, the stores are as it found them except those it may have written by
its step (`Dirty`), and what it has read is what it found.
`AgreeInv` is the ownership of profiles, for commands that do not overlap and
(but for `Proposes`) of which none was cut short.  Between commands both files
agree (`Agree`): a subscription profile is linked by exactly one source, a link
points to a stored one, and the profiles that one source links have different
names, apart from what was deleted or kept by a user.  A command that writes one file
and then the other breaks that in between; at each of its steps the files
agree with the sources as they will be when it is done (`Intended`, `Stage`),
and the files that it may put back agreed when it found them (`FoundAgreed`).
`Proposes` says which profiles a command is about to take out of
`profiles.json`: for an update those that its own source links, for a delete
only subscription profiles among them, for an import none.
`NamesDistinctAlways` assumes `Numbered`: two numbers are never written alike,
in either case, as they are not by `strconv.Itoa`; the provers know nothing else
of `ToString`.  A refresh keeps the names apart because the profiles it brings
are (`NamesApart`) and because no other source links any of them, which is where
it needs the rest of `Agree`.

Only model-checked: the liveness properties `CallsReturn` and `UnitServesAgain`,
which are out of the prover's reach, and the properties of the violated runs,
which do not hold.

## 6. Abstractions and assumptions

- `RuntimeDirKept` in `TunTransaction`: `/run/podlaz` survives a crash of the
  daemon.  Under the packaged unit it does not; `Daemon` models the unit that
  empties the directory, the runs of `TunTransaction` the daemon that is
  started otherwise, and set the constant to TRUE.
- `Daemon` has one connect at a time; the races between connects are in
  `XrayManager`.
- An Apply, a rollback and the undoing of one record by recovery are each one
  step of `Daemon`, with every outcome that their commands can have: what failed,
  what it had done by then, what stays.  A crash or another handler in the
  middle of one is in `TunTransaction`, where each command is a step, and in
  `XrayManager`, where a rollback and its saves are.
- When a rollback fails, the file says `failed` or `rolling_back`.  That the saves
  fail as well is one outcome: nothing is undone and the file stays as it was.
- A recover in the middle of a connect is a world of its own (`overlap`):
  `PlanTun` and the recover then see each other's half-done work.
- An error of `Serve` and an answer that comes too late for the client cost a
  fault of the world's budget, like a failing command.
- A cancelled request context is not modelled separately from commands that
  fail; that *all* commands of a rollback then fail is a case of it.
- A report of `status` or `doctor` is read at one instant, by a user who may
  read the runtime directory; the requests of `check` are not, every action may
  come between them.
- Texts are members of small sets with the differences the code reacts to.
  Decoding of JSON, base64 and URIs is abstracted to the fields it yields,
  valid and invalid ones; the transfer over HTTP to the content that it brings.
- A store is a set of members; its order in the file is by id and carries
  nothing.
- polkit grants or denies an action of a user; how the daemon identifies the
  caller (peer credentials, start time of the process) is left out.
- The server may have an address of either family; of an IPv6 uplink only that
  there is one matters, its default route only reaches the warnings of a plan.
- The retry limit of systemd is never met within the budgets.
- Secrets in records, configs and logs are left out of all data.

Not modelled: the API types (structures without behaviour), rendering and
redaction, logs, the HTTP probes of connectivity and of `check` beyond their
verdict, completion and argument parsing, and the entry points, which call the
CLI and the daemon.  None of them keeps state; `PROJECT.json` has the reason at
each component.

## 7. Plan

Done: the connection manager; one transaction with its refinement; the daemon
with its restarts, the planner, recovery and the commands; the stores, the
imports and the subscription workflow; the proofs of section 5, which state
every safety property that a passing run checks.

Left, most important first:

1. What racing calls leave without the provisos: a version of
   `FailedConnectsAreUndone` with `HalfSteps`, which names the one step left, as
   `RolledBackLeavesOneStep` does for a transaction alone.
2. Cancelled contexts as an action of their own, so that the order in which the
   commands of a rollback begin to fail is explicit.

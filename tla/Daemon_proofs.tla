--------------------------- MODULE Daemon_proofs ---------------------------
(***************************************************************************)
(* Of podlazd, for any number of daemons and recovers and on any host: two *)
(* daemons never run on one directory (OneServer), a daemon that serves    *)
(* owns its socket (SocketIsServers), no entry on the host is forgotten    *)
(* (NothingForgotten), and the scan a recover leaves is current            *)
(* (ScanIsCurrent).                                                        *)
(***************************************************************************)
EXTENDS Daemon, TLAPS

-----------------------------------------------------------------------------
(* The lock and the socket.  Whoever runs holds the lock from the moment   *)
(* it starts to run until its process ends, and whoever accepts requests   *)
(* owns the socket; the two exclude that another daemon removes either.    *)

LockHeld ==
  /\ DOMAIN phase = Daemons
  /\ ~wiped => \A d \in Daemons : /\ Running(d) => lock = d
                                  /\ Accepts(d) => socket = d

\* Whether d runs, before and after a step.
USE DEF Running, Accepts

LEMMA LockInit == Init => LockHeld
BY DEF Init, LockHeld

LEMMA LockStarting ==
  ASSUME LockHeld, NEW d \in Daemons,
         Start(d) \/ TakeLock(d) \/ ScanAtStartup(d) \/ RemoveStaleSocket(d) \/ Listen(d)
  PROVE  LockHeld'
<1>1. CASE Start(d)
  BY <1>1 DEF LockHeld, Start
<1>2. CASE TakeLock(d)
  BY <1>2, DaemonAssumption DEF LockHeld, TakeLock
<1>3. CASE ScanAtStartup(d)
  BY <1>3 DEF LockHeld, ScanAtStartup
<1>4. CASE RemoveStaleSocket(d)
  BY <1>4 DEF LockHeld, RemoveStaleSocket
<1>5. CASE Listen(d)
  BY <1>5, DaemonAssumption DEF LockHeld, Listen
<1> QED
  BY <1>1, <1>2, <1>3, <1>4, <1>5

LEMMA LockEnding ==
  ASSUME LockHeld, NEW d \in Daemons,
         Stop(d) \/ ServeFails(d) \/ CloseListener(d) \/ Unwind(d) \/ Crash(d) \/ UnitEnds(d)
  PROVE  LockHeld'
<1>1. CASE Stop(d)
  BY <1>1 DEF LockHeld, Stop
<1>2. CASE ServeFails(d)
  BY <1>2 DEF LockHeld, ServeFails
<1>3. CASE CloseListener(d)
  BY <1>3 DEF LockHeld, CloseListener
<1>4. CASE Unwind(d)
  <2>1. Ended(d) \in {"failed", "exited", "off"}
    BY DEF Ended
  <2> QED
    BY <1>4, <2>1 DEF LockHeld, Unwind
<1>5. CASE Crash(d)
  BY <1>5 DEF LockHeld, Crash
<1>6. CASE UnitEnds(d)
  BY <1>6 DEF LockHeld, UnitEnds
<1> QED
  BY <1>1, <1>2, <1>3, <1>4, <1>5, <1>6

LEMMA LockNext == LockHeld /\ [Next]_vars => LockHeld'
<1> SUFFICES ASSUME LockHeld, [Next]_vars PROVE LockHeld'
  OBVIOUS
<1>1. CASE UNCHANGED serverVars
  BY <1>1 DEF LockHeld, serverVars
<1>2. CASE \E d \in Daemons : Start(d) \/ TakeLock(d) \/ ScanAtStartup(d)
                               \/ RemoveStaleSocket(d) \/ Listen(d)
  BY <1>2, LockStarting
<1>3. CASE \E d \in Daemons : Stop(d) \/ ServeFails(d) \/ CloseListener(d) \/ Unwind(d)
                               \/ Crash(d) \/ UnitEnds(d)
  BY <1>3, LockEnding
<1>4. CASE ClearStaleLock
  BY <1>4, DaemonAssumption DEF LockHeld, ClearStaleLock
<1> QED
  BY <1>1, <1>2, <1>3, <1>4 DEF Next, vars, ConnectProxyOnly, ConnectTun, Disconnect,
     RecoverStart, CleanLoads, CleanUndoes, CleanRemoves, CleanOther, RefreshScans,
     RefreshStores, Respond, Apply, ApplyFails, RecordApplied, RecordFails, LoadFails,
     VerifyPlan, StartChildren, Commit, ConnectFails

LEMMA LockAlways == Spec => []LockHeld
<1> QED
  BY LockInit, LockNext, PTL DEF Spec

\* Two daemons never run on one runtime directory, as long as systemd does not
\* empty it under one of them: the O_EXCL lock of server.go.
THEOREM OneServerAlways == Spec => []OneServer
<1>1. LockHeld => OneServer
  BY DEF LockHeld, OneServer
<1> QED
  BY <1>1, LockAlways, PTL

\* The socket belongs to the daemon that serves: no other daemon, starting or
\* ending, takes it away.
THEOREM SocketIsServersAlways == Spec => []SocketIsServers
<1>1. LockHeld => SocketIsServers
  BY DEF LockHeld, SocketIsServers
<1> QED
  BY <1>1, LockAlways, PTL

-----------------------------------------------------------------------------
(* Nothing is forgotten.  The record that names an entry is not enough: a  *)
(* recover that has undone its copy of the record is about to remove it.   *)
(* So an entry on the host is in a record that no recover will remove with *)
(* it; what a connect has not recorded is in no copy, because a record is  *)
(* empty until its connect writes into it what was applied.                *)

IsRecord(r) == r = [state |-> r.state, entries |-> r.entries, children |-> r.children]
IsPlan(p)   == p = [entries |-> p.entries, bypass |-> p.bypass, dns |-> p.dns,
                    firewall |-> p.firewall]
IsConnect(c) == /\ c = [pc |-> c.pc, by |-> c.by, tx |-> c.tx, plan |-> c.plan,
                        steps |-> c.steps]
                /\ IsPlan(c.plan)
IsRecover(r) == r = [pc |-> r.pc, by |-> r.by, todo |-> r.todo, results |-> r.results,
                     tx |-> r.tx, copy |-> r.copy, scan |-> r.scan]

Shapes ==
  /\ budget \in [Budgets -> Nat] /\ budget["connects"] <= MaxTx
  /\ DOMAIN records = Ids /\ \A i \in Ids : IsRecord(records[i])
  /\ IsConnect(connect)
  /\ DOMAIN rec = Recovers /\ \A h \in Recovers : IsRecover(rec[h])

\* The record of a connect that has applied nothing yet, or of none.
Unused(i) == \/ i <= budget["connects"]
             \/ connect.pc \in {"apply", "record"} /\ connect.tx = i

\* The record i names e, and no recover that is about to remove it has seen e.
Names(i, e) == /\ records[i].state # "rolled_back" /\ e \in records[i].entries
               /\ \A h \in Recovers : rec[h].pc = "remove" /\ rec[h].tx = i
                                        => e \notin rec[h].copy.entries
Covered(e) == e \in Unrecorded \cup lost \cup half \/ \E i \in Ids : Names(i, e)

Books ==
  /\ Shapes
  /\ connect.pc # "idle" => connect.tx \in Ids /\ connect.tx > budget["connects"]
  /\ connect.pc \notin {"idle", "apply"} =>
       records[connect.tx].entries \subseteq connect.steps /\ connect.steps \subseteq connect.plan.entries
  /\ \A i \in Ids : Unused(i) => /\ records[i].entries = {}
                                 /\ \A h \in Recovers : rec[h].tx = i => rec[h].copy.entries = {}
  /\ \A e \in net : Covered(e)

USE DEF IsRecord, IsPlan, IsConnect, IsRecover

LEMMA BooksInit == Init => Books
<1> SUFFICES ASSUME Init PROVE Books
  OBVIOUS
<1>1. budget \in [Budgets -> Nat] /\ budget["connects"] <= MaxTx
  BY DaemonAssumption DEF Init
<1>2. net = {} /\ connect = NoConnect /\ connect.pc = "idle" /\ IsConnect(connect)
  BY DEF Init, NoConnect, NoPlan
<1>3. DOMAIN records = Ids /\ \A i \in Ids : IsRecord(records[i]) /\ records[i].entries = {}
  BY DEF Init, NoTx
<1>4. /\ DOMAIN rec = Recovers
      /\ \A h \in Recovers : IsRecover(rec[h]) /\ rec[h].copy.entries = {}
  BY DEF Init, NoRecover, NoTx
<1> QED
  BY <1>1, <1>2, <1>3, <1>4 DEF Books, Shapes

\* A connect that goes on, or ends, after it has recorded its steps or without.
ConnectKept ==
  /\ IsConnect(connect)'
  /\ \/ connect'.pc = "idle"
     \/ /\ connect'.tx = connect.tx /\ connect'.steps = connect.steps
        /\ connect'.plan = connect.plan
        /\ \/ connect'.pc = connect.pc
           \/ connect'.pc \in {"check", "core", "verify"} /\ connect.pc \notin {"idle", "apply"}

\* A recover whose copy is the one it had, or one of the record as it is.
CopyKept(h) ==
  /\ IsRecover(rec'[h])
  /\ \A i \in Ids : rec'[h].tx = i =>
       \/ rec'[h].copy.entries \subseteq records[i].entries
       \/ rec[h].tx = i /\ rec'[h].copy.entries = rec[h].copy.entries

SameBudget == budget' \in [Budgets -> Nat] /\ budget'["connects"] = budget["connects"]

\* Only the connect gives its record more entries, when it ends or with its steps.
EntriesKept(i) ==
  /\ IsRecord(records'[i])
  /\ \/ records'[i].entries \subseteq records[i].entries
     \/ /\ i = connect.tx /\ connect.pc # "idle"
        /\ \/ connect'.pc = "idle"
           \/ /\ connect'.pc \in {"check", "core", "verify"}
              /\ records'[i].entries \subseteq connect.steps

LEMMA BooksFrame ==
  ASSUME Books, SameBudget, ConnectKept, DOMAIN records' = Ids, DOMAIN rec' = Recovers,
         \A i \in Ids : EntriesKept(i),
         \A h \in Recovers : CopyKept(h),
         \A e \in net' : Covered(e)'
  PROVE  Books'
<1>1. Shapes'
  BY DEF Books, Shapes, SameBudget, ConnectKept, CopyKept, EntriesKept
<1>2. connect'.pc # "idle" => connect'.tx \in Ids /\ connect'.tx > budget'["connects"]
  BY DEF Books, ConnectKept, SameBudget
<1>3. connect'.pc \notin {"idle", "apply"} =>
        /\ records'[connect'.tx].entries \subseteq connect'.steps
        /\ connect'.steps \subseteq connect'.plan.entries
  BY DEF Books, ConnectKept, EntriesKept
<1>4. ASSUME NEW i \in Ids, Unused(i)'
      PROVE  Unused(i) /\ records'[i].entries \subseteq records[i].entries
  <2>1. i = connect.tx /\ connect.pc # "idle" => i > budget'["connects"]
    BY DEF Books, SameBudget
  <2>2. budget'["connects"] \in Nat /\ i \in Nat
    BY DEF SameBudget, Ids, Budgets
  <2>3. i = connect.tx /\ connect.pc # "idle" => connect'.pc \in {"apply", "record"}
    BY <1>4, <2>1, <2>2 DEF Unused
  <2> QED
    BY <1>4, <2>3 DEF ConnectKept, SameBudget, Unused, EntriesKept
<1>5. \A i \in Ids : Unused(i)' => /\ records'[i].entries = {}
                                   /\ \A h \in Recovers : rec'[h].tx = i => rec'[h].copy.entries = {}
  BY <1>4 DEF Books, CopyKept
<1> QED
  BY <1>1, <1>2, <1>3, <1>5 DEF Books

\* A step after which e is covered as it was before.
LEMMA CoveredFrame ==
  ASSUME NEW e, Covered(e), e \in lost => e \in lost', e \in half => e \in half',
         e \in Unrecorded => e \in Unrecorded' \cup lost',
         \A i \in Ids : Names(i, e) => Names(i, e)'
  PROVE  Covered(e)'
BY DEF Covered

LEMMA NamesFrame ==
  ASSUME NEW e, NEW i, Names(i, e),
         e \in records'[i].entries, records'[i].state # "rolled_back",
         \A h \in Recovers : rec'[h].pc = "remove" =>
           rec[h].pc = "remove" /\ rec'[h].tx = rec[h].tx /\ rec'[h].copy = rec[h].copy
  PROVE  Names(i, e)'
BY DEF Names

SameRecovers == DOMAIN rec' = Recovers /\ \A h \in Recovers : rec'[h] = rec[h] \/ rec'[h] = NoRecover

LEMMA RecoversKept ==
  ASSUME Books, SameRecovers
  PROVE  /\ \A h \in Recovers : CopyKept(h)
         /\ \A h \in Recovers : rec'[h].pc = "remove" =>
              rec[h].pc = "remove" /\ rec'[h].tx = rec[h].tx /\ rec'[h].copy = rec[h].copy
BY DEF Books, Shapes, SameRecovers, CopyKept, NoRecover, NoTx

\* A step that leaves the records, and undoes something at most.
LEMMA BooksShrink ==
  ASSUME Books, SameBudget, ConnectKept, UNCHANGED records, SameRecovers,
         net' \subseteq net, lost \cap net' \subseteq lost', half \cap net' \subseteq half',
         Unrecorded \cap net' \subseteq Unrecorded' \cup lost'
  PROVE  Books'
<1>1. ASSUME NEW e \in net' PROVE Covered(e)'
  <2>1. Covered(e)
    BY DEF Books
  <2>2. \A i \in Ids : Names(i, e) => Names(i, e)'
    BY RecoversKept, NamesFrame DEF Names
  <2> QED
    BY <2>1, <2>2, CoveredFrame
<1> QED
  BY <1>1, RecoversKept, BooksFrame DEF Books, Shapes, SameRecovers, EntriesKept

LEMMA StaysConnect == Books /\ UNCHANGED connect => ConnectKept /\ Unrecorded' = Unrecorded
BY DEF Books, Shapes, ConnectKept, Unrecorded

LEMMA EndsConnect ==
  connect' = NoConnect => ConnectKept /\ connect'.pc = "idle" /\ Unrecorded' = {}
<1> SUFFICES ASSUME connect' = NoConnect PROVE ConnectKept /\ connect'.pc = "idle" /\ Unrecorded' = {}
  OBVIOUS
<1>1. connect'.pc = "idle" /\ IsConnect(connect)'
  BY DEF NoConnect, NoPlan
<1> QED
  BY <1>1 DEF ConnectKept, Unrecorded

LEMMA Spends ==
  ASSUME Books, \/ UNCHANGED budget
                \/ \E what \in Budgets \ {"connects"} : Spend(what)
  PROVE  SameBudget
BY DEF Books, Shapes, Spend, Budgets, SameBudget

\* Entries that leave the host are in no way.
LEMMA UndoShrinks ==
  ASSUME NEW gone, Undo(gone)
  PROVE  /\ net' \subseteq net /\ net' \cap gone = {}
         /\ lost' = lost \cap net' /\ half' = half \cap net'
BY DEF Undo, Leave, Without

\* What is undone and what its record says then: what the record named is gone,
\* or still named by it.
LEMMA BooksUndone ==
  ASSUME Books, SameBudget, ConnectKept, Unrecorded \subseteq Unrecorded',
         NEW i, NEW what, NEW after, Undo(what), UNCHANGED rec,
         records' = [records EXCEPT ![i] = after],
         i \in Ids => /\ IsRecord(after) /\ after.entries \subseteq records[i].entries
                      /\ \A e \in records[i].entries \ what :
                           e \in after.entries /\ after.state # "rolled_back"
  PROVE  Books'
<1>1. /\ DOMAIN records' = Ids
      /\ \A j \in Ids : records'[j] = IF j = i THEN after ELSE records[j]
  BY DEF Books, Shapes
<1>2. ASSUME NEW e \in net' PROVE Covered(e)'
  <2>1. Covered(e) /\ e \notin what /\ (e \in lost => e \in lost') /\ (e \in half => e \in half')
    BY UndoShrinks DEF Books
  <2>2. ASSUME NEW j \in Ids, Names(j, e) PROVE Names(j, e)'
    <3>1. e \in records'[j].entries /\ records'[j].state # "rolled_back"
      BY <1>1, <2>1, <2>2 DEF Names
    <3> QED
      BY <2>2, <3>1, NamesFrame
  <2> QED
    BY <2>1, <2>2, CoveredFrame
<1>3. \A j \in Ids : EntriesKept(j)
  BY <1>1 DEF Books, Shapes, EntriesKept
<1>4. DOMAIN rec' = Recovers /\ \A h \in Recovers : CopyKept(h)
  BY DEF Books, Shapes, CopyKept
<1> QED
  BY <1>1, <1>2, <1>3, <1>4, BooksFrame

\* A rollback by the record: it goes, or says that it is undone, or keeps its entries.
LEMMA BooksRolledBack ==
  ASSUME Books, NEW i, NEW what, NEW after, RolledBack(i, what, after), UNCHANGED rec,
         i \in Ids => /\ IsRecord(after) /\ after.entries \subseteq records[i].entries
                      /\ records[i].entries \subseteq what,
         ConnectKept, Unrecorded \subseteq Unrecorded'
  PROVE  Books'
<1>1. SameBudget
  BY Spends DEF RolledBack, Budgets
<1>2. CASE Undo(what) /\ SetRecord(i, after)
  BY <1>1, <1>2, BooksUndone DEF SetRecord
<1>3. ASSUME NEW stays \in FailsToUndo(what), Undo(what \ stays),
             records' = [records EXCEPT ![i].state = "rolling_back"]
      PROVE  Books'
  <2> DEFINE tried == [records[i] EXCEPT !.state = "rolling_back"]
  <2>1. records' = [records EXCEPT ![i] = tried]
    BY <1>3
  <2>2. i \in Ids => IsRecord(tried) /\ tried.entries = records[i].entries /\ tried.state = "rolling_back"
    BY DEF Books, Shapes
  <2> HIDE DEF tried
  <2> QED
    BY <1>1, <1>3, <2>1, <2>2, BooksUndone
<1>4. CASE UNCHANGED <<net, records, lost, half>>
  BY <1>1, <1>4, BooksShrink DEF SameRecovers, Books, Shapes
<1> QED
  BY <1>2, <1>3, <1>4 DEF RolledBack

LEMMA BooksConnectProxyOnly ==
  ASSUME Books, NEW d \in Daemons, ConnectProxyOnly(d) PROVE Books'
<1>1. /\ budget' \in [Budgets -> Nat] /\ budget'["connects"] = budget["connects"] - 1
      /\ budget["connects"] \in Nat /\ budget'["connects"] \in Nat
      /\ UNCHANGED <<records, net, connect, rec, lost, half>> /\ connect.pc = "idle"
  BY DEF ConnectProxyOnly, Books, Shapes, Spend, Budgets
<1>2. \A j \in Ids : Unused(j)' => Unused(j)
  BY <1>1 DEF Unused, Ids
<1>3. budget'["connects"] <= MaxTx
  BY <1>1, DaemonAssumption DEF Books, Shapes
<1>4. \A e \in net' : Covered(e)'
  BY <1>1 DEF Books, Covered, Names, Unrecorded
<1> QED
  BY <1>1, <1>2, <1>3, <1>4 DEF Books, Shapes

LEMMA BooksConnectTun ==
  ASSUME Books, NEW d \in Daemons, ConnectTun(d) PROVE Books'
<1> DEFINE i == budget["connects"]
           new == [state |-> "applying", entries |-> {}, children |-> FALSE]
           plan == PlanTun(CollectSnapshot(Host, net))
<1>1. /\ budget' \in [Budgets -> Nat] /\ budget'["connects"] = i - 1 /\ i \in Nat
      /\ i > 0 /\ UNCHANGED <<net, lost, half, rec>> /\ connect.pc = "idle"
  BY DEF ConnectTun, Books, Shapes, Spend, Budgets
<1>2. i \in Ids
  BY <1>1, DaemonAssumption DEF Books, Shapes, Ids
<1>3. IsRecord(new) /\ new.entries = {}
  OBVIOUS
<1>4. DOMAIN records' = Ids /\ \A j \in Ids : records'[j] = IF j = i THEN new ELSE records[j]
  BY <1>2 DEF ConnectTun, SetRecord, Books, Shapes
<1>5. connect' = [pc |-> "apply", by |-> d, tx |-> i, plan |-> plan, steps |-> {}]
  BY DEF ConnectTun
<1>6. IsPlan(plan)
  BY DEF PlanTun
<1>7. IsConnect(connect)' /\ connect'.pc = "apply" /\ connect'.tx = i
  BY <1>5, <1>6
<1>8. Unused(i) /\ records[i].entries = {}
  BY <1>1, <1>2 DEF Books, Unused
<1> HIDE DEF new, plan
<1>9. ASSUME NEW e \in net' PROVE Covered(e)'
  <2>1. Covered(e)
    BY <1>1, <1>9 DEF Books
  <2>2. ASSUME NEW j \in Ids, Names(j, e) PROVE Names(j, e)'
    <3>1. j # i
      BY <1>8, <2>2 DEF Names
    <3>2. e \in records'[j].entries /\ records'[j].state # "rolled_back"
      BY <1>4, <2>2, <3>1 DEF Names
    <3> QED
      BY <1>1, <2>2, <3>2, NamesFrame
  <2>3. Unrecorded = {}
    BY <1>1 DEF Unrecorded
  <2> QED
    BY <1>1, <2>1, <2>2, <2>3, CoveredFrame
<1>10. \A j \in Ids : Unused(j)' => Unused(j)
  BY <1>1, <1>7 DEF Unused, Ids
<1>11. budget'["connects"] <= MaxTx /\ i > budget'["connects"]
  BY <1>1, DaemonAssumption DEF Books, Shapes
<1>12. \A j \in Ids : Unused(j)' => /\ records'[j].entries = {}
                                    /\ \A h \in Recovers : rec'[h].tx = j => rec'[h].copy.entries = {}
  BY <1>1, <1>3, <1>4, <1>10 DEF Books
<1>13. \A j \in Ids : IsRecord(records'[j])
  BY <1>3, <1>4 DEF Books, Shapes
<1>14. Shapes'
  BY <1>1, <1>4, <1>7, <1>11, <1>13 DEF Books, Shapes
<1> QED
  BY <1>2, <1>7, <1>9, <1>11, <1>12, <1>14 DEF Books

LEMMA BooksApply == Books /\ Apply => Books'
<1> SUFFICES ASSUME Books, Apply PROVE Books'
  OBVIOUS
<1>1. /\ net' = net \cup connect.plan.entries /\ UNCHANGED <<records, budget, rec, lost, half>>
      /\ connect.pc = "apply"
  BY DEF Apply
<1>2. /\ IsConnect(connect)' /\ connect'.pc = "record" /\ connect'.tx = connect.tx
      /\ connect'.plan = connect.plan /\ connect'.steps = connect.plan.entries \ net
  BY DEF Apply, Applied, Books, Shapes
<1>3. ASSUME NEW e \in net' PROVE Covered(e)'
  <2>1. CASE e \in net
    <3>1. Covered(e) /\ Unrecorded = {}
      BY <1>1, <2>1 DEF Books, Unrecorded
    <3> QED
      BY <1>1, <3>1, CoveredFrame, NamesFrame DEF Names
  <2>2. CASE e \notin net
    BY <1>1, <1>2, <2>2 DEF Covered, Unrecorded
  <2> QED
    BY <2>1, <2>2
<1>4. Unused(connect.tx) /\ connect.tx \in Ids
  BY <1>1 DEF Unused, Books
<1>5. \A i \in Ids : Unused(i)' <=> Unused(i)
  BY <1>1, <1>2 DEF Unused
<1> QED
  BY <1>1, <1>2, <1>3, <1>4, <1>5 DEF Books, Shapes

LEMMA BooksRecordApplied == Books /\ RecordApplied => Books'
<1> SUFFICES ASSUME Books, RecordApplied PROVE Books'
  OBVIOUS
<1>0. PICK t \in Ids : t = connect.tx
  BY DEF Books, RecordApplied
<1> DEFINE new == [state |-> "verifying", entries |-> connect.steps, children |-> FALSE]
<1>1. t = connect.tx /\ connect.pc = "record" /\ Unused(t) /\ UNCHANGED <<net, lost, half, budget, rec>>
  BY <1>0 DEF RecordApplied, Unused
<1>2. DOMAIN records' = Ids /\ \A j \in Ids : records'[j] = IF j = t THEN new ELSE records[j]
  BY <1>0 DEF RecordApplied, SetRecord, Books, Shapes
<1>3. /\ IsConnect(connect)' /\ connect'.pc = "check" /\ connect'.tx = t
      /\ connect'.steps = connect.steps /\ connect'.plan = connect.plan
  BY <1>0 DEF RecordApplied, Books, Shapes
<1>4. IsRecord(new) /\ new.entries = connect.steps /\ new.state = "verifying"
  OBVIOUS
<1> HIDE DEF new
<1>5. ASSUME NEW e \in net' PROVE Covered(e)'
  <2>1. Covered(e)
    BY <1>1 DEF Books
  <2>2. ASSUME e \in connect.steps PROVE Names(t, e)'
    BY <1>1, <1>2, <1>4, <2>2 DEF Names, Books
  <2>3. ASSUME NEW j \in Ids, Names(j, e), j # t PROVE Names(j, e)'
    BY <1>1, <1>2, <2>3, NamesFrame DEF Names
  <2>4. ~Names(t, e)
    BY <1>1 DEF Names, Books
  <2> QED
    BY <1>1, <2>1, <2>2, <2>3, <2>4 DEF Covered, Unrecorded
<1>6. ConnectKept /\ \A i \in Ids : EntriesKept(i)
  BY <1>1, <1>2, <1>3, <1>4 DEF ConnectKept, EntriesKept, Books, Shapes
<1>7. SameBudget /\ DOMAIN rec' = Recovers /\ \A h \in Recovers : CopyKept(h)
  BY <1>1 DEF SameBudget, CopyKept, Books, Shapes
<1> QED
  BY <1>2, <1>5, <1>6, <1>7, BooksFrame

\* A rollback of what was reported: what it leaves is in the record, made by the
\* step that failed, or in no record because none could be written.
LEMMA BooksRollbackTunFailure ==
  ASSUME Books, connect.pc \in {"apply", "record", "check"},
         NEW on, NEW halfMade, NEW steps, NEW fault,
         RollbackTunFailure(on, halfMade, steps, fault), UNCHANGED rec,
         records[connect.tx].entries \subseteq steps,
         \A e \in on : \/ e \in halfMade
                       \/ e \in steps /\ Unused(connect.tx)
                       \/ e \in net /\ (e \in Unrecorded => e \in steps)
  PROVE  Books'
<1>0. PICK t \in Ids : t = connect.tx
  BY DEF Books
<1> DEFINE record(state) == [state |-> state, entries |-> steps, children |-> FALSE]
<1>1. ConnectKept /\ connect'.pc = "idle"
  BY EndsConnect DEF RollbackTunFailure
<1>2. SameBudget
  BY Spends DEF RollbackTunFailure, SpendIf, Budgets
<1>3. DOMAIN rec' = Recovers /\ \A h \in Recovers : CopyKept(h)
  BY DEF Books, Shapes, CopyKept
<1>4. \A e \in on : \/ e \in halfMade
                    \/ e \in steps /\ Unused(t)
                    \/ e \in net /\ Covered(e) /\ (e \in Unrecorded => e \in steps /\ Unused(t))
  BY <1>0 DEF Books, Unrecorded, Unused
<1>5. ASSUME NEW state \in {"rolled_back", "failed"}, NEW stays, Leave(Without(on, steps \ stays), {}, halfMade),
             records' = [records EXCEPT ![t] = record(state)],
             state = "rolled_back" => stays = {}
      PROVE  Books'
  <2>1. /\ DOMAIN records' = Ids
        /\ \A j \in Ids : records'[j] = IF j = t THEN record(state) ELSE records[j]
    BY <1>5 DEF Books, Shapes
  <2>2. IsRecord(record(state)) /\ record(state).entries = steps /\ record(state).state = state
    OBVIOUS
  <2> HIDE DEF record
  <2>3. \A j \in Ids : EntriesKept(j)
    BY <1>0, <1>1, <2>1, <2>2 DEF EntriesKept, Books, Shapes
  <2>4. ASSUME NEW e \in net' PROVE Covered(e)'
    <3>1. e \in on /\ e \notin steps \ stays /\ (e \in lost => e \in lost')
          /\ (e \in half \cup halfMade => e \in half')
      BY <1>5, <2>4 DEF Leave, Without
    <3>2. e \in steps => state = "failed"
      BY <1>5, <3>1
    <3>3. CASE e \in halfMade
      BY <3>1, <3>3 DEF Covered
    <3>4. CASE e \in steps /\ Unused(t)
      <4>1. Names(t, e)'
        BY <2>1, <2>2, <3>2, <3>4 DEF Names, Books
      <4> QED
        BY <4>1 DEF Covered
    <3>5. CASE Covered(e) /\ e \notin Unrecorded
      <4>1. ASSUME NEW j \in Ids, Names(j, e) PROVE Names(j, e)'
        <5>1. j = t => e \in steps
          BY <1>0, <4>1 DEF Names
        <5>2. e \in records'[j].entries /\ records'[j].state # "rolled_back"
          BY <2>1, <2>2, <3>2, <4>1, <5>1 DEF Names
        <5> QED
          BY <4>1, <5>2, NamesFrame
      <4> QED
        BY <3>1, <3>5, <4>1, CoveredFrame
    <3> QED
      BY <1>4, <3>1, <3>3, <3>4, <3>5
  <2> QED
    BY <1>1, <1>2, <1>3, <2>1, <2>3, <2>4, BooksFrame
<1>6. ASSUME Leave(on, steps \ records[t].entries, halfMade), UNCHANGED records PROVE Books'
  <2>1. ASSUME NEW e \in net' PROVE Covered(e)'
    <3>1. e \in on /\ (e \in lost => e \in lost') /\ (e \in half \cup halfMade => e \in half')
          /\ (e \in steps \ records[t].entries => e \in lost')
      BY <1>6, <2>1 DEF Leave
    <3>2. CASE e \in halfMade
      BY <3>1, <3>2 DEF Covered
    <3>3. CASE e \in steps /\ Unused(t)
      BY <3>1, <3>3 DEF Covered, Books
    <3>4. CASE Covered(e) /\ e \notin Unrecorded
      BY <1>6, <3>1, <3>4, CoveredFrame, NamesFrame DEF Names
    <3> QED
      BY <1>4, <3>1, <3>2, <3>3, <3>4
  <2>2. \A j \in Ids : EntriesKept(j)
    BY <1>6 DEF EntriesKept, Books, Shapes
  <2> QED
    BY <1>1, <1>2, <1>3, <1>6, <2>1, <2>2, BooksFrame DEF Books, Shapes
<1>7. CASE Leave(Without(on, steps), {}, halfMade) /\ SetRecord(t, record("rolled_back"))
  <2>1. steps \ {} = steps
    OBVIOUS
  <2> QED
    BY <1>5, <1>7, <2>1 DEF SetRecord
<1>8. CASE \E stays \in FailsToUndo(steps) :
             /\ Leave(Without(on, steps \ stays), {}, halfMade)
             /\ SetRecord(t, record("failed"))
  BY <1>5, <1>8 DEF SetRecord
<1> QED
  BY <1>0, <1>6, <1>7, <1>8 DEF RollbackTunFailure

LEMMA BooksApplyFails == Books /\ ApplyFails => Books'
<1> SUFFICES ASSUME Books, ApplyFails PROVE Books'
  OBVIOUS
<1>1. /\ connect.pc = "apply" /\ Unused(connect.tx) /\ UNCHANGED rec /\ Unrecorded = {}
      /\ records[connect.tx].entries = {}
  BY DEF ApplyFails, Unused, Unrecorded, Books
<1>2. CASE RollbackTunFailure(net, {}, {}, FALSE)
  BY <1>1, <1>2, BooksRollbackTunFailure
<1>3. ASSUME NEW before, NEW made, NEW works,
             RollbackTunFailure(net \cup before \cup made, made, Applied(before, net), works)
      PROVE  Books'
  <2>1. \A e \in net \cup before \cup made : e \in made \/ e \in Applied(before, net) \/ e \in net
    BY DEF Applied
  <2> QED
    BY <1>1, <1>3, <2>1, BooksRollbackTunFailure
<1> QED
  BY <1>2, <1>3 DEF ApplyFails

LEMMA BooksRecordFails == Books /\ RecordFails => Books'
<1> SUFFICES ASSUME Books, RecordFails PROVE Books'
  OBVIOUS
<1>1. /\ connect.pc \in {"record", "check"} /\ UNCHANGED rec
      /\ records[connect.tx].entries \subseteq connect.steps
      /\ Unrecorded \subseteq connect.steps
  BY DEF RecordFails, Unrecorded, Books
<1>2. \E fault : RollbackTunFailure(net, {}, connect.steps, fault)
  BY DEF RecordFails
<1> QED
  BY <1>1, <1>2, BooksRollbackTunFailure

LEMMA BooksLoadFails == Books /\ (LoadFails \/ VerifyPlan) => Books'
<1> SUFFICES ASSUME Books, LoadFails \/ VerifyPlan PROVE Books'
  OBVIOUS
<1>1. connect.pc \in {"apply", "check"} /\ UNCHANGED <<records, net, rec, lost, half>>
  BY DEF LoadFails, VerifyPlan, hostVars, history
<1>2. ConnectKept /\ Unrecorded = {} /\ SameBudget
  <2>1. CASE LoadFails
    BY <2>1, EndsConnect, Spends DEF LoadFails, SpendIf, Unrecorded, Budgets
  <2>2. CASE VerifyPlan
    BY <2>2, Spends DEF VerifyPlan, ConnectKept, Unrecorded, Books, Shapes
  <2> QED
    BY <2>1, <2>2
<1> QED
  BY <1>1, <1>2, BooksShrink DEF SameRecovers, Books, Shapes

\* The steps that change a record, but not its entries.
LEMMA BooksStartChildren == Books /\ (StartChildren \/ Commit) => Books'
<1> SUFFICES ASSUME Books, StartChildren \/ Commit PROVE Books'
  OBVIOUS
<1>1. /\ DOMAIN records' = Ids
      /\ \A j \in Ids : /\ IsRecord(records'[j]) /\ records'[j].entries = records[j].entries
                        /\ records'[j].state = records[j].state \/ records'[j].state = "committed"
  BY DEF StartChildren, Commit, Books, Shapes
<1>2. /\ ConnectKept /\ connect.pc \in {"core", "verify"} /\ SameBudget
      /\ UNCHANGED <<net, lost, half, rec>>
  <2>1. CASE StartChildren
    BY <2>1, Spends DEF StartChildren, ConnectKept, Books, Shapes
  <2>2. CASE Commit
    BY <2>2, EndsConnect, Spends DEF Commit
  <2> QED
    BY <2>1, <2>2
<1>3. ASSUME NEW e \in net' PROVE Covered(e)'
  <2>1. Covered(e) /\ Unrecorded = {}
    BY <1>2 DEF Books, Unrecorded
  <2>2. \A j \in Ids : Names(j, e) => Names(j, e)'
    BY <1>1, <1>2, NamesFrame DEF Names
  <2> QED
    BY <1>2, <2>1, <2>2, CoveredFrame
<1>4. \A j \in Ids : EntriesKept(j)
  BY <1>1 DEF EntriesKept
<1>5. DOMAIN rec' = Recovers /\ \A h \in Recovers : CopyKept(h)
  BY <1>2 DEF CopyKept, Books, Shapes
<1> QED
  BY <1>1, <1>2, <1>3, <1>4, <1>5, BooksFrame

LEMMA BooksConnectFails == Books /\ ConnectFails => Books'
<1> SUFFICES ASSUME Books, ConnectFails PROVE Books'
  OBVIOUS
<1> DEFINE after == UndoneRecord(connect.tx)
<1>1. /\ connect.pc \in {"core", "verify"} /\ connect.tx \in Ids /\ ConnectKept /\ UNCHANGED rec
      /\ Unrecorded = {} /\ RolledBack(connect.tx, connect.plan.entries, after)
  BY EndsConnect DEF ConnectFails, Books, Unrecorded
<1>2. IsRecord(after) /\ after.entries = records[connect.tx].entries
  BY <1>1 DEF UndoneRecord, Books, Shapes
<1>3. records[connect.tx].entries \subseteq connect.plan.entries
  BY <1>1 DEF Books
<1> HIDE DEF after
<1> QED
  BY <1>1, <1>2, <1>3, BooksRolledBack

LEMMA BooksDisconnectOf ==
  ASSUME Books, NEW d \in Daemons, DisconnectOf(d), UNCHANGED <<connect, rec>> PROVE Books'
<1> DEFINE i == conn[d].tx
           undone == UndoneRecord(i)
<1>1. ConnectKept /\ Unrecorded' = Unrecorded
  BY StaysConnect
<1>2. IsRecord(NoTx) /\ NoTx.entries = {}
  BY DEF NoTx
<1>3. i \in Ids => IsRecord(undone) /\ undone.entries = records[i].entries
  BY DEF UndoneRecord, Books, Shapes
<1> HIDE DEF undone
<1>4. CASE RolledBack(i, records[i].entries, NoTx)
  BY <1>1, <1>2, <1>4, BooksRolledBack
<1>5. CASE Spend("faults") /\ Undo(records[i].entries) /\ SetRecord(i, undone)
  <2>1. SameBudget
    BY <1>5, Spends DEF Budgets
  <2> QED
    BY <1>1, <1>3, <1>5, <2>1, BooksUndone DEF SetRecord
<1>6. CASE UNCHANGED <<net, records, lost, half, budget>>
  BY <1>1, <1>6, BooksShrink, Spends DEF SameRecovers, Books, Shapes
<1> QED
  BY <1>4, <1>5, <1>6 DEF DisconnectOf, undone

LEMMA BooksDisconnectAtEnd ==
  ASSUME Books, NEW d \in Daemons, DisconnectAtEnd(d), UNCHANGED <<connect, rec>> PROVE Books'
<1>1. CASE UNCHANGED <<net, records, lost, half, budget>>
  BY <1>1, StaysConnect, BooksShrink, Spends DEF SameRecovers, Books, Shapes
<1> QED
  BY <1>1, BooksDisconnectOf DEF DisconnectAtEnd, hostVars

LEMMA BooksEndProcess ==
  ASSUME Books, NEW d \in Daemons, EndProcess(d), UNCHANGED <<records, net>>, SameBudget
  PROVE  Books'
<1>1. SameRecovers /\ half' = half /\ lost \subseteq lost'
  BY DEF EndProcess, SameRecovers
<1>2. ConnectKept /\ Unrecorded \subseteq Unrecorded' \cup lost'
  BY EndsConnect, StaysConnect DEF EndProcess
<1> QED
  BY <1>1, <1>2, BooksShrink

LEMMA BooksEnding ==
  ASSUME Books, NEW d \in Daemons, Unwind(d) \/ Crash(d) PROVE Books'
<1>1. SameBudget
  BY Spends DEF Unwind, Crash, Budgets
<1>2. CASE EndProcess(d) /\ UNCHANGED <<records, net>>
  BY <1>1, <1>2, BooksEndProcess
<1>3. CASE UNCHANGED <<records, net, connect, rec, lost, half>>
  BY <1>1, <1>3, StaysConnect, BooksShrink DEF SameRecovers, Books, Shapes
<1> QED
  BY <1>2, <1>3 DEF Unwind, Crash, hostVars, handlers, history

LEMMA BooksUnitEnds ==
  ASSUME Books, NEW d \in Daemons, UnitEnds(d) PROVE Books'
<1>1. DOMAIN records' = Ids /\ \A i \in Ids : records'[i].entries = {} /\ IsRecord(records'[i])
  BY DEF UnitEnds, NoTx
<1>2. /\ SameBudget /\ ConnectKept /\ UNCHANGED rec
  BY StaysConnect, Spends DEF UnitEnds, handlers
<1>3. \A e \in net' : Covered(e)'
  BY DEF UnitEnds, Covered
<1>4. \A i \in Ids : EntriesKept(i)
  BY <1>1 DEF EntriesKept
<1>5. DOMAIN rec' = Recovers /\ \A h \in Recovers : CopyKept(h)
  BY <1>2 DEF CopyKept, Books, Shapes
<1> QED
  BY <1>1, <1>2, <1>3, <1>4, <1>5, BooksFrame

LEMMA ReportLands ==
  ASSUME DOMAIN rec = Recovers, NEW h \in Recovers, IsRecover(rec[h]),
         NEW c, NEW status, Report(h, c, status)
  PROVE  /\ DOMAIN rec' = Recovers /\ \A g \in Recovers \ {h} : rec'[g] = rec[g]
         /\ IsRecover(rec'[h]) /\ rec'[h].by = rec[h].by
         /\ rec'[h].pc = "clean" /\ rec'[h].copy = NoTx
<1>1. /\ DOMAIN rec' = Recovers /\ \A g \in Recovers \ {h} : rec'[g] = rec[g]
      /\ rec'[h] = [rec[h] EXCEPT !.pc = "clean", !.tx = None, !.copy = NoTx,
                    !.todo = rec[h].todo \ {c},
                    !.results = rec[h].results \cup {[candidate |-> c, status |-> status]}]
  BY DEF Report
<1> QED
  BY <1>1

\* A recover that has one candidate less, and holds no record.
LEMMA RecoverReports ==
  ASSUME Books, NEW h \in Recovers, NEW c, NEW status, Report(h, c, status)
  PROVE  /\ DOMAIN rec' = Recovers /\ \A g \in Recovers \ {h} : rec'[g] = rec[g]
         /\ IsRecover(rec'[h]) /\ rec'[h].pc = "clean" /\ rec'[h].copy = NoTx
         /\ \A g \in Recovers : CopyKept(g)
         /\ \A g \in Recovers : rec'[g].pc = "remove" =>
              rec[g].pc = "remove" /\ rec'[g].tx = rec[g].tx /\ rec'[g].copy = rec[g].copy
<1>1. /\ DOMAIN rec' = Recovers /\ \A g \in Recovers \ {h} : rec'[g] = rec[g]
      /\ IsRecover(rec'[h]) /\ rec'[h].pc = "clean" /\ rec'[h].copy = NoTx
  BY ReportLands DEF Books, Shapes
<1>2. \A g \in Recovers : CopyKept(g)
  BY <1>1 DEF CopyKept, Books, Shapes, NoTx
<1> QED
  BY <1>1, <1>2

\* A step of a recover that leaves the records.
LEMMA BooksRecovers ==
  ASSUME Books, SameBudget, UNCHANGED <<records, connect>>, DOMAIN rec' = Recovers,
         \A g \in Recovers : CopyKept(g),
         net' \subseteq net, lost \cap net' \subseteq lost', half \cap net' \subseteq half',
         \A g \in Recovers : rec'[g].pc = "remove" =>
           \/ rec[g].pc = "remove" /\ rec'[g].tx = rec[g].tx /\ rec'[g].copy = rec[g].copy
           \/ net' \cap rec'[g].copy.entries = {}
  PROVE  Books'
<1>1. ASSUME NEW e \in net' PROVE Covered(e)'
  <2>1. Covered(e) /\ Unrecorded' = Unrecorded
    BY DEF Books, Unrecorded
  <2>2. \A i \in Ids : Names(i, e) => Names(i, e)'
    BY <1>1 DEF Names
  <2> QED
    BY <1>1, <2>1, <2>2, CoveredFrame
<1>2. ConnectKept
  BY StaysConnect
<1> QED
  BY <1>1, <1>2, BooksFrame DEF EntriesKept, Books, Shapes

LEMMA BooksCleanLoads ==
  ASSUME Books, NEW h \in Recovers, CleanLoads(h) PROVE Books'
<1>1. UNCHANGED <<records, connect, net, lost, half>>
  BY DEF CleanLoads, hostVars, history
<1>2. SameBudget
  BY Spends DEF CleanLoads, Budgets
<1>3. CASE \E c, status : Report(h, c, status)
  BY <1>1, <1>2, <1>3, RecoverReports, BooksRecovers
<1>4. ASSUME NEW i, rec' = [rec EXCEPT ![h] = [@ EXCEPT !.pc = "undo", !.tx = i,
                                                        !.copy = records[i]]]
      PROVE  Books'
  <2>1. /\ DOMAIN rec' = Recovers /\ \A g \in Recovers \ {h} : rec'[g] = rec[g]
        /\ IsRecover(rec'[h]) /\ rec'[h].pc = "undo" /\ rec'[h].tx = i
        /\ rec'[h].copy = records[i]
    <3>1. /\ DOMAIN rec' = Recovers /\ \A g \in Recovers \ {h} : rec'[g] = rec[g]
          /\ rec'[h] = [rec[h] EXCEPT !.pc = "undo", !.tx = i, !.copy = records[i]]
      BY <1>4 DEF Books, Shapes
    <3>2. IsRecover(rec[h])
      BY DEF Books, Shapes
    <3> QED
      BY <3>1, <3>2
  <2>2. \A g \in Recovers : CopyKept(g)
    BY <2>1 DEF CopyKept, Books, Shapes
  <2> QED
    BY <1>1, <1>2, <2>1, <2>2, BooksRecovers
<1> QED
  BY <1>3, <1>4 DEF CleanLoads

\* What a recover is about to remove the record of is not on the host any more.
LEMMA BooksCleanUndoes ==
  ASSUME Books, NEW h \in Recovers, CleanUndoes(h) PROVE Books'
<1> DEFINE copy   == rec[h].copy
           known  == {e \in copy.entries : Recognised(e)}
           broken == {e \in known : ~ToolWorks(Tool(e))}
<1>1. UNCHANGED <<records, connect>> /\ SameBudget
  BY Spends DEF CleanUndoes, SpendIf, Budgets
<1>2. PICK stays \in FailsToUndo(known), fault \in BOOLEAN :
        /\ stays # {} => fault
        /\ Undo(known \ (broken \cup stays))
        /\ \/ \E c, status : Report(h, c, status)
           \/ /\ ~fault /\ broken = {} /\ ~SkippedOf(copy)
              /\ rec' = [rec EXCEPT ![h].pc = "remove"]
  BY DEF CleanUndoes
<1>3. /\ net' \subseteq net /\ net' \cap (known \ (broken \cup stays)) = {}
      /\ lost' = lost \cap net' /\ half' = half \cap net'
  BY <1>2, UndoShrinks
<1>4. CASE \E c, status : Report(h, c, status)
  BY <1>1, <1>3, <1>4, RecoverReports, BooksRecovers
<1>5. CASE /\ ~fault /\ broken = {} /\ ~SkippedOf(copy)
           /\ rec' = [rec EXCEPT ![h].pc = "remove"]
  <2>1. known = copy.entries
    BY <1>5 DEF SkippedOf
  <2>2. net' \cap copy.entries = {}
    BY <1>2, <1>3, <1>5, <2>1
  <2>3. /\ DOMAIN rec' = Recovers /\ \A g \in Recovers \ {h} : rec'[g] = rec[g]
        /\ IsRecover(rec'[h]) /\ rec'[h].tx = rec[h].tx /\ rec'[h].copy = copy
    BY <1>5 DEF Books, Shapes
  <2>4. \A g \in Recovers : CopyKept(g)
    BY <2>3 DEF CopyKept, Books, Shapes
  <2> HIDE DEF copy
  <2> QED
    BY <1>1, <1>3, <2>2, <2>3, <2>4, BooksRecovers
<1> QED
  BY <1>2, <1>4, <1>5

\* What the record names by now and the recover has not read is lost.
LEMMA BooksCleanRemoves ==
  ASSUME Books, NEW h \in Recovers, CleanRemoves(h) PROVE Books'
<1> DEFINE i == rec[h].tx
<1>1. UNCHANGED <<connect, net, half>> /\ SameBudget /\ rec[h].pc = "remove"
  BY Spends DEF CleanRemoves, Budgets
<1>2. \E c, status : Report(h, c, status)
  BY DEF CleanRemoves
<1>3. CASE UNCHANGED <<records, lost>>
  BY <1>1, <1>2, <1>3, RecoverReports, BooksRecovers
<1>4. CASE /\ SetRecord(i, NoTx)
           /\ lost' = lost \cup (net \cap (records[i].entries \ rec[h].copy.entries))
  <2>1. /\ DOMAIN records' = Ids
        /\ \A j \in Ids : records'[j] = IF j = i THEN NoTx ELSE records[j]
    BY <1>4 DEF SetRecord, Books, Shapes
  <2>2. \A j \in Ids : EntriesKept(j)
    BY <2>1 DEF EntriesKept, NoTx, Books, Shapes
  <2>3. ASSUME NEW e \in net' PROVE Covered(e)'
    <3>1. Covered(e) /\ Unrecorded' = Unrecorded
      BY <1>1, <2>3 DEF Books, Unrecorded
    <3>2. Names(i, e) => e \in lost'
      BY <1>1, <1>4, <2>3 DEF Names
    <3>3. ASSUME NEW j \in Ids, Names(j, e), j # i PROVE Names(j, e)'
      BY <1>2, <2>1, <3>3, RecoverReports, NamesFrame DEF Names
    <3> QED
      BY <1>1, <1>4, <3>1, <3>2, <3>3 DEF Covered
  <2> QED
    BY <1>1, <1>2, <2>1, <2>2, <2>3, StaysConnect, RecoverReports, BooksFrame
<1> QED
  BY <1>3, <1>4 DEF CleanRemoves

LEMMA BooksCleanOther ==
  ASSUME Books, NEW h \in Recovers, CleanOther(h) PROVE Books'
<1>1. UNCHANGED <<records, connect>> /\ SameBudget
  BY Spends DEF CleanOther, Budgets
<1>2. PICK c, status :
        /\ Report(h, c, status)
        /\ CleanCandidate(c) \/ UNCHANGED <<net, lost, half>>
  BY DEF CleanOther
<1>3. \/ UNCHANGED <<net, lost, half>>
      \/ \E gone : Undo(gone)
  BY <1>2 DEF CleanCandidate
<1>4. net' \subseteq net /\ lost \cap net' \subseteq lost' /\ half \cap net' \subseteq half'
  BY <1>3, UndoShrinks
<1> QED
  BY <1>1, <1>2, <1>4, RecoverReports, BooksRecovers

\* The steps of a connect under way, and those by which a recover cleans.
ConnectStep  == \/ Apply \/ ApplyFails \/ RecordApplied \/ RecordFails \/ LoadFails \/ VerifyPlan
                \/ StartChildren \/ Commit \/ ConnectFails
CleanStep(h) == CleanLoads(h) \/ CleanUndoes(h) \/ CleanRemoves(h) \/ CleanOther(h)

\* A recover that only starts, answers or refreshes the scan.
LEMMA BooksRecover ==
  ASSUME Books, NEW h \in Recovers,
         \/ \E d \in Daemons : RecoverStart(h, d)
         \/ RefreshScans(h) \/ RefreshStores(h) \/ Respond(h)
  PROVE  Books'
<1>1. UNCHANGED <<records, connect, net, lost, half>>
  BY DEF RecoverStart, RefreshScans, RefreshStores, Respond, hostVars, history
<1>2. SameBudget
  BY Spends DEF RecoverStart, RefreshScans, RefreshStores, Respond, Budgets
<1>3. /\ DOMAIN rec' = Recovers /\ \A g \in Recovers \ {h} : rec'[g] = rec[g]
      /\ IsRecover(rec'[h]) /\ rec'[h].pc # "remove"
      /\ \/ rec'[h].copy = NoTx
         \/ rec'[h].tx = rec[h].tx /\ rec'[h].copy = rec[h].copy
  <2>1. CASE \E d \in Daemons : RecoverStart(h, d)
    BY <2>1 DEF RecoverStart, Books, Shapes
  <2>2. CASE RefreshScans(h)
    <3>1. /\ DOMAIN rec' = Recovers /\ \A g \in Recovers \ {h} : rec'[g] = rec[g]
          /\ rec'[h] = [rec[h] EXCEPT !.pc = "store", !.scan = RecoveryScan]
      BY <2>2 DEF RefreshScans, Books, Shapes
    <3>2. IsRecover(rec[h])
      BY DEF Books, Shapes
    <3> QED
      BY <3>1, <3>2
  <2>3. CASE RefreshStores(h)
    BY <2>3 DEF RefreshStores, Books, Shapes
  <2>4. CASE Respond(h)
    BY <2>4 DEF Respond, NoRecover, Books, Shapes
  <2> QED
    BY <2>1, <2>2, <2>3, <2>4
<1>4. \A g \in Recovers : CopyKept(g)
  BY <1>3 DEF CopyKept, NoTx, Books, Shapes
<1> QED
  BY <1>1, <1>2, <1>3, <1>4, BooksRecovers

LEMMA BooksNext == Books /\ [Next]_vars => Books'
<1> SUFFICES ASSUME Books, [Next]_vars PROVE Books'
  OBVIOUS
<1>1. CASE UNCHANGED <<records, net, connect, rec, lost, half>> /\ SameBudget
  BY <1>1, StaysConnect, BooksShrink DEF SameRecovers, Books, Shapes
<1>2. CASE \E d \in Daemons : Start(d) \/ Listen(d)
  BY <1>2, <1>1, Spends DEF Start, Listen, hostVars, handlers, history, Budgets
<1>3. CASE \E d \in Daemons : ConnectProxyOnly(d) \/ ConnectTun(d)
  BY <1>3, BooksConnectProxyOnly, BooksConnectTun
<1>4. CASE \E d \in Daemons : Disconnect(d) \/ Stop(d) \/ ServeFails(d)
  BY <1>4, BooksDisconnectOf, BooksDisconnectAtEnd DEF Disconnect, Stop, ServeFails
<1>5. CASE \E d \in Daemons : Unwind(d) \/ Crash(d) \/ UnitEnds(d)
  BY <1>5, BooksEnding, BooksUnitEnds
<1>6. CASE \E h \in Recovers : CleanStep(h)
  BY <1>6, BooksCleanLoads, BooksCleanUndoes, BooksCleanRemoves, BooksCleanOther DEF CleanStep
<1>7. CASE \E h \in Recovers : \/ \E d \in Daemons : RecoverStart(h, d)
                               \/ RefreshScans(h) \/ RefreshStores(h) \/ Respond(h)
  BY <1>7, BooksRecover
<1>8. CASE ConnectStep
  BY <1>8, BooksApply, BooksApplyFails, BooksRecordApplied, BooksRecordFails, BooksLoadFails,
     BooksStartChildren, BooksConnectFails DEF ConnectStep
<1>9. CASE \/ \E d \in Daemons : \/ TakeLock(d) \/ ScanAtStartup(d) \/ RemoveStaleSocket(d)
                                 \/ CloseListener(d)
           \/ ClearStaleLock \/ UNCHANGED vars
  BY <1>9, <1>1, Spends DEF TakeLock, ScanAtStartup, RemoveStaleSocket, CloseListener,
     ClearStaleLock, vars, hostVars, handlers, history
<1> QED
  BY <1>2, <1>3, <1>4, <1>5, <1>6, <1>7, <1>8, <1>9 DEF Next, ConnectStep, CleanStep

\* Neither a connect that fails, nor a disconnect, nor a recover forgets an
\* entry it leaves on the host: it stays in a record that does not say it is
\* undone, unless a step that failed half-way has made it, or its record could
\* not be written, or was removed unread, with or without the directory.
THEOREM NothingForgottenAlways == Spec => []NothingForgotten
<1>1. Books => NothingForgotten
  BY DEF Books, Covered, Names, NothingForgotten
<1> QED
  BY <1>1, BooksInit, BooksNext, PTL DEF Spec

-----------------------------------------------------------------------------
(* The scan is current.  Whoever changes the host, or the scan of a daemon, *)
(* touches every recover but itself; so what an untouched recover has      *)
(* scanned is what a scan would find now.                                  *)

\* What an untouched recover knows.
Knows(h) ==
  /\ rec[h].pc = "store" => rec[h].scan = RecoveryScan
  /\ rec[h].pc = "done"  => scan[rec[h].by] = RecoveryScan

Known ==
  /\ DOMAIN scan = Daemons /\ DOMAIN rec = Recovers
  /\ \A h \in Recovers : IsRecover(rec[h]) /\ (rec[h].pc # "idle" => rec[h].by \in Daemons)
  /\ \A h \in InFlight : h \notin touched => Knows(h)

LEMMA KnownInit == Init => Known
<1> SUFFICES ASSUME Init PROVE Known
  OBVIOUS
<1>1. NoRecover.pc = "idle" /\ IsRecover(NoRecover)
  BY DEF NoRecover
<1>2. /\ DOMAIN scan = Daemons /\ DOMAIN rec = Recovers
      /\ \A h \in Recovers : rec[h] = NoRecover
  BY DEF Init
<1> QED
  BY <1>1, <1>2 DEF Known, InFlight

LEMMA SameScan == UNCHANGED <<world, hostVars>> => RecoveryScan' = RecoveryScan
BY DEF hostVars, RecoveryScan, Host, W

\* A step that leaves the host, or touches every recover.
LEMMA KnownTouched ==
  ASSUME Known, UNCHANGED <<rec, scan>>,
         \/ UNCHANGED <<world, hostVars>> /\ touched \subseteq touched'
         \/ InFlight \subseteq touched'
  PROVE  Known'
<1>1. InFlight' = InFlight
  BY DEF InFlight
<1>2. ASSUME NEW h \in InFlight, h \notin touched', UNCHANGED <<world, hostVars>>,
             touched \subseteq touched'
      PROVE  Knows(h)'
  BY <1>2, SameScan DEF Known, Knows
<1> QED
  BY <1>1, <1>2 DEF Known

LEMMA TouchAll == Touch(None) \/ Touch("connect") => InFlight \subseteq touched'
BY DaemonAssumption DEF Touch, InFlight

LEMMA KnownHost ==
  ASSUME Known, \/ \E d \in Daemons : \/ ConnectProxyOnly(d) \/ ConnectTun(d) \/ Disconnect(d)
                                      \/ Stop(d) \/ ServeFails(d) \/ UnitEnds(d)
                \/ ConnectStep
  PROVE  Known'
<1>1. UNCHANGED <<rec, scan>>
  BY DEF ConnectProxyOnly, ConnectTun, Disconnect, Stop, ServeFails, UnitEnds, ConnectStep,
     Apply, ApplyFails, RecordApplied, RecordFails, LoadFails, VerifyPlan, StartChildren,
     Commit, ConnectFails, handlers
<1>2. CASE \E d \in Daemons : Disconnect(d) \/ Stop(d) \/ ServeFails(d)
  <2>1. PICK d \in Daemons : DisconnectOf(d) \/ DisconnectAtEnd(d)
    BY <1>2 DEF Disconnect, Stop, ServeFails
  <2>2. \/ InFlight \subseteq touched'
        \/ UNCHANGED <<hostVars, touched>>
    BY <2>1, TouchAll DEF DisconnectOf, DisconnectAtEnd, hostVars
  <2>3. UNCHANGED world
    BY <1>2 DEF Disconnect, Stop, ServeFails
  <2> QED
    BY <1>1, <2>2, <2>3, KnownTouched
<1>3. CASE \E d \in Daemons : ConnectTun(d)
  BY <1>1, <1>3, KnownTouched DEF ConnectTun
<1>4. CASE (\E d \in Daemons : ConnectProxyOnly(d) \/ UnitEnds(d)) \/ ConnectStep
  BY <1>1, <1>4, KnownTouched, TouchAll DEF ConnectProxyOnly, UnitEnds, ConnectStep, Apply,
     ApplyFails, RecordApplied, RecordFails, LoadFails, VerifyPlan, StartChildren, Commit,
     ConnectFails, history
<1> QED
  BY <1>2, <1>3, <1>4

\* The steps by which h cleans change no other recover.
LEMMA CleanSteps ==
  ASSUME DOMAIN rec = Recovers, NEW h \in Recovers, IsRecover(rec[h]), CleanStep(h)
  PROVE  /\ DOMAIN rec' = Recovers /\ \A g \in Recovers \ {h} : rec'[g] = rec[g]
         /\ IsRecover(rec'[h]) /\ rec'[h].pc \in {"clean", "undo", "remove"}
         /\ rec'[h].by = rec[h].by /\ rec[h].pc \in {"clean", "undo", "remove"}
         /\ UNCHANGED <<scan, phase, conn, connect>>
<1>1. /\ rec[h].pc \in {"clean", "undo", "remove"}
      /\ UNCHANGED <<scan, phase, conn, connect>>
  BY DEF CleanStep, CleanLoads, CleanUndoes, CleanRemoves, CleanOther, serverVars
<1>2. CASE \E c, status : Report(h, c, status)
  BY <1>1, <1>2, ReportLands
<1>3. ASSUME NEW i, rec' = [rec EXCEPT ![h] = [@ EXCEPT !.pc = "undo", !.tx = i,
                                                        !.copy = records[i]]]
      PROVE  /\ DOMAIN rec' = Recovers /\ \A g \in Recovers \ {h} : rec'[g] = rec[g]
             /\ IsRecover(rec'[h]) /\ rec'[h].pc = "undo" /\ rec'[h].by = rec[h].by
  <2>1. /\ DOMAIN rec' = Recovers /\ \A g \in Recovers \ {h} : rec'[g] = rec[g]
        /\ rec'[h] = [rec[h] EXCEPT !.pc = "undo", !.tx = i, !.copy = records[i]]
    BY <1>3
  <2> QED
    BY <2>1
<1>4. CASE rec' = [rec EXCEPT ![h].pc = "remove"]
  BY <1>1, <1>4
<1>5. CASE CleanLoads(h)
  BY <1>1, <1>2, <1>3, <1>5 DEF CleanLoads
<1>6. CASE CleanUndoes(h)
  BY <1>1, <1>2, <1>4, <1>6 DEF CleanUndoes
<1>7. CASE CleanRemoves(h) \/ CleanOther(h)
  BY <1>2, <1>7 DEF CleanRemoves, CleanOther
<1> QED
  BY <1>5, <1>6, <1>7 DEF CleanStep

\* The steps of a recover: all but h are touched, or nothing that they know
\* has changed.
LEMMA KnownRecover ==
  ASSUME Known, NEW h \in Recovers,
         \/ \E d \in Daemons : RecoverStart(h, d)
         \/ CleanStep(h) \/ RefreshScans(h) \/ RefreshStores(h) \/ Respond(h)
  PROVE  Known'
<1>1. /\ DOMAIN rec' = Recovers /\ \A g \in Recovers \ {h} : rec'[g] = rec[g]
      /\ DOMAIN scan' = Daemons
  <2>1. CASE CleanStep(h)
    BY <2>1, CleanSteps DEF Known
  <2> QED
    BY <2>1 DEF Known, RecoverStart, RefreshScans, RefreshStores, Respond
<1>2. IsRecover(rec'[h]) /\ (rec'[h].pc # "idle" => rec'[h].by \in Daemons)
  <2>1. CASE \E d \in Daemons : RecoverStart(h, d)
    BY <2>1 DEF Known, RecoverStart
  <2>2. CASE CleanStep(h)
    BY <2>2, CleanSteps DEF Known
  <2>3. CASE RefreshScans(h)
    <3>1. rec'[h] = [rec[h] EXCEPT !.pc = "store", !.scan = RecoveryScan]
      BY <2>3 DEF Known, RefreshScans
    <3>2. IsRecover(rec[h]) /\ rec[h].pc = "clean"
      BY <2>3 DEF Known, RefreshScans
    <3>3. rec'[h].by = rec[h].by /\ IsRecover(rec'[h])
      BY <3>1, <3>2
    <3> QED
      BY <3>2, <3>3 DEF Known
  <2>4. CASE RefreshStores(h)
    BY <2>4 DEF Known, RefreshStores
  <2>5. CASE Respond(h)
    BY <2>5 DEF Known, Respond, NoRecover
  <2> QED
    BY <2>1, <2>2, <2>3, <2>4, <2>5
<1>3. Knows(h)' \/ rec'[h].pc = "idle" \/ h \in touched'
  <2>1. CASE \E d \in Daemons : RecoverStart(h, d)
    <3>1. rec'[h].pc = "clean"
      BY <2>1 DEF Known, RecoverStart
    <3> QED
      BY <3>1 DEF Knows
  <2>2. CASE CleanStep(h)
    <3>1. rec'[h].pc \in {"clean", "undo", "remove"}
      BY <2>2, CleanSteps DEF Known
    <3> QED
      BY <3>1 DEF Knows
  <2>3. CASE RefreshScans(h)
    <3>1. rec'[h].pc = "store" /\ rec'[h].scan = RecoveryScan
      BY <2>3 DEF Known, RefreshScans
    <3>2. RecoveryScan' = RecoveryScan
      BY <2>3, SameScan DEF RefreshScans
    <3> QED
      BY <3>1, <3>2 DEF Knows
  <2>4. CASE RefreshStores(h)
    <3>1. /\ rec[h].pc = "store" /\ h \in InFlight /\ touched \subseteq touched'
          /\ rec[h].by \in Daemons
      BY <2>4 DEF Known, RefreshStores, InFlight, Touch
    <3>2. rec'[h].pc = "done" /\ rec'[h].by = rec[h].by
          /\ scan'[rec[h].by] = rec[h].scan
      BY <2>4, <3>1 DEF Known, RefreshStores
    <3>3. RecoveryScan' = RecoveryScan
      BY <2>4, SameScan DEF RefreshStores
    <3> QED
      BY <3>1, <3>2, <3>3 DEF Known, Knows
  <2>5. CASE Respond(h)
    BY <2>5 DEF Known, Respond, NoRecover
  <2> QED
    BY <2>1, <2>2, <2>3, <2>4, <2>5
<1>4. ASSUME NEW g \in Recovers \ {h}, g \in InFlight, g \notin touched'
      PROVE  g \notin touched /\ UNCHANGED <<world, hostVars, scan>>
  BY <1>4 DEF RecoverStart, CleanStep, CleanLoads, CleanUndoes, CleanRemoves, CleanOther,
     RefreshScans, RefreshStores, Respond, Touch, history
<1> QED
  BY <1>1, <1>2, <1>3, <1>4, SameScan DEF Known, Knows, InFlight

\* The handlers of a process that ends know nothing any more.
LEMMA KnownEndProcess ==
  ASSUME Known, NEW d \in Daemons, EndProcess(d), UNCHANGED <<world, hostVars, scan>>
  PROVE  Known'
<1>1. /\ DOMAIN rec' = Recovers
      /\ \A h \in Recovers : rec'[h] = IF rec[h].by = d THEN NoRecover ELSE rec[h]
      /\ touched' = touched \ {h \in Recovers : rec[h].by = d}
  BY DEF EndProcess
<1>2. NoRecover.pc = "idle" /\ IsRecover(NoRecover)
  BY DEF NoRecover
<1> QED
  BY <1>1, <1>2, SameScan DEF Known, Knows, InFlight

LEMMA KnownStartup ==
  ASSUME Known, NEW d \in Daemons, ScanAtStartup(d) PROVE Known'
<1>1. /\ DOMAIN scan' = Daemons /\ scan'[d] = RecoveryScan
      /\ \A e \in Daemons \ {d} : scan'[e] = scan[e]
      /\ UNCHANGED <<rec, touched>>
  BY DEF ScanAtStartup, Known, history
<1>2. RecoveryScan' = RecoveryScan
  BY SameScan DEF ScanAtStartup
<1> QED
  BY <1>1, <1>2 DEF Known, Knows, InFlight

LEMMA KnownNext == Known /\ [Next]_vars => Known'
<1> SUFFICES ASSUME Known, [Next]_vars PROVE Known'
  OBVIOUS
<1>1. CASE UNCHANGED <<world, hostVars, rec, scan, touched>>
  BY <1>1, KnownTouched
<1>2. CASE \/ \E d \in Daemons : \/ ConnectProxyOnly(d) \/ ConnectTun(d) \/ Disconnect(d)
                                 \/ Stop(d) \/ ServeFails(d) \/ UnitEnds(d)
           \/ ConnectStep
  BY <1>2, KnownHost
<1>3. CASE \E h \in Recovers : \/ \E d \in Daemons : RecoverStart(h, d)
                               \/ CleanStep(h) \/ RefreshScans(h) \/ RefreshStores(h) \/ Respond(h)
  BY <1>3, KnownRecover
<1>4. CASE \E d \in Daemons : ScanAtStartup(d)
  BY <1>4, KnownStartup
<1>5. CASE \E d \in Daemons : Unwind(d) \/ Crash(d)
  <2>1. PICK d \in Daemons : Unwind(d) \/ Crash(d)
    BY <1>5
  <2>2. CASE UNCHANGED <<hostVars, handlers, budget, history>> /\ UNCHANGED world
    BY <2>2, <1>1 DEF handlers, history
  <2>3. CASE EndProcess(d) /\ UNCHANGED <<world, hostVars, scan>>
    BY <2>3, KnownEndProcess
  <2> QED
    BY <2>1, <2>2, <2>3 DEF Unwind, Crash
<1>6. CASE \/ \E d \in Daemons : \/ Start(d) \/ TakeLock(d) \/ RemoveStaleSocket(d)
                                 \/ Listen(d) \/ CloseListener(d)
           \/ ClearStaleLock \/ UNCHANGED vars
  BY <1>6, <1>1 DEF Start, TakeLock, RemoveStaleSocket, Listen, CloseListener,
     ClearStaleLock, vars, handlers, history
<1> QED
  BY <1>2, <1>3, <1>4, <1>5, <1>6 DEF Next, ConnectStep, CleanStep

\* When a recover answers that nothing has disturbed, status and doctor show
\* the host as it is.
THEOREM ScanIsCurrentAlways == Spec => []ScanIsCurrent
<1>1. Known => ScanIsCurrent
  BY DEF Known, Knows, ScanIsCurrent, InFlight
<1> QED
  BY <1>1, KnownInit, KnownNext, PTL DEF Spec

-----------------------------------------------------------------------------
(* Types, and whose the handlers and connections are: a daemon has them    *)
(* from its first request until its process ends.                          *)

Up == {"serving", "stopping", "closed", "unlinked", "broken", "cut"}

Places ==
  /\ phase \in [Daemons -> Phases] /\ lock \in Daemons \cup {None}
  /\ socket \in Daemons \cup {None, "file"} /\ wiped \in BOOLEAN

Owned ==
  /\ \A d \in Daemons : conn[d] # Inactive => phase[d] \in Up
  /\ connect.pc # "idle" => connect.by \in Daemons /\ phase[connect.by] \in Up
  /\ \A h \in Recovers : rec[h].pc # "idle" => phase[rec[h].by] \in Up

States == \A i \in Ids : records[i].state \in FileStates

Owners == Places /\ Owned /\ States /\ DOMAIN conn = Daemons

Idle == NoConnect.pc = "idle" /\ NoRecover.pc = "idle"
LEMMA IdleHandlers == Idle
BY DEF Idle, NoConnect, NoRecover

LEMMA OwnersInit == Init => Owners
<1> SUFFICES ASSUME Init PROVE Owners
  OBVIOUS
<1>1. Places
  BY DEF Init, Places, Phases
<1>2. Owned /\ DOMAIN conn = Daemons
  BY IdleHandlers DEF Init, Owned, Idle
<1>3. States
  BY DEF Init, States, NoTx, FileStates
<1> QED
  BY <1>1, <1>2, <1>3 DEF Owners

LEMMA PlacesNext == Places /\ [Next]_vars => Places'
<1> SUFFICES ASSUME Places, [Next]_vars PROVE Places'
  OBVIOUS
<1>1. CASE UNCHANGED serverVars
  BY <1>1 DEF Places, serverVars
<1>2. ASSUME NEW d \in Daemons, Start(d) \/ TakeLock(d) \/ ScanAtStartup(d)
                                \/ RemoveStaleSocket(d) \/ Listen(d)
      PROVE  Places'
  BY <1>2 DEF Places, Start, TakeLock, ScanAtStartup, RemoveStaleSocket, Listen, Phases
<1>3. ASSUME NEW d \in Daemons, Stop(d) \/ ServeFails(d) \/ CloseListener(d) \/ Crash(d)
                                \/ UnitEnds(d)
      PROVE  Places'
  BY <1>3 DEF Places, Stop, ServeFails, CloseListener, Crash, UnitEnds, Phases
<1>4. ASSUME NEW d \in Daemons, Unwind(d) PROVE Places'
  <2>1. Ended(d) \in Phases
    BY DEF Ended, Phases
  <2> QED
    BY <1>4, <2>1 DEF Places, Unwind, Phases
<1>5. CASE ClearStaleLock
  BY <1>5 DEF Places, ClearStaleLock
<1>6. CASE \/ \E d \in Daemons : \/ ConnectProxyOnly(d) \/ ConnectTun(d) \/ Disconnect(d)
                                 \/ \E h \in Recovers : RecoverStart(h, d)
           \/ \E h \in Recovers : CleanStep(h) \/ RefreshScans(h) \/ RefreshStores(h) \/ Respond(h)
           \/ ConnectStep
           \/ UNCHANGED vars
  BY <1>6, <1>1 DEF ConnectProxyOnly, ConnectTun, Disconnect, RecoverStart, CleanStep, CleanLoads,
     CleanUndoes, CleanRemoves, CleanOther, RefreshScans, RefreshStores, Respond, ConnectStep,
     Apply, ApplyFails, RecordApplied, RecordFails, LoadFails, VerifyPlan, StartChildren,
     Commit, ConnectFails, vars, serverVars
<1> QED
  BY <1>2, <1>3, <1>4, <1>5, <1>6 DEF Next, ConnectStep, CleanStep

\* A record gets a state of the store's.
LEMMA StatesSet ==
  ASSUME Books, States, NEW i, NEW after, records' = [records EXCEPT ![i] = after],
         i \in Ids => after.state \in FileStates
  PROVE  States'
BY DEF States, Books, Shapes

LEMMA StatesRolledBack ==
  ASSUME Books, States, NEW i, NEW what, NEW after, RolledBack(i, what, after),
         i \in Ids => after.state \in FileStates
  PROVE  States'
<1>1. CASE SetRecord(i, after)
  BY <1>1, StatesSet DEF SetRecord
<1>2. CASE records' = [records EXCEPT ![i].state = "rolling_back"]
  BY <1>2 DEF States, Books, Shapes, FileStates, TxStates
<1>3. CASE UNCHANGED records
  BY <1>3 DEF States
<1> QED
  BY <1>1, <1>2, <1>3 DEF RolledBack

LEMMA StatesUndone ==
  ASSUME Books, NEW i \in Ids PROVE UndoneRecord(i).state \in FileStates
BY DEF UndoneRecord, Books, Shapes, FileStates, TxStates

LEMMA StatesNext == Books /\ States /\ [Next]_vars => States'
<1> SUFFICES ASSUME Books, States, [Next]_vars PROVE States'
  OBVIOUS
<1>1. CASE UNCHANGED records
  BY <1>1 DEF States
<1>2. /\ NoTx.state \in FileStates
      /\ {"applying", "verifying", "committed", "failed", "rolled_back"} \subseteq FileStates
  BY DEF NoTx, FileStates, TxStates
<1>3. ASSUME NEW i, NEW state \in FileStates, NEW entries, NEW children,
             SetRecord(i, [state |-> state, entries |-> entries, children |-> children])
      PROVE  States'
  BY <1>3, StatesSet DEF SetRecord
<1>4. CASE (\E d \in Daemons : ConnectTun(d)) \/ RecordApplied
  BY <1>2, <1>3, <1>4 DEF ConnectTun, RecordApplied
<1>5. CASE ApplyFails \/ RecordFails
  <2>1. \E on, halfMade, steps, fault : RollbackTunFailure(on, halfMade, steps, fault)
    BY <1>5 DEF ApplyFails, RecordFails
  <2> QED
    BY <1>1, <1>2, <1>3, <2>1 DEF RollbackTunFailure
<1>6. CASE StartChildren \/ Commit
  BY <1>2, <1>6 DEF States, StartChildren, Commit, Books, Shapes
<1>7. CASE ConnectFails
  BY <1>7, StatesRolledBack, StatesUndone DEF ConnectFails
<1>8. ASSUME NEW d \in Daemons, DisconnectOf(d) \/ DisconnectAtEnd(d) PROVE States'
  <2>1. CASE \E i, what : RolledBack(i, what, NoTx)
    BY <1>2, <2>1, StatesRolledBack
  <2>2. CASE \E i : SetRecord(i, UndoneRecord(i))
    BY <2>2, StatesUndone, StatesSet DEF SetRecord
  <2> QED
    BY <1>1, <1>8, <2>1, <2>2 DEF DisconnectAtEnd, DisconnectOf, hostVars
<1>9. CASE \E d \in Daemons : Disconnect(d) \/ Stop(d) \/ ServeFails(d)
  BY <1>8, <1>9 DEF Disconnect, Stop, ServeFails
<1>10. CASE \E d \in Daemons : UnitEnds(d)
  BY <1>2, <1>10 DEF States, UnitEnds
<1>11. CASE \E h \in Recovers : CleanRemoves(h)
  <2>1. UNCHANGED records \/ \E i : SetRecord(i, NoTx)
    BY <1>11 DEF CleanRemoves
  <2> QED
    BY <1>1, <1>2, <2>1, StatesSet DEF SetRecord
<1>12. CASE \/ \E d \in Daemons : \/ Start(d) \/ TakeLock(d) \/ ScanAtStartup(d)
                                  \/ RemoveStaleSocket(d) \/ Listen(d) \/ CloseListener(d)
                                  \/ Unwind(d) \/ Crash(d) \/ ConnectProxyOnly(d)
                                  \/ \E h \in Recovers : RecoverStart(h, d)
            \/ \E h \in Recovers : \/ CleanLoads(h) \/ CleanUndoes(h) \/ CleanOther(h)
                                   \/ RefreshScans(h) \/ RefreshStores(h) \/ Respond(h)
            \/ Apply \/ LoadFails \/ VerifyPlan \/ ClearStaleLock \/ UNCHANGED vars
  BY <1>1, <1>12 DEF Start, TakeLock, ScanAtStartup, RemoveStaleSocket, Listen, CloseListener,
     Unwind, Crash, ConnectProxyOnly, RecoverStart, CleanLoads, CleanUndoes, CleanOther,
     RefreshScans, RefreshStores, Respond, Apply, LoadFails, VerifyPlan, ClearStaleLock, vars,
     hostVars
<1> QED
  BY <1>4, <1>5, <1>6, <1>7, <1>9, <1>10, <1>11, <1>12 DEF Next

Handled == Places /\ Owned /\ DOMAIN conn = Daemons /\ Known

\* The daemons come and go, the handlers do what they do.
LEMMA OwnedServer ==
  ASSUME Handled, NEW d \in Daemons,
         Start(d) \/ TakeLock(d) \/ ScanAtStartup(d) \/ RemoveStaleSocket(d) \/ Listen(d)
         \/ CloseListener(d) \/ UnitEnds(d)
  PROVE  Owned' /\ DOMAIN conn' = Daemons
<1>1. DOMAIN phase = Daemons /\ DOMAIN conn = Daemons
      /\ \A h \in Recovers : rec[h].pc # "idle" => rec[h].by \in Daemons
  BY DEF Handled, Places, Known
<1>2. CASE TakeLock(d)
  BY <1>1, <1>2 DEF TakeLock, Handled, Owned, Up
<1>3. CASE Start(d) \/ ScanAtStartup(d) \/ RemoveStaleSocket(d) \/ Listen(d)
  BY <1>1, <1>3 DEF Start, ScanAtStartup, RemoveStaleSocket, Listen, Handled, Owned, Up, handlers
<1>4. CASE CloseListener(d) \/ UnitEnds(d)
  BY <1>1, <1>4 DEF CloseListener, UnitEnds, Handled, Owned, Up, handlers
<1> QED
  BY <1>2, <1>3, <1>4

LEMMA OwnedEndProcess ==
  ASSUME Handled, NEW d \in Daemons, EndProcess(d),
         \A e \in Daemons \ {d} : phase'[e] = phase[e]
  PROVE  Owned' /\ DOMAIN conn' = Daemons
BY IdleHandlers DEF Idle, EndProcess, Handled, Owned, Known

LEMMA OwnedEnding ==
  ASSUME Handled, NEW d \in Daemons, Unwind(d) \/ Crash(d)
  PROVE  Owned' /\ DOMAIN conn' = Daemons
<1>1. DOMAIN phase = Daemons
  BY DEF Handled, Places
<1>2. CASE /\ phase[d] \in {"closed", "broken"}
           /\ \E next \in {"unlinked", "cut"} : phase' = [phase EXCEPT ![d] = next]
           /\ UNCHANGED handlers
  BY <1>1, <1>2 DEF Handled, Owned, Known, Up, handlers
<1>3. CASE EndProcess(d) /\ \E next : phase' = [phase EXCEPT ![d] = next]
  BY <1>1, <1>3, OwnedEndProcess
<1> QED
  BY <1>2, <1>3 DEF Unwind, Crash

LEMMA OwnedConnect ==
  ASSUME Handled, Books, (\E d \in Daemons : ConnectProxyOnly(d) \/ ConnectTun(d)) \/ ConnectStep
  PROVE  Owned' /\ DOMAIN conn' = Daemons
<1>1. IsConnect(connect) /\ DOMAIN conn = Daemons
  BY DEF Books, Shapes, Handled
<1>2. ASSUME NEW d \in Daemons, ConnectProxyOnly(d) \/ ConnectTun(d)
      PROVE  Owned' /\ DOMAIN conn' = Daemons
  BY <1>1, <1>2 DEF ConnectProxyOnly, ConnectTun, serverVars, Handled, Owned, Up
<1>3. CASE ApplyFails \/ RecordFails \/ LoadFails
  <2>1. connect' = NoConnect /\ UNCHANGED <<phase, conn, rec>>
    BY <1>3 DEF ApplyFails, RecordFails, LoadFails, RollbackTunFailure, serverVars
  <2> QED
    BY <1>1, <2>1, IdleHandlers DEF Idle, Handled, Owned
<1>4. CASE Apply \/ RecordApplied \/ VerifyPlan
  BY <1>1, <1>4 DEF Apply, RecordApplied, VerifyPlan, serverVars, Handled, Owned
<1>5. CASE StartChildren
  BY <1>1, <1>5 DEF StartChildren, serverVars, Handled, Owned
<1>6. CASE Commit \/ ConnectFails
  BY <1>1, <1>6, IdleHandlers DEF Commit, ConnectFails, Idle, serverVars, Handled, Owned
<1> QED
  BY <1>2, <1>3, <1>4, <1>5, <1>6 DEF ConnectStep

LEMMA OwnedDisconnect ==
  ASSUME Handled, NEW d \in Daemons, Disconnect(d) \/ Stop(d) \/ ServeFails(d)
  PROVE  Owned' /\ DOMAIN conn' = Daemons
<1>1. DOMAIN phase = Daemons /\ DOMAIN conn = Daemons
      /\ \A h \in Recovers : rec[h].pc # "idle" => rec[h].by \in Daemons
  BY DEF Handled, Places, Known
<1>2. conn' = [conn EXCEPT ![d] = Inactive] /\ UNCHANGED <<connect, rec>>
  BY DEF Disconnect, Stop, ServeFails, DisconnectAtEnd, DisconnectOf
<1>3. \/ UNCHANGED phase
      \/ /\ phase[d] = "serving"
         /\ \E next \in {"stopping", "broken"} : phase' = [phase EXCEPT ![d] = next]
  BY DEF Disconnect, Stop, ServeFails, serverVars
<1> QED
  BY <1>1, <1>2, <1>3 DEF Handled, Owned, Up

LEMMA OwnedRecover ==
  ASSUME Handled, NEW h \in Recovers,
         \/ \E d \in Daemons : RecoverStart(h, d)
         \/ CleanStep(h) \/ RefreshScans(h) \/ RefreshStores(h) \/ Respond(h)
  PROVE  Owned' /\ DOMAIN conn' = Daemons
<1>1. DOMAIN rec = Recovers /\ IsRecover(rec[h])
  BY DEF Handled, Known
<1>2. UNCHANGED <<phase, conn, connect>> /\ \A g \in Recovers \ {h} : rec'[g] = rec[g]
  <2>1. CASE CleanStep(h)
    BY <1>1, <2>1, CleanSteps
  <2> QED
    BY <1>1, <2>1 DEF RecoverStart, RefreshScans, RefreshStores, Respond, serverVars
<1>3. rec'[h].pc # "idle" => phase[rec'[h].by] \in Up
  <2>1. CASE \E d \in Daemons : RecoverStart(h, d)
    BY <1>1, <2>1 DEF RecoverStart, Up
  <2>2. CASE CleanStep(h)
    BY <1>1, <2>2, CleanSteps DEF Handled, Owned
  <2>3. CASE RefreshScans(h)
    <3>1. rec'[h] = [rec[h] EXCEPT !.pc = "store", !.scan = RecoveryScan]
      BY <1>1, <2>3 DEF RefreshScans
    <3>2. rec'[h].by = rec[h].by /\ rec[h].pc = "clean"
      BY <1>1, <2>3, <3>1 DEF RefreshScans
    <3> QED
      BY <3>2 DEF Handled, Owned
  <2>4. CASE RefreshStores(h)
    BY <1>1, <2>4 DEF RefreshStores, Handled, Owned
  <2>5. CASE Respond(h)
    BY <1>1, <2>5, IdleHandlers DEF Respond, Idle
  <2> QED
    BY <2>1, <2>2, <2>3, <2>4, <2>5
<1> QED
  BY <1>2, <1>3 DEF Handled, Owned

LEMMA OwnersNext == Books /\ Known /\ Owners /\ [Next]_vars => Owners'
<1> SUFFICES ASSUME Books, Known, Owners, [Next]_vars PROVE Owners'
  OBVIOUS
<1>1. Handled /\ Places' /\ States'
  BY PlacesNext, StatesNext DEF Handled, Owners
<1>2. CASE UNCHANGED <<phase, handlers>>
  BY <1>1, <1>2 DEF Owners, Owned, handlers
<1>3. CASE ClearStaleLock \/ UNCHANGED vars
  BY <1>2, <1>3 DEF ClearStaleLock, vars, serverVars
<1> QED
  BY <1>1, <1>3, OwnedServer, OwnedEnding, OwnedConnect, OwnedDisconnect, OwnedRecover
     DEF Next, Owners, ConnectStep, CleanStep

\* The variables keep their types, and no handler and no connection outlives
\* the process of its daemon.
THEOREM TypesAlways == Spec => []TypeOK
<1>1. Known /\ Owners => TypeOK
  BY DEF Known, Owners, Places, Owned, States, TypeOK, InFlight, Up
<1> QED
  BY <1>1, BooksInit, BooksNext, KnownInit, KnownNext, OwnersInit, OwnersNext, PTL DEF Spec
=============================================================================

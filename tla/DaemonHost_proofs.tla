------------------------- MODULE DaemonHost_proofs -------------------------
(***************************************************************************)
(* Of podlazd, for any number of daemons, recovers and transactions, on    *)
(* any host: what its connects, its recovers and its exits make of the     *)
(* host's networking.                                                      *)
(***************************************************************************)
EXTENDS Daemon_proofs, WellFoundedInduction

USE DEF Running, Accepts, IsRecord, IsPlan, IsConnect, IsRecover

-----------------------------------------------------------------------------
(* The plan.                                                               *)

LEMMA LeastNatural ==
  ASSUME NEW T, T \subseteq Nat, T # {}
  PROVE  \E n \in T : \A m \in T : n <= m
<1> DEFINE Less == {pair \in Nat \X Nat : pair[1] < pair[2]}
<1>1. Less = OpToRel(<, Nat)
  BY Zenon DEF OpToRel
<1>3. \A i, j \in Nat : i < j => <<i, j>> \in Less
  OBVIOUS
<1>5. IsWellFoundedOn(Less, Nat)
  BY <1>1, NatLessThanWellFounded, Zenon
<1> HIDE DEF Less
<1>2. PICK n \in T : \A m \in T : ~(<<m, n>> \in Less)
  BY <1>5, WFMin, Zenon
<1>4. ASSUME NEW m \in T PROVE n <= m
  <2>1. n \in Nat /\ m \in Nat
    OBVIOUS
  <2>2. ~(m < n)
    BY <1>2, <1>3, <2>1
  <2> QED
    BY <2>1, <2>2
<1> QED
  BY <1>4

\* The address of the server that a plan is made for.
LEMMA ChosenAddress ==
  ASSUME NEW answers \in Seq({"s4", "s6"})
  PROVE  /\ chooseResolvedIP(answers) \in {"", "s4", "s6"}
         /\ (\E k \in DOMAIN answers : answers[k] = "s4") => chooseResolvedIP(answers) = "s4"
<1> DEFINE v4 == {k \in DOMAIN answers : Family(answers[k]) = "ipv4"}
           first == CHOOSE k \in v4 : \A j \in v4 : k <= j
<1>1. \A k \in DOMAIN answers : answers[k] \in {"s4", "s6"}
  OBVIOUS
<1>2. CASE v4 # {}
  <2>1. v4 \subseteq Nat
    OBVIOUS
  <2>2. \E k \in v4 : \A j \in v4 : k <= j
    BY <1>2, <2>1, LeastNatural
  <2>4. first \in v4
    BY <2>2
  <2>5. answers[first] = "s4"
    BY <1>1, <2>4 DEF Family
  <2> QED
    BY <1>2, <2>5 DEF chooseResolvedIP
<1>3. CASE v4 = {}
  <2>1. \A k \in DOMAIN answers : answers[k] # "s4"
    BY <1>3 DEF Family
  <2>2. answers # <<>> => Head(answers) \in {"s4", "s6"}
    OBVIOUS
  <2> QED
    BY <1>3, <2>1, <2>2 DEF chooseResolvedIP
<1> QED
  BY <1>2, <1>3

-----------------------------------------------------------------------------
(* What can be on the host.  A plan for an IPv6 server is refused at its   *)
(* route, so what is on the host, in a record or about to be recorded is   *)
(* one of the following entries.                                           *)

Default == DefaultRoute(Host)
PlanEntries ==
  {Link, DNSEntry, NFTable(""), NFTable("s4"), Route("default", "podlaz", "", ManagedInterface),
   Route("s4", "main", Default.via, Default.dev),
   PolicyRule(TunRulePriority, "all", "podlaz"), PolicyRule(ServerRulePriority, "s4", "main")}

Present == {"applying", "verifying", "committed", "failed", "rolling_back", "rolled_back"}
Fits(r) == r = NoTx \/ (r.state \in Present /\ r.entries \subseteq PlanEntries)
\* What else is in a plan for an IPv6 server is, or comes after, its route.
MayFit(plan) ==
  \/ plan.entries \subseteq PlanEntries
  \/ \E r \in OfKind(plan.entries, "route") :
       /\ Family(r.to) # "ipv4"
       /\ \A e \in plan.entries \ PlanEntries : e = r \/ Position(r) < Position(e)

Shaped ==
  /\ world \in DOMAIN Worlds
  /\ net \subseteq PlanEntries
  /\ \A i \in Ids : Fits(records[i])
  /\ connect.pc = "apply" => MayFit(connect.plan)
  /\ connect.pc \notin {"idle", "apply"} => connect.plan.entries \subseteq PlanEntries

shapeVars == <<world, net, records, connect>>

\* A plan of this host, whatever is on it.
LEMMA PlanOfHost ==
  ASSUME world \in DOMAIN Worlds, NEW n,
         NEW plan, plan = PlanTun(CollectSnapshot(Host, n))
  PROVE  /\ plan.bypass \in {"", "s4", "s6"}
         /\ plan.bypass # "" => plan.bypass = chooseResolvedIP(Host.answers)
         /\ plan.entries = {Link, DNSEntry, NFTable(plan.bypass),
                            Route("default", "podlaz", "", ManagedInterface),
                            PolicyRule(TunRulePriority, "all", "podlaz")} \cup
              (IF plan.bypass = "" THEN {}
               ELSE {Route(plan.bypass, "main", Default.via, Default.dev),
                     PolicyRule(ServerRulePriority, plan.bypass, "main")})
<1> DEFINE s == CollectSnapshot(Host, n)
<1>1. chooseResolvedIP(Host.answers) \in {"", "s4", "s6"}
  BY HostAssumption, ChosenAddress DEF Host, W
<1>2. s.server.ip \in {"", chooseResolvedIP(Host.answers)} /\ s.default4 = Default
  BY DEF CollectSnapshot, ServerRoute, Default
<1>3. plan.bypass = ServerBypassIP(s) /\ plan.bypass \in {"", s.server.ip}
  BY DEF PlanTun, ServerBypassIP
<1>4. plan.entries = {Link, DNSEntry, NFTable(plan.bypass)} \cup Routes(s) \cup PolicyRules(s)
  BY <1>3 DEF PlanTun
<1> HIDE DEF s
<1>5. Routes(s) = {Route("default", "podlaz", "", ManagedInterface)} \cup
        (IF plan.bypass = "" THEN {}
         ELSE {Route(plan.bypass, "main", Default.via, Default.dev)})
  BY <1>2, <1>3 DEF Routes, ServerBypassRoute
<1>6. PolicyRules(s) = {PolicyRule(TunRulePriority, "all", "podlaz")} \cup
        (IF plan.bypass = "" THEN {}
         ELSE {PolicyRule(ServerRulePriority, plan.bypass, "main")})
  BY <1>3 DEF PolicyRules
<1> QED
  BY <1>1, <1>2, <1>3, <1>4, <1>5, <1>6

LEMMA PlanFits ==
  ASSUME world \in DOMAIN Worlds, NEW n
  PROVE  MayFit(PlanTun(CollectSnapshot(Host, n)))
<1> DEFINE plan == PlanTun(CollectSnapshot(Host, n))
<1> SUFFICES MayFit(plan)
  OBVIOUS
<1>1. /\ plan.bypass \in {"", "s4", "s6"}
      /\ plan.entries = {Link, DNSEntry, NFTable(plan.bypass),
                         Route("default", "podlaz", "", ManagedInterface),
                         PolicyRule(TunRulePriority, "all", "podlaz")} \cup
           (IF plan.bypass = "" THEN {}
            ELSE {Route(plan.bypass, "main", Default.via, Default.dev),
                  PolicyRule(ServerRulePriority, plan.bypass, "main")})
  BY PlanOfHost
<1> HIDE DEF plan
<1>2. CASE plan.bypass \in {"", "s4"}
  BY <1>1, <1>2 DEF MayFit, PlanEntries
<1>3. CASE plan.bypass = "s6"
  <2> DEFINE r == Route("s6", "main", Default.via, Default.dev)
  <2>1. r \in OfKind(plan.entries, "route") /\ r.kind = "route" /\ r.to = "s6"
    BY <1>1, <1>3 DEF OfKind, Route, Blank
  <2>2. plan.entries \ PlanEntries \subseteq
          {r, NFTable("s6"), PolicyRule(ServerRulePriority, "s6", "main")}
    BY <1>1, <1>3 DEF PlanEntries
  <2>3. Position(NFTable("s6")) = 7
    BY DEF Position, NFTable, Blank
  <2>4. Position(PolicyRule(ServerRulePriority, "s6", "main")) = 4
    BY DEF Position, PolicyRule, Blank, ServerRulePriority
  <2>5. Position(r) = 3
    BY <2>1 DEF Position
  <2> HIDE DEF r
  <2>6. \A e \in plan.entries \ PlanEntries : e = r \/ Position(r) < Position(e)
    BY <2>2, <2>3, <2>4, <2>5
  <2> QED
    BY <2>1, <2>6 DEF MayFit, Family
<1> QED
  BY <1>1, <1>2, <1>3

LEMMA ShapedInit == Init => Shaped
<1> SUFFICES ASSUME Init PROVE Shaped
  OBVIOUS
<1>1. connect.pc = "idle"
  BY IdleHandlers DEF Init, Idle
<1> QED
  BY <1>1 DEF Init, Shaped, Fits

LEMMA ShapedSame == Shaped /\ UNCHANGED shapeVars => Shaped'
BY DEF Shaped, shapeVars, Fits, MayFit, PlanEntries, Default, Host, W

\* The entries are those of the host, which does not change.
LEMMA SameEntries ==
  UNCHANGED world => /\ PlanEntries' = PlanEntries
                     /\ \A r : Fits(r)' = Fits(r)
                     /\ \A p : MayFit(p)' = MayFit(p)
BY DEF Fits, MayFit, PlanEntries, Default, Host, W

\* A record stays, goes, or gets another state.
Lessened(i) == \/ records'[i] = records[i]
               \/ records'[i] = NoTx
               \/ /\ records[i].state # "absent" /\ records'[i].state \in Present
                  /\ records'[i].entries = records[i].entries

LEMMA ShapedLess ==
  ASSUME Shaped, UNCHANGED world, net' \subseteq net, connect'.pc # "idle" => UNCHANGED connect,
         \A i \in Ids : Lessened(i)
  PROVE  Shaped'
<1>1. \A i \in Ids : Fits(records'[i])
  BY DEF Shaped, Fits, Lessened, NoTx
<1> QED
  BY <1>1, SameEntries DEF Shaped

\* What a rollback and a recover do to the host and to the records.
LEMMA RollbackRemoves ==
  ASSUME Books, NEW i, NEW what, NEW after, RolledBack(i, what, after),
         after \in {NoTx, UndoneRecord(i)}
  PROVE  net' \subseteq net /\ \A j \in Ids : Lessened(j)
<1>1. net' \subseteq net
  BY UndoShrinks DEF RolledBack
<1>2. DOMAIN records = Ids /\ \A j \in Ids : IsRecord(records[j])
  BY DEF Books, Shapes
<1>3. \/ UNCHANGED records
      \/ /\ records[i].state # "absent"
         /\ \/ SetRecord(i, after)
            \/ records' = [records EXCEPT ![i].state = "rolling_back"]
  BY DEF RolledBack
<1>4. \A j \in Ids : Lessened(j)
  BY <1>2, <1>3 DEF SetRecord, UndoneRecord, Lessened, Present
<1> QED
  BY <1>1, <1>4

LEMMA CleanShrinks ==
  ASSUME Books, NEW h \in Recovers, CleanStep(h)
  PROVE  /\ net' \subseteq net /\ UNCHANGED <<world, connect>>
         /\ \A i \in Ids : records'[i] \in {records[i], NoTx}
<1>1. CASE CleanLoads(h)
  BY <1>1 DEF CleanLoads, hostVars
<1>2. CASE CleanUndoes(h)
  BY <1>2, UndoShrinks DEF CleanUndoes
<1>3. CASE CleanRemoves(h)
  BY <1>3 DEF CleanRemoves, SetRecord, Books, Shapes
<1>4. CASE CleanOther(h)
  BY <1>4, UndoShrinks DEF CleanOther, CleanCandidate
<1> QED
  BY <1>1, <1>2, <1>3, <1>4 DEF CleanStep

LEMMA ShapedDisconnect ==
  ASSUME Books, Shaped, NEW d \in Daemons, Disconnect(d) \/ Stop(d) \/ ServeFails(d)
  PROVE  Shaped'
<1>1. UNCHANGED <<world, connect>>
  BY DEF Disconnect, Stop, ServeFails
<1>2. CASE UNCHANGED <<net, records>>
  BY <1>1, <1>2, ShapedSame DEF shapeVars
<1> DEFINE i == conn[d].tx
<1>3. CASE RolledBack(i, records[i].entries, NoTx)
  BY <1>1, <1>3, RollbackRemoves, ShapedLess
<1>4. CASE /\ records[i].state # "absent" /\ Undo(records[i].entries)
           /\ SetRecord(i, UndoneRecord(i))
  <2>1. \A j \in Ids : Lessened(j)
    BY <1>4 DEF Books, Shapes, SetRecord, UndoneRecord, Lessened, Present
  <2> QED
    BY <1>1, <1>4, <2>1, UndoShrinks, ShapedLess
<1> QED
  BY <1>2, <1>3, <1>4 DEF Disconnect, Stop, ServeFails, DisconnectAtEnd, DisconnectOf, hostVars

LEMMA ShapedConnectTun ==
  ASSUME Books, Shaped, NEW d \in Daemons, ConnectTun(d) PROVE Shaped'
<1> DEFINE i == budget["connects"]
           new == [state |-> "applying", entries |-> {}, children |-> FALSE]
<1>1. UNCHANGED <<world, net>> /\ records' = [records EXCEPT ![i] = new]
  BY DEF ConnectTun, SetRecord
<1>2. Fits(new)
  BY DEF Fits, Present
<1>3. \A j \in Ids : Fits(records'[j])
  BY <1>1, <1>2 DEF Shaped, Books, Shapes
<1>4. connect'.pc = "apply" /\ MayFit(connect'.plan)
  BY PlanFits DEF ConnectTun, Shaped
<1> QED
  BY <1>1, <1>3, <1>4, SameEntries DEF Shaped

\* A step that is done before another, or can be, is of the host.
LEMMA ReachedFits ==
  ASSUME Shaped, connect.pc = "apply", NEW e \in connect.plan.entries,
         \A f \in Before(connect.plan, e) : Applicable(f, Host, net)
  PROVE  /\ Before(connect.plan, e) \subseteq PlanEntries
         /\ Applicable(e, Host, net) => e \in PlanEntries
<1>1. \A x : Position(x) \in 1 .. 7
  BY DEF Position
<1>2. ASSUME NEW r \in OfKind(connect.plan.entries, "route"), Family(r.to) # "ipv4",
             \A x \in connect.plan.entries \ PlanEntries : x = r \/ Position(r) < Position(x)
      PROVE  /\ Before(connect.plan, e) \subseteq PlanEntries
             /\ Applicable(e, Host, net) => e \in PlanEntries
  <2>1. ~Applicable(r, Host, net) /\ r \in connect.plan.entries
    BY <1>2 DEF OfKind, Applicable
  <2>2. ~(Position(r) < Position(e))
    BY <2>1 DEF Before
  <2>3. ASSUME NEW x \in Before(connect.plan, e), x \notin PlanEntries PROVE FALSE
    <3>1. x \in connect.plan.entries /\ Position(x) < Position(e) /\ Applicable(x, Host, net)
      BY <2>3 DEF Before
    <3>2. Position(r) < Position(x)
      BY <1>2, <2>1, <2>3, <3>1
    <3> QED
      BY <1>1, <2>2, <3>1, <3>2
  <2> QED
    BY <1>2, <2>1, <2>2, <2>3
<1> QED
  BY <1>2 DEF Shaped, MayFit, Before

\* A failure in the middle leaves what was there, what was done, and its steps
\* in the record.
LEMMA ShapedRollback ==
  ASSUME Books, Shaped, UNCHANGED world, NEW on, NEW halfMade, NEW steps, NEW fault,
         RollbackTunFailure(on, halfMade, steps, fault),
         on \subseteq PlanEntries, steps \subseteq PlanEntries
  PROVE  Shaped'
<1>1. net' \subseteq on /\ connect'.pc = "idle"
  BY IdleHandlers DEF RollbackTunFailure, Leave, Without, Idle
<1>2. \/ UNCHANGED records
      \/ \E state \in {"rolled_back", "failed"} :
           SetRecord(connect.tx, [state |-> state, entries |-> steps, children |-> FALSE])
  BY DEF RollbackTunFailure
<1>3. \A i \in Ids : Fits(records'[i])
  BY <1>2 DEF SetRecord, Books, Shapes, Shaped, Fits, Present
<1> QED
  BY <1>1, <1>3, SameEntries DEF Shaped

LEMMA ShapedApply == Books /\ Shaped /\ (Apply \/ ApplyFails) => Shaped'
<1> SUFFICES ASSUME Books, Shaped, Apply \/ ApplyFails PROVE Shaped'
  OBVIOUS
<1>1. UNCHANGED world /\ IsConnect(connect) /\ connect.pc = "apply"
  BY DEF Apply, ApplyFails, Books, Shapes
<1>2. CASE Apply
  <2>1. connect.plan.entries \subseteq PlanEntries
    BY <1>1, <1>2 DEF Apply, Shaped, MayFit, Applies, Applicable, OfKind
  <2>2. connect'.pc = "record" /\ connect'.plan = connect.plan
    BY <1>1, <1>2 DEF Apply
  <2> QED
    BY <1>1, <1>2, <2>1, <2>2, SameEntries DEF Shaped, Apply
<1>3. CASE RollbackTunFailure(net, {}, {}, FALSE)
  <2>1. net \subseteq PlanEntries /\ {} \subseteq PlanEntries
    BY DEF Shaped
  <2> DEFINE fault == FALSE
  <2>2. RollbackTunFailure(net, {}, {}, fault)
    BY <1>3
  <2> HIDE DEF fault
  <2> QED
    BY <1>1, <2>1, <2>2, ShapedRollback
<1>4. ASSUME NEW e \in connect.plan.entries,
             LET before == Before(connect.plan, e)
                 steps  == Applied(before, net)
                 works  == Applicable(e, Host, net)
             IN  /\ \A f \in before : Applicable(f, Host, net)
                 /\ \E made \in IF works THEN SUBSET Applied({e}, net) ELSE {{}} :
                      RollbackTunFailure(net \cup before \cup made, made, steps, works)
      PROVE  Shaped'
  <2> DEFINE before == Before(connect.plan, e)
             works  == Applicable(e, Host, net)
  <2>1. PICK made \in IF works THEN SUBSET Applied({e}, net) ELSE {{}} :
          RollbackTunFailure(net \cup before \cup made, made, Applied(before, net), works)
    BY <1>4
  <2>2. before \subseteq PlanEntries /\ (works => e \in PlanEntries)
    BY <1>1, <1>4, ReachedFits
  <2> HIDE DEF before, works
  <2>3. made \subseteq PlanEntries
    BY <2>1, <2>2 DEF Applied
  <2> QED
    BY <1>1, <2>1, <2>2, <2>3, ShapedRollback DEF Shaped, Applied
<1>5. CASE ApplyFails
  BY <1>3, <1>4, <1>5, Zenon DEF ApplyFails
<1> QED
  BY <1>2, <1>5

LEMMA ShapedRecorded ==
  Books /\ Shaped /\ (RecordApplied \/ RecordFails \/ VerifyPlan \/ StartChildren \/ Commit)
    => Shaped'
<1> SUFFICES ASSUME Books, Shaped,
                    RecordApplied \/ RecordFails \/ VerifyPlan \/ StartChildren \/ Commit
             PROVE  Shaped'
  OBVIOUS
<1>1. /\ UNCHANGED world /\ IsConnect(connect) /\ NoTx.state = "absent"
      /\ DOMAIN records = Ids /\ \A i \in Ids : IsRecord(records[i])
  BY DEF RecordApplied, RecordFails, VerifyPlan, StartChildren, Commit, Books, Shapes, NoTx
<1>2. connect.pc \notin {"idle", "apply"} => connect.steps \subseteq PlanEntries
  BY DEF Books, Shaped
<1>3. CASE RecordApplied
  <2>1. Fits([state |-> "verifying", entries |-> connect.steps, children |-> FALSE])
    BY <1>2, <1>3 DEF RecordApplied, Fits, Present
  <2>2. \A i \in Ids : Fits(records'[i])
    BY <1>1, <1>3, <2>1 DEF RecordApplied, SetRecord, Shaped
  <2>3. connect'.pc = "check" /\ connect'.plan = connect.plan
    BY <1>1, <1>3 DEF RecordApplied
  <2> QED
    BY <1>1, <1>3, <2>2, <2>3, SameEntries DEF Shaped, RecordApplied
<1>4. CASE RecordFails
  BY <1>1, <1>2, <1>4, ShapedRollback DEF RecordFails, Shaped
<1>5. CASE VerifyPlan
  <2>1. connect'.pc = "core" /\ connect'.plan = connect.plan /\ UNCHANGED <<net, records>>
    BY <1>1, <1>5 DEF VerifyPlan, hostVars
  <2> QED
    BY <1>1, <1>5, <2>1, SameEntries DEF Shaped, VerifyPlan
<1>6. CASE StartChildren
  <2>1. \A i \in Ids : Fits(records'[i])
    BY <1>1, <1>6 DEF StartChildren, Shaped, Fits
  <2>2. connect'.pc = "verify" /\ connect'.plan = connect.plan
    BY <1>1, <1>6 DEF StartChildren
  <2> QED
    BY <1>1, <1>6, <2>1, <2>2, SameEntries DEF Shaped, StartChildren
<1>7. CASE Commit
  <2>1. \A i \in Ids : Fits(records'[i])
    BY <1>1, <1>7 DEF Commit, Shaped, Fits, Present
  <2>2. connect'.pc = "idle" /\ UNCHANGED net
    BY <1>7, IdleHandlers DEF Commit, Idle
  <2> QED
    BY <1>1, <2>1, <2>2, SameEntries DEF Shaped
<1> QED
  BY <1>3, <1>4, <1>5, <1>6, <1>7

LEMMA ShapedEnds ==
  ASSUME Books, Shaped,
         LoadFails \/ ConnectFails \/ \E d \in Daemons : Unwind(d) \/ Crash(d)
  PROVE  Shaped'
<1>1. CASE ConnectFails
  BY <1>1, RollbackRemoves, ShapedLess, IdleHandlers DEF ConnectFails, Idle
<1>2. CASE LoadFails
  BY <1>2, ShapedLess, IdleHandlers DEF LoadFails, Idle, Lessened, hostVars
<1>3. CASE \E d \in Daemons : Unwind(d) \/ Crash(d)
  <2>1. UNCHANGED <<world, net, records>> /\ (connect' = connect \/ connect'.pc = "idle")
    BY <1>3, IdleHandlers DEF Unwind, Crash, EndProcess, Idle, hostVars, handlers
  <2> QED
    BY <2>1, ShapedLess DEF Lessened
<1> QED
  BY <1>1, <1>2, <1>3

LEMMA ShapedNext == Books /\ Shaped /\ [Next]_vars => Shaped'
<1> SUFFICES ASSUME Books, Shaped, [Next]_vars PROVE Shaped'
  OBVIOUS
<1>1. CASE UNCHANGED shapeVars
  BY <1>1, ShapedSame
<1>2. CASE \E d \in Daemons : \/ ConnectTun(d) \/ Disconnect(d) \/ Stop(d) \/ ServeFails(d)
  BY <1>2, ShapedConnectTun, ShapedDisconnect
<1>3. CASE ConnectStep
  BY <1>3, ShapedApply, ShapedRecorded, ShapedEnds DEF ConnectStep
<1>4. CASE \E d \in Daemons : Unwind(d) \/ Crash(d)
  BY <1>4, ShapedEnds
<1>5. CASE \E d \in Daemons : UnitEnds(d)
  <2>1. \A i \in Ids : Fits(records'[i])
    BY <1>5 DEF UnitEnds, Fits
  <2> QED
    BY <1>5, <2>1, SameEntries DEF UnitEnds, Shaped, handlers
<1>6. CASE \E h \in Recovers : CleanStep(h)
  BY <1>6, CleanShrinks, ShapedLess DEF Lessened
<1>7. CASE \/ \E d \in Daemons : \/ Start(d) \/ TakeLock(d) \/ ScanAtStartup(d)
                                 \/ RemoveStaleSocket(d) \/ Listen(d) \/ CloseListener(d)
                                 \/ ConnectProxyOnly(d)
                                 \/ \E h \in Recovers : RecoverStart(h, d)
           \/ \E h \in Recovers : RefreshScans(h) \/ RefreshStores(h) \/ Respond(h)
           \/ ClearStaleLock \/ UNCHANGED vars
  BY <1>1, <1>7 DEF Start, TakeLock, ScanAtStartup, RemoveStaleSocket, Listen, CloseListener,
     ConnectProxyOnly, RecoverStart, RefreshScans, RefreshStores, Respond, ClearStaleLock,
     vars, hostVars, handlers, shapeVars
<1> QED
  BY <1>2, <1>3, <1>4, <1>5, <1>6, <1>7 DEF Next, ConnectStep, CleanStep

-----------------------------------------------------------------------------
(* A recover.  As long as nothing disturbs it, whatever a scan would find  *)
(* is still to be done, has failed, or is a record of which something was  *)
(* skipped; and of such a record only what is not recognised is left.      *)
(* While it is at a record, its copy is the record.                        *)

Result(c, status) == [candidate |-> c, status |-> status]
TxCandidate(i)    == Candidate("transaction-state", i)

Left(h, c) == \/ Result(c, "failed") \in rec[h].results
              \/ Result(c, "skipped") \in rec[h].results /\ c.kind = "transaction-state"
Cleaned(h) ==
  /\ rec[h].pc \notin {"clean", "undo", "remove"} => rec[h].todo = {}
  /\ rec[h].pc \in {"undo", "remove"} => rec[h].copy = records[rec[h].tx]
  /\ \A c \in RecoveryScan.found : c \in rec[h].todo \/ Left(h, c)
  /\ \A i \in Ids : Result(TxCandidate(i), "skipped") \in rec[h].results =>
       \A e \in net \cap records[i].entries : ~Recognised(e)
Cleaning == \A h \in InFlight : h \notin touched => Cleaned(h)

\* Something goes, and nothing comes.
Fewer == /\ UNCHANGED world /\ net' \subseteq net /\ generated' \in {generated, FALSE}
         /\ \A i \in Ids : records'[i] \in {records[i], NoTx}

LEMMA FindsLess == Fewer => RecoveryScan'.found \subseteq RecoveryScan.found
<1> SUFFICES ASSUME Fewer PROVE RecoveryScan'.found \subseteq RecoveryScan.found
  OBVIOUS
<1>1. ~RequiresCleanup(NoTx.state) /\ Host' = Host
  BY DEF RequiresCleanup, NoTx, TxStates, Fewer, Host, W
<1>2. \A i \in Ids : RequiresCleanup(records'[i].state) => RequiresCleanup(records[i].state)
  BY <1>1 DEF Fewer
<1>3. Link \in net' => Link \in net
  BY DEF Fewer
<1>4. OfKind(net', "table") # {} => OfKind(net, "table") # {}
  BY DEF Fewer, OfKind
<1>5. generated' => generated
  BY DEF Fewer
<1> QED
  BY <1>1, <1>2, <1>3, <1>4, <1>5 DEF RecoveryScan

LEMMA TransactionFound ==
  ASSUME NEW i PROVE TxCandidate(i) \in RecoveryScan.found
                       <=> i \in Ids /\ RequiresCleanup(records[i].state)
BY DEF TxCandidate, Candidate, RecoveryScan

LEMMA ResultsDiffer ==
  ASSUME NEW i, NEW j, NEW c, NEW s, NEW t
  PROVE  /\ Result(TxCandidate(i), s) = Result(c, t) => c = TxCandidate(i) /\ s = t
         /\ TxCandidate(i) = TxCandidate(j) => i = j
         /\ TxCandidate(i).kind = "transaction-state" /\ TxCandidate(i).tx = i
BY DEF Result, TxCandidate, Candidate

\* A candidate that is reported is gone, or the result says that it is not.
LEMMA CleanedReports ==
  ASSUME NEW h \in Recovers, DOMAIN rec = Recovers, IsRecover(rec[h]), Cleaned(h), Fewer,
         NoTx.entries = {}, NEW c, NEW status, Report(h, c, status),
         c \in RecoveryScan'.found =>
           status = "failed" \/ (status = "skipped" /\ c.kind = "transaction-state"),
         \A i \in Ids : status = "skipped" /\ c = TxCandidate(i) =>
           \A e \in net' \cap records'[i].entries : ~Recognised(e)
  PROVE  Cleaned(h)'
<1>1. rec'[h] = [rec[h] EXCEPT !.pc = "clean", !.tx = None, !.copy = NoTx,
                               !.todo = rec[h].todo \ {c},
                               !.results = rec[h].results \cup {Result(c, status)}]
  BY DEF Report, Result
<1>2. /\ rec'[h].pc = "clean" /\ rec'[h].todo = rec[h].todo \ {c}
      /\ rec'[h].results = rec[h].results \cup {Result(c, status)}
  BY <1>1
<1>3. ASSUME NEW x \in RecoveryScan'.found PROVE x \in rec'[h].todo \/ Left(h, x)'
  <2>1. x \in rec[h].todo \/ Left(h, x)
    BY <1>3, FindsLess DEF Cleaned
  <2>2. CASE x # c
    BY <1>2, <2>1, <2>2 DEF Left
  <2>3. CASE x = c
    BY <1>2, <1>3, <2>3 DEF Left
  <2> QED
    BY <2>2, <2>3
<1>4. ASSUME NEW i \in Ids, Result(TxCandidate(i), "skipped") \in rec'[h].results,
             NEW e \in net' \cap records'[i].entries
      PROVE  ~Recognised(e)
  <2>1. e \in net \cap records[i].entries
    BY <1>4 DEF Fewer
  <2>2. CASE Result(TxCandidate(i), "skipped") \in rec[h].results
    BY <2>1, <2>2 DEF Cleaned
  <2>3. CASE Result(TxCandidate(i), "skipped") = Result(c, status)
    BY <1>4, <2>3, ResultsDiffer
  <2> QED
    BY <1>2, <1>4, <2>2, <2>3
<1> QED
  BY <1>2, <1>3, <1>4 DEF Cleaned

\* A step after which h goes on with what is left to do.
LEMMA CleanedGoesOn ==
  ASSUME NEW h \in Recovers, Cleaned(h), Fewer, NoTx.entries = {},
         rec'[h].todo = rec[h].todo, rec'[h].results = rec[h].results,
         rec'[h].pc \in {"undo", "remove"}, rec'[h].copy = records'[rec'[h].tx]
  PROVE  Cleaned(h)'
<1>1. \A x \in RecoveryScan'.found : x \in rec'[h].todo \/ Left(h, x)'
  BY FindsLess DEF Cleaned, Left
<1>2. \A i \in Ids : \A e \in net' \cap records'[i].entries : e \in net \cap records[i].entries
  BY DEF Fewer
<1> QED
  BY <1>1, <1>2 DEF Cleaned

LEMMA CleanedLoads ==
  ASSUME Books, NEW h \in Recovers, CleanLoads(h), Cleaned(h) PROVE Cleaned(h)'
<1>1. DOMAIN rec = Recovers /\ IsRecover(rec[h]) /\ NoTx.entries = {}
  BY DEF Books, Shapes, NoTx
<1>2. Fewer /\ UNCHANGED <<world, net, records>> /\ RecoveryScan' = RecoveryScan
  BY SameScan DEF CleanLoads, Fewer, hostVars
<1>3. PICK c \in rec[h].todo :
        /\ c.kind = "transaction-state"
        /\ \/ Report(h, c, "failed")
           \/ ~RequiresCleanup(records[c.tx].state) /\ Report(h, c, "recovered")
           \/ rec' = [rec EXCEPT ![h] = [@ EXCEPT !.pc = "undo", !.tx = c.tx,
                                                  !.copy = records[c.tx]]]
  BY DEF CleanLoads
<1>4. CASE Report(h, c, "failed")
  BY <1>1, <1>2, <1>4, CleanedReports
<1>5. CASE ~RequiresCleanup(records[c.tx].state) /\ Report(h, c, "recovered")
  <2>1. c \notin RecoveryScan.found
    BY <1>3, <1>5 DEF RecoveryScan, Candidate
  <2> QED
    BY <1>1, <1>2, <1>5, <2>1, CleanedReports
<1>6. CASE rec' = [rec EXCEPT ![h] = [@ EXCEPT !.pc = "undo", !.tx = c.tx,
                                               !.copy = records[c.tx]]]
  <2>1. rec'[h] = [rec[h] EXCEPT !.pc = "undo", !.tx = c.tx, !.copy = records[c.tx]]
    BY <1>1, <1>6
  <2>2. /\ rec'[h].pc = "undo" /\ rec'[h].copy = records[rec'[h].tx]
        /\ rec'[h].todo = rec[h].todo /\ rec'[h].results = rec[h].results
    BY <1>1, <2>1
  <2> QED
    BY <1>1, <1>2, <2>2, CleanedGoesOn
<1> QED
  BY <1>3, <1>4, <1>5, <1>6

\* What is skipped is what is not recognised: everything else was undone.
LEMMA CleanedUndoes ==
  ASSUME Books, NEW h \in Recovers, CleanUndoes(h), Cleaned(h) PROVE Cleaned(h)'
<1> DEFINE c      == TxCandidate(rec[h].tx)
           known  == {e \in rec[h].copy.entries : Recognised(e)}
           broken == {e \in known : ~ToolWorks(Tool(e))}
<1>1. DOMAIN rec = Recovers /\ IsRecover(rec[h]) /\ NoTx.entries = {}
  BY DEF Books, Shapes, NoTx
<1>2. /\ UNCHANGED <<world, records, generated>> /\ rec[h].pc = "undo"
      /\ rec[h].copy = records[rec[h].tx]
  BY DEF CleanUndoes, Cleaned
<1>3. PICK stays \in FailsToUndo(known), fault \in BOOLEAN :
        /\ stays # {} => fault
        /\ Undo(known \ (broken \cup stays))
        /\ \/ Report(h, c, "failed")
           \/ ~fault /\ broken = {} /\ Report(h, c, "skipped")
           \/ rec' = [rec EXCEPT ![h].pc = "remove"]
  BY DEF CleanUndoes, TxCandidate
<1>4. net' \subseteq net /\ net' \cap (known \ (broken \cup stays)) = {}
  BY <1>3, UndoShrinks
<1>5. Fewer
  BY <1>2, <1>4 DEF Fewer
<1>6. CASE Report(h, c, "failed")
  BY <1>1, <1>5, <1>6, CleanedReports
<1>7. CASE ~fault /\ broken = {} /\ Report(h, c, "skipped")
  <2>1. net' \cap known = {}
    BY <1>3, <1>4, <1>7
  <2>2. \A e \in net' \cap records'[rec[h].tx].entries : ~Recognised(e)
    BY <1>2, <2>1
  <2>3. c.kind = "transaction-state" /\ \A i \in Ids : c = TxCandidate(i) => i = rec[h].tx
    BY ResultsDiffer
  <2> HIDE DEF c
  <2> QED
    BY <1>1, <1>5, <1>7, <2>2, <2>3, CleanedReports
<1>8. CASE rec' = [rec EXCEPT ![h].pc = "remove"]
  <2>1. /\ rec'[h].pc = "remove" /\ rec'[h].copy = records'[rec'[h].tx]
        /\ rec'[h].todo = rec[h].todo /\ rec'[h].results = rec[h].results
    BY <1>1, <1>2, <1>8
  <2> QED
    BY <1>1, <1>5, <2>1, CleanedGoesOn
<1> QED
  BY <1>3, <1>6, <1>7, <1>8

LEMMA CleanedRemoves ==
  ASSUME Books, NEW h \in Recovers, CleanRemoves(h), Cleaned(h) PROVE Cleaned(h)'
<1> DEFINE i == rec[h].tx
           c == TxCandidate(i)
<1>1. DOMAIN rec = Recovers /\ IsRecover(rec[h]) /\ NoTx.entries = {}
  BY DEF Books, Shapes, NoTx
<1>2. /\ UNCHANGED <<world, net, generated>> /\ rec[h].pc = "remove"
      /\ \/ SetRecord(i, NoTx) /\ Report(h, c, "recovered")
         \/ UNCHANGED records /\ Report(h, c, "failed")
  BY DEF CleanRemoves, TxCandidate
<1>3. Fewer
  BY <1>2 DEF Fewer, SetRecord, Books, Shapes
<1>4. CASE Report(h, c, "failed")
  BY <1>1, <1>3, <1>4, CleanedReports
<1>5. CASE SetRecord(i, NoTx) /\ Report(h, c, "recovered")
  <2>1. ~RequiresCleanup(NoTx.state) /\ (i \in Ids => records'[i] = NoTx)
    BY <1>5 DEF RequiresCleanup, NoTx, TxStates, SetRecord, Books, Shapes
  <2>2. c.kind = "transaction-state" /\ c.tx = i
    BY ResultsDiffer
  <2> HIDE DEF c
  <2>3. c \notin RecoveryScan'.found
    BY <2>1, <2>2 DEF RecoveryScan, Candidate
  <2> QED
    BY <1>1, <1>3, <1>5, <2>3, CleanedReports
<1> QED
  BY <1>2, <1>4, <1>5

LEMMA CleanedOther ==
  ASSUME Books, NEW h \in Recovers, CleanOther(h), Cleaned(h) PROVE Cleaned(h)'
<1>1. DOMAIN rec = Recovers /\ IsRecover(rec[h]) /\ NoTx.entries = {}
  BY DEF Books, Shapes, NoTx
<1>2. PICK c \in rec[h].todo :
        /\ c.kind # "transaction-state"
        /\ \/ CleanCandidate(c) /\ Report(h, c, "recovered")
           \/ UNCHANGED <<net, generated>> /\ Report(h, c, "failed")
  BY DEF CleanOther
<1>3. UNCHANGED <<world, records>>
  BY DEF CleanOther
<1>4. CASE CleanCandidate(c) /\ Report(h, c, "recovered")
  <2>1. \/ c.kind = "generated-runtime-configs" /\ ~generated' /\ UNCHANGED net
                                                /\ generated' = FALSE
        \/ c.kind = "tun-interface" /\ Undo({Link}) /\ UNCHANGED generated
        \/ c.kind = "nftables-table" /\ Undo(OfKind(net, "table")) /\ UNCHANGED generated
    BY <1>4 DEF CleanCandidate
  <2>2. Fewer
    BY <1>3, <2>1, UndoShrinks DEF Fewer
  <2>3. ASSUME c \in RecoveryScan'.found PROVE FALSE
    <3>1. \/ c.kind = "tun-interface" /\ Link \in net'
          \/ c.kind = "nftables-table" /\ OfKind(net', "table") # {}
          \/ c.kind = "generated-runtime-configs" /\ generated'
      BY <1>2, <2>3 DEF RecoveryScan, Candidate
    <3>2. c.kind = "tun-interface" => Link \notin net'
      BY <2>1, UndoShrinks
    <3>3. c.kind = "nftables-table" => OfKind(net', "table") = {}
      BY <2>1, UndoShrinks DEF OfKind
    <3> QED
      BY <2>1, <3>1, <3>2, <3>3
  <2> QED
    BY <1>1, <1>4, <2>2, <2>3, CleanedReports
<1>5. CASE UNCHANGED <<net, generated>> /\ Report(h, c, "failed")
  <2>1. Fewer
    BY <1>3, <1>5 DEF Fewer
  <2> QED
    BY <1>1, <1>5, <2>1, CleanedReports
<1> QED
  BY <1>2, <1>4, <1>5

\* A step that changes nothing that h knows.
LEMMA CleanedSame ==
  ASSUME NEW h, Cleaned(h), UNCHANGED <<world, hostVars>>, rec'[h] = rec[h]
  PROVE  Cleaned(h)'
<1>1. RecoveryScan' = RecoveryScan /\ UNCHANGED <<net, records>>
  BY SameScan DEF hostVars
<1> QED
  BY <1>1 DEF Cleaned, Left

LEMMA CleaningInit == Init => Cleaning
BY IdleHandlers DEF Init, Cleaning, InFlight, Idle

\* A step that leaves the host, or touches every recover.
LEMMA CleaningTouched ==
  ASSUME Cleaning, UNCHANGED rec,
         \/ UNCHANGED <<world, hostVars>> /\ touched \subseteq touched'
         \/ InFlight \subseteq touched'
  PROVE  Cleaning'
<1>1. InFlight' = InFlight
  BY DEF InFlight
<1> QED
  BY <1>1, CleanedSame DEF Cleaning

LEMMA CleaningHost ==
  ASSUME Cleaning, \/ \E d \in Daemons : \/ ConnectProxyOnly(d) \/ ConnectTun(d) \/ Disconnect(d)
                                         \/ Stop(d) \/ ServeFails(d) \/ UnitEnds(d)
                   \/ ConnectStep
  PROVE  Cleaning'
<1>1. UNCHANGED rec
  BY DEF ConnectProxyOnly, ConnectTun, Disconnect, Stop, ServeFails, UnitEnds, ConnectStep,
     Apply, ApplyFails, RecordApplied, RecordFails, LoadFails, VerifyPlan, StartChildren,
     Commit, ConnectFails, handlers
<1>2. CASE \E d \in Daemons : Disconnect(d) \/ Stop(d) \/ ServeFails(d)
  <2>1. PICK d \in Daemons : DisconnectOf(d) \/ DisconnectAtEnd(d)
    BY <1>2 DEF Disconnect, Stop, ServeFails
  <2>2. \/ InFlight \subseteq touched'
        \/ UNCHANGED <<hostVars, touched>>
    BY <2>1, TouchAll DEF DisconnectOf, DisconnectAtEnd, hostVars
  <2>3. UNCHANGED world
    BY <1>2 DEF Disconnect, Stop, ServeFails
  <2> QED
    BY <1>1, <2>2, <2>3, CleaningTouched
<1>3. CASE \E d \in Daemons : ConnectTun(d)
  BY <1>1, <1>3, CleaningTouched DEF ConnectTun
<1>4. CASE (\E d \in Daemons : ConnectProxyOnly(d) \/ UnitEnds(d)) \/ ConnectStep
  BY <1>1, <1>4, CleaningTouched, TouchAll DEF ConnectProxyOnly, UnitEnds, ConnectStep, Apply,
     ApplyFails, RecordApplied, RecordFails, LoadFails, VerifyPlan, StartChildren, Commit,
     ConnectFails, history
<1> QED
  BY <1>2, <1>3, <1>4

LEMMA CleaningRecover ==
  ASSUME Books, Known, Cleaning, NEW h \in Recovers,
         \/ \E d \in Daemons : RecoverStart(h, d)
         \/ CleanStep(h) \/ RefreshScans(h) \/ RefreshStores(h) \/ Respond(h)
  PROVE  Cleaning'
<1>1. \A g \in Recovers \ {h} : rec'[g] = rec[g]
  BY CleanSteps DEF Known, RecoverStart, RefreshScans, RefreshStores, Respond
<1>2. ASSUME NEW g \in Recovers \ {h}, g \in InFlight, g \notin touched'
      PROVE  Cleaned(g)'
  <2>1. g \notin touched /\ UNCHANGED <<world, hostVars>>
    BY <1>2 DEF RecoverStart, CleanStep, CleanLoads, CleanUndoes, CleanRemoves, CleanOther,
       RefreshScans, RefreshStores, Respond, Touch, history
  <2> QED
    BY <1>1, <1>2, <2>1, CleanedSame DEF Cleaning
<1>3. rec'[h].pc # "idle" /\ h \notin touched' => Cleaned(h)'
  <2>1. CASE \E d \in Daemons : RecoverStart(h, d)
    <3>1. /\ rec'[h].pc = "clean" /\ rec'[h].todo = RecoveryScan.found /\ rec'[h].results = {}
          /\ UNCHANGED <<world, hostVars>>
      BY <2>1 DEF RecoverStart, Known
    <3> QED
      BY <3>1, SameScan DEF Cleaned
  <2>2. CASE CleanStep(h)
    <3>1. h \in InFlight /\ (h \in touched => h \in touched')
      BY <2>2 DEF CleanStep, CleanLoads, CleanUndoes, CleanRemoves, CleanOther, InFlight, Touch,
         history
    <3> QED
      BY <2>2, <3>1, CleanedLoads, CleanedUndoes, CleanedRemoves, CleanedOther
         DEF Cleaning, CleanStep
  <2>3. CASE RefreshScans(h) \/ RefreshStores(h)
    <3>1. /\ rec[h].pc \in {"clean", "store"} /\ UNCHANGED <<world, hostVars>>
          /\ rec[h].pc = "clean" => rec[h].todo = {}
          /\ rec[h].pc # "idle" /\ h \in InFlight /\ (h \in touched => h \in touched')
      BY <2>3 DEF RefreshScans, RefreshStores, InFlight, Touch, history
    <3>2. /\ rec'[h].todo = rec[h].todo /\ rec'[h].results = rec[h].results
          /\ rec'[h].pc \in {"store", "done"}
      BY <2>3 DEF RefreshScans, RefreshStores, Known
    <3>3. RecoveryScan' = RecoveryScan /\ UNCHANGED <<net, records>>
      BY <3>1, SameScan DEF hostVars
    <3> QED
      BY <3>1, <3>2, <3>3 DEF Cleaning, Cleaned, Left
  <2>4. CASE Respond(h)
    BY <2>4, IdleHandlers DEF Respond, Idle, Known
  <2> QED
    BY <2>1, <2>2, <2>3, <2>4
<1> QED
  BY <1>1, <1>2, <1>3 DEF Cleaning, InFlight

LEMMA CleaningNext == Books /\ Known /\ Cleaning /\ [Next]_vars => Cleaning'
<1> SUFFICES ASSUME Books, Known, Cleaning, [Next]_vars PROVE Cleaning'
  OBVIOUS
<1>1. CASE UNCHANGED <<world, hostVars, rec, touched>>
  BY <1>1, CleaningTouched
<1>2. CASE \/ \E d \in Daemons : \/ ConnectProxyOnly(d) \/ ConnectTun(d) \/ Disconnect(d)
                                 \/ Stop(d) \/ ServeFails(d) \/ UnitEnds(d)
           \/ ConnectStep
  BY <1>2, CleaningHost
<1>3. CASE \E h \in Recovers : \/ \E d \in Daemons : RecoverStart(h, d)
                               \/ CleanStep(h) \/ RefreshScans(h) \/ RefreshStores(h)
                               \/ Respond(h)
  BY <1>3, CleaningRecover
<1>4. CASE \E d \in Daemons : Unwind(d) \/ Crash(d)
  <2>1. PICK d \in Daemons : Unwind(d) \/ Crash(d)
    BY <1>4
  <2>2. CASE EndProcess(d) /\ UNCHANGED <<world, hostVars>>
    <3>1. /\ \A h \in Recovers : rec'[h] = IF rec[h].by = d THEN NoRecover ELSE rec[h]
          /\ touched' = touched \ {h \in Recovers : rec[h].by = d}
      BY <2>2 DEF EndProcess
    <3> QED
      BY <2>2, <3>1, CleanedSame, IdleHandlers DEF Cleaning, InFlight, Idle
  <2> QED
    BY <1>1, <2>1, <2>2 DEF Unwind, Crash, handlers, history
<1>5. CASE \/ \E d \in Daemons : \/ Start(d) \/ TakeLock(d) \/ RemoveStaleSocket(d)
                                 \/ ScanAtStartup(d) \/ Listen(d) \/ CloseListener(d)
           \/ ClearStaleLock \/ UNCHANGED vars
  BY <1>5, <1>1 DEF Start, TakeLock, RemoveStaleSocket, ScanAtStartup, Listen, CloseListener,
     ClearStaleLock, vars, handlers, history
<1> QED
  BY <1>2, <1>3, <1>4, <1>5 DEF Next, ConnectStep, CleanStep

\* A recover that nothing has disturbed and that exits with 0 leaves no
\* candidate: each was either cleaned up, so that a scan no longer finds it, or
\* it has a result that is an error to the client.
THEOREM RecoverOkMeansCleanAlways == Spec => []RecoverOkMeansClean
<1>1. ASSUME Known, Cleaning, NEW h \in InFlight, rec[h].pc = "done", h \notin touched,
             ExitCode(rec[h].results) = 0
      PROVE  scan[rec[h].by].found = {}
  <2>1. Cleaned(h) /\ scan[rec[h].by] = RecoveryScan
    BY <1>1 DEF Known, Knows, Cleaning
  <2>2. \A c : ~Left(h, c)
    BY <1>1 DEF ExitCode, HasFailures, HasIncompleteCleanup, Left, Result
  <2> QED
    BY <1>1, <2>1, <2>2 DEF Cleaned
<1>2. Known /\ Cleaning => RecoverOkMeansClean
  BY <1>1 DEF RecoverOkMeansClean
<1> QED
  BY <1>2, BooksInit, BooksNext, KnownInit, KnownNext, CleaningInit, CleaningNext, PTL DEF Spec

\* What is recorded, and what recovery does not recognise of it.
LEMMA UnrecognisedEntries ==
  ASSUME NEW e \in PlanEntries, ~Recognised(e)
  PROVE  e.kind = "dns" \/ (e.kind = "route" /\ e.via = "")
<1>1. /\ Link.kind = "link" /\ DNSEntry.kind = "dns"
      /\ \A to : NFTable(to).kind = "table"
      /\ \A to, table, via, dev : Route(to, table, via, dev) =
           [Blank EXCEPT !.kind = "route", !.to = to, !.table = table, !.via = via, !.dev = dev]
  BY DEF Link, DNSEntry, NFTable, Route, Blank
<1>2. Default.via # "" => Default.dev # ""
  BY DEF Default, DefaultRoute
<1>3. CASE e \in {Link, DNSEntry, NFTable(""), NFTable("s4")}
  BY <1>1, <1>3 DEF Recognised
<1>4. CASE e = Route("default", "podlaz", "", ManagedInterface)
  BY <1>4 DEF Route, Blank, Recognised, RecognisedRoute, managedTable
<1>5. CASE e = Route("s4", "main", Default.via, Default.dev)
  BY <1>2, <1>5 DEF Route, Blank, Recognised, RecognisedRoute, safeMainServerBypassRoute, Family
<1>6. CASE e \in {PolicyRule(TunRulePriority, "all", "podlaz"),
                  PolicyRule(ServerRulePriority, "s4", "main")}
  BY <1>6 DEF PolicyRule, Blank, Recognised, RecognisedRule, safeMainServerBypassPolicyRule,
     managedTable, Family
<1> QED
  BY <1>3, <1>4, <1>5, <1>6 DEF PlanEntries

\* A recover that nothing has disturbed and that has no failure leaves of the
\* records it went through only DNS settings and a bypass route without a
\* gateway, and nothing else that it can find on the host.
THEOREM RecoverDoesAllItCanAlways == Spec => []RecoverDoesAllItCan
<1>1. ASSUME Known, Cleaning, Shaped, NEW h \in InFlight, rec[h].pc = "done", h \notin touched,
             ~HasFailures(rec[h].results), Host.ip = "ok", Host.nft = "ok"
      PROVE  /\ Link \notin net /\ OfKind(net, "table") = {}
             /\ \A i \in Ids : RequiresCleanup(records[i].state) =>
                  \A e \in net \cap records[i].entries :
                    e.kind = "dns" \/ (e.kind = "route" /\ e.via = "")
  <2>1. Cleaned(h) /\ rec[h].todo = {}
    BY <1>1 DEF Cleaning, Cleaned
  <2>2. \A c \in RecoveryScan.found :
          c.kind = "transaction-state" /\ Result(c, "skipped") \in rec[h].results
    BY <1>1, <2>1 DEF Cleaned, Left, HasFailures, Result
  <2>3. Link \notin net /\ OfKind(net, "table") = {}
    <3>1. ~(Candidate("tun-interface", None) \in RecoveryScan.found)
          /\ ~(Candidate("nftables-table", None) \in RecoveryScan.found)
      BY <2>2 DEF Candidate
    <3> QED
      BY <1>1, <3>1 DEF RecoveryScan
  <2>4. ASSUME NEW i \in Ids, RequiresCleanup(records[i].state),
               NEW e \in net \cap records[i].entries
        PROVE  e.kind = "dns" \/ (e.kind = "route" /\ e.via = "")
    <3>1. TxCandidate(i) \in RecoveryScan.found
      BY <2>4 DEF RecoveryScan, TxCandidate
    <3>2. ~Recognised(e)
      BY <2>1, <2>2, <2>4, <3>1 DEF Cleaned
    <3>3. e \in PlanEntries
      BY <1>1, <2>4 DEF Shaped
    <3> QED
      BY <3>2, <3>3, UnrecognisedEntries
  <2> QED
    BY <2>3, <2>4
<1>2. Known /\ Cleaning /\ Shaped => RecoverDoesAllItCan
  BY <1>1 DEF RecoverDoesAllItCan
<1> QED
  BY <1>2, BooksInit, BooksNext, KnownInit, KnownNext, CleaningInit, CleaningNext, ShapedInit,
     ShapedNext, PTL DEF Spec

-----------------------------------------------------------------------------
(* A clean exit.  Until a crash, a rollback that fails or a connect that   *)
(* comes too late cuts something short, every record that asks for an undo *)
(* is that of the connect under way or of the connection of a daemon that  *)
(* serves; so whoever stops serving has undone what it did, and Books says *)
(* that nothing else is on the host but what is lost or half-made.         *)

Settled(i)  == records[i].state \in {"absent", "rolled_back"}
Owner(i, d) == conn[d].mode = "tun" /\ conn[d].tx = i /\ phase[d] = "serving"

Uncut ==
  /\ connect.pc # "idle" => phase[connect.by] = "serving"
  /\ \A i \in Ids : \/ Settled(i)
                    \/ connect.pc # "idle" /\ connect.tx = i
                    \/ \E d \in Daemons : Owner(i, d)

\* A daemon that connects has no other TUN connection to lose.
OneOwn == connect.pc # "idle" => connect.by \in Daemons /\ conn[connect.by].mode # "tun"

Tidy == dirty \in BOOLEAN /\ OneOwn /\ (~dirty => Uncut)

\* What the steps rest on.
Kept == Books /\ Known /\ Owners /\ Shaped

LEMMA TidyInit == Init => Tidy
<1> SUFFICES ASSUME Init PROVE Tidy
  OBVIOUS
<1>1. connect.pc = "idle" /\ dirty = FALSE /\ \A i \in Ids : records[i] = NoTx
  BY IdleHandlers DEF Init, Idle
<1>2. \A i \in Ids : Settled(i)
  BY <1>1 DEF Settled, NoTx
<1> QED
  BY <1>1, <1>2 DEF Tidy, OneOwn, Uncut

LEMMA InactiveMode == Inactive.mode = "none"
BY DEF Inactive

MayDirty == dirty' = dirty \/ dirty' = TRUE
SettledOrSame(i) == Settled(i)' \/ records'[i] = records[i]

\* Nothing that the daemons own changes, and whoever serves goes on.
LEMMA TidySame ==
  ASSUME Tidy, UNCHANGED <<dirty, connect>>, \A i \in Ids : SettledOrSame(i),
         connect.pc # "idle" => conn'[connect.by].mode # "tun",
         \A d \in Daemons : phase[d] = "serving" => phase'[d] = "serving" /\ conn'[d] = conn[d]
  PROVE  Tidy'
<1>1. OneOwn'
  BY DEF Tidy, OneOwn
<1>2. ASSUME Uncut PROVE Uncut'
  <2>1. \A i \in Ids, d \in Daemons : Owner(i, d) => Owner(i, d)'
    BY DEF Owner
  <2>2. connect.pc # "idle" => phase'[connect.by] = "serving"
    BY <1>2 DEF Tidy, OneOwn, Uncut
  <2> QED
    BY <1>2, <2>1, <2>2 DEF Uncut, SettledOrSame, Settled
<1> QED
  BY <1>1, <1>2 DEF Tidy

\* A rollback that is not cut short settles the record.
LEMMA RolledBackWhole ==
  ASSUME Kept, NEW j, NEW what, NEW after, RolledBack(j, what, after),
         j \in Ids => after.state \in {"absent", "rolled_back"}
  PROVE  /\ MayDirty
         /\ ~dirty' => \A i \in Ids : IF i = j THEN Settled(i)' ELSE records'[i] = records[i]
<1>1. DOMAIN records = Ids
  BY DEF Kept, Books, Shapes
<1>2. CASE SetRecord(j, after) /\ UNCHANGED dirty
  BY <1>1, <1>2 DEF SetRecord, Settled, MayDirty
<1>3. CASE records[j].state = "absent" /\ UNCHANGED <<records, dirty>>
  BY <1>3 DEF Settled, MayDirty
<1>4. CASE dirty' = TRUE
  BY <1>4 DEF MayDirty
<1> QED
  BY <1>2, <1>3, <1>4 DEF RolledBack

LEMMA UndoneSettles ==
  ASSUME Kept, NEW j \in Ids
  PROVE  UndoneRecord(j).state = "rolled_back" /\ NoTx.state = "absent"
BY DEF Kept, Books, Shapes, UndoneRecord, NoTx

LEMMA TidyDisconnectOf ==
  ASSUME Kept, Tidy, NEW d \in Daemons, DisconnectOf(d), UNCHANGED connect,
         \A e \in Daemons \ {d} : phase'[e] = phase[e],
         connect.by = d => UNCHANGED phase
  PROVE  Tidy'
<1> DEFINE j == conn[d].tx
<1>1. conn' = [conn EXCEPT ![d] = Inactive] /\ DOMAIN conn = Daemons /\ DOMAIN records = Ids
  BY DEF DisconnectOf, Kept, Owners, Books, Shapes
<1>2. OneOwn'
  BY <1>1, InactiveMode DEF Tidy, OneOwn
<1>3. /\ MayDirty
      /\ ~dirty' => \A i \in Ids : IF conn[d].mode = "tun" /\ i = j
                                   THEN Settled(i)' ELSE records'[i] = records[i]
  <2>1. CASE RolledBack(j, records[j].entries, NoTx) /\ conn[d].mode = "tun"
    <3>1. NoTx.state \in {"absent", "rolled_back"}
      BY DEF NoTx
    <3> QED
      BY <2>1, <3>1, RolledBackWhole
  <2>2. CASE SetRecord(j, UndoneRecord(j)) /\ UNCHANGED dirty /\ conn[d].mode = "tun"
    BY <1>1, <2>2, UndoneSettles DEF SetRecord, Settled, MayDirty
  <2>3. CASE UNCHANGED <<records, dirty>> /\ conn[d].mode # "tun"
    BY <2>3 DEF MayDirty
  <2> QED
    BY <2>1, <2>2, <2>3 DEF DisconnectOf
<1>4. ASSUME ~dirty' PROVE Uncut'
  <2>1. Uncut
    BY <1>3, <1>4 DEF Tidy, MayDirty
  <2>2. \A i \in Ids, e \in Daemons \ {d} : Owner(i, e) => Owner(i, e)'
    BY <1>1 DEF Owner
  <2>3. \A i \in Ids : Settled(i)' \/ (records'[i] = records[i] /\ ~Owner(i, d))
    BY <1>3, <1>4 DEF Owner
  <2>4. connect.pc # "idle" => phase'[connect.by] = "serving"
    BY <2>1 DEF Uncut, Tidy, OneOwn
  <2> QED
    BY <2>1, <2>2, <2>3, <2>4 DEF Uncut, Settled
<1> QED
  BY <1>2, <1>3, <1>4 DEF Tidy, MayDirty

LEMMA TidyDisconnect ==
  ASSUME Kept, Tidy, NEW d \in Daemons, Disconnect(d) \/ Stop(d) \/ ServeFails(d)
  PROVE  Tidy'
<1>1. UNCHANGED connect /\ DOMAIN conn = Daemons /\ DOMAIN phase = Daemons
  BY DEF Disconnect, Stop, ServeFails, Kept, Owners, Places
<1>2. CASE connect.by = d /\ ~Disconnect(d)
  <2>1. dirty' = TRUE /\ conn' = [conn EXCEPT ![d] = Inactive]
    BY <1>2 DEF Stop, ServeFails, DisconnectAtEnd
  <2> QED
    BY <1>1, <2>1, InactiveMode DEF Tidy, OneOwn
<1>3. CASE connect.by # d \/ Disconnect(d)
  <2>1. DisconnectOf(d)
    BY <1>3 DEF Disconnect, Stop, ServeFails, DisconnectAtEnd
  <2>2. \A e \in Daemons \ {d} : phase'[e] = phase[e]
    BY <1>1 DEF Disconnect, Stop, ServeFails, serverVars
  <2>3. connect.by = d => UNCHANGED phase
    BY <1>3 DEF Disconnect, serverVars
  <2> QED
    BY <1>1, <2>1, <2>2, <2>3, TidyDisconnectOf
<1> QED
  BY <1>2, <1>3

LEMMA TidyConnectTun ==
  ASSUME Kept, Tidy, NEW d \in Daemons, ConnectTun(d) PROVE Tidy'
<1> DEFINE i == budget["connects"]
<1>1. /\ connect.pc = "idle" /\ conn[d] = Inactive /\ phase[d] \in {"serving", "stopping"}
      /\ connect'.pc = "apply" /\ connect'.by = d /\ connect'.tx = i
      /\ dirty' = (dirty \/ phase[d] = "stopping")
      /\ UNCHANGED <<conn, phase>>
  BY DEF ConnectTun, serverVars
<1>2. DOMAIN records = Ids /\ \A j \in Ids : j # i => records'[j] = records[j]
  BY DEF ConnectTun, SetRecord, Kept, Books, Shapes
<1>3. ASSUME ~dirty' PROVE Uncut'
  <2>1. Uncut /\ phase[d] = "serving"
    BY <1>1, <1>3 DEF Tidy
  <2>2. \A j \in Ids, e \in Daemons : Owner(j, e)' = Owner(j, e)
    BY <1>1 DEF Owner
  <2>3. \A j \in Ids : Settled(j)' \/ j = i \/ \E e \in Daemons : Owner(j, e)'
    BY <1>1, <1>2, <2>1, <2>2 DEF Uncut, Settled
  <2> QED
    BY <1>1, <2>1, <2>3 DEF Uncut
<1> HIDE DEF i
<1>4. OneOwn'
  BY <1>1, InactiveMode DEF OneOwn
<1> QED
  BY <1>1, <1>3, <1>4 DEF Tidy

LEMMA TidyConnectProxyOnly ==
  ASSUME Kept, Tidy, NEW d \in Daemons, ConnectProxyOnly(d) PROVE Tidy'
<1>1. /\ connect.pc = "idle" /\ conn[d] = Inactive
      /\ \A e \in Daemons \ {d} : conn'[e] = conn[e]
      /\ UNCHANGED <<dirty, records, connect, phase>>
  BY DEF ConnectProxyOnly, serverVars, Kept, Owners
<1>2. \A i \in Ids, e \in Daemons : Owner(i, e) => Owner(i, e)'
  BY <1>1, InactiveMode DEF Owner
<1> QED
  BY <1>1, <1>2 DEF Tidy, OneOwn, Uncut, Settled

\* The connect goes on, and changes no record but its own.
LEMMA TidyGoesOn ==
  ASSUME Kept, Tidy, Apply \/ RecordApplied \/ VerifyPlan \/ StartChildren PROVE Tidy'
<1>1. /\ UNCHANGED <<dirty, phase>> /\ connect.pc # "idle" /\ IsConnect(connect)
      /\ \E pc \in {"record", "check", "core", "verify"} :
           \/ connect' = [connect EXCEPT !.pc = pc]
           \/ connect' = [connect EXCEPT !.pc = pc,
                                         !.steps = Applied(connect.plan.entries, net)]
      /\ DOMAIN conn = Daemons /\ connect.by \in Daemons
      /\ UNCHANGED conn \/ conn' = [conn EXCEPT ![connect.by].core = TRUE]
      /\ DOMAIN records = Ids
  BY DEF Apply, RecordApplied, VerifyPlan, StartChildren, serverVars, history, Kept, Books,
     Shapes, Owners, Owned
<1>2. \A j \in Ids : j # connect.tx => records'[j] = records[j]
  BY <1>1 DEF Apply, RecordApplied, VerifyPlan, StartChildren, SetRecord, hostVars
<1>3. connect'.pc # "idle" /\ connect'.by = connect.by /\ connect'.tx = connect.tx
  BY <1>1
<1>4. conn[connect.by].mode # "tun"
  BY <1>1 DEF Tidy, OneOwn
<1>5. conn'[connect.by].mode # "tun" /\ \A e \in Daemons \ {connect.by} : conn'[e] = conn[e]
  <2>1. CASE conn' = [conn EXCEPT ![connect.by].core = TRUE]
    <3>1. conn'[connect.by].mode = conn[connect.by].mode
      BY <1>1, <2>1
    <3> QED
      BY <1>1, <1>4, <2>1, <3>1
  <2> QED
    BY <1>1, <1>4, <2>1
<1>6. \A j \in Ids, e \in Daemons : Owner(j, e) => Owner(j, e)'
  BY <1>1, <1>4, <1>5 DEF Owner
<1> QED
  BY <1>1, <1>2, <1>3, <1>5, <1>6 DEF Tidy, OneOwn, Uncut, Settled

LEMMA TidyCommit ==
  ASSUME Kept, Tidy, Commit PROVE Tidy'
<1>1. /\ UNCHANGED <<dirty, phase>> /\ connect.pc = "verify"
      /\ DOMAIN conn = Daemons /\ connect.by \in Daemons
      /\ conn' = [conn EXCEPT ![connect.by] = [mode |-> "tun", core |-> TRUE, tx |-> connect.tx]]
      /\ connect'.pc = "idle"
  BY IdleHandlers DEF Commit, serverVars, Kept, Owners, Owned, Idle
<1>2. \A j \in Ids : j # connect.tx => records'[j] = records[j]
  BY DEF Commit, Kept, Books, Shapes
<1>3. ASSUME Uncut PROVE Uncut'
  <2>1. \A j \in Ids, e \in Daemons : Owner(j, e) => Owner(j, e)'
    BY <1>1 DEF Owner, Tidy, OneOwn
  <2>2. \A j \in Ids : j = connect.tx => \E e \in Daemons : Owner(j, e)'
    BY <1>1, <1>3 DEF Owner, Uncut
  <2> QED
    BY <1>1, <1>2, <1>3, <2>1, <2>2 DEF Uncut, Settled
<1> QED
  BY <1>1, <1>3 DEF Tidy, OneOwn

\* The connect ends, and settles its record unless it is cut short.
LEMMA TidyEnds ==
  ASSUME Kept, Tidy, connect.pc # "idle", connect'.pc = "idle", UNCHANGED phase,
         \A e \in Daemons : conn'[e] = conn[e] \/ e = connect.by, MayDirty,
         ~dirty' => \A i \in Ids : IF i = connect.tx THEN Settled(i)' ELSE records'[i] = records[i]
  PROVE  Tidy'
<1>1. \A j \in Ids, e \in Daemons : Owner(j, e) => Owner(j, e)'
  BY DEF Owner, Tidy, OneOwn
<1>2. ASSUME ~dirty' PROVE Uncut'
  <2>1. Uncut
    BY <1>2 DEF Tidy, MayDirty
  <2> QED
    BY <1>1, <1>2, <2>1 DEF Uncut, Settled
<1> QED
  BY <1>2 DEF Tidy, OneOwn, MayDirty

LEMMA TidyConnectFails ==
  ASSUME Kept, Tidy, ApplyFails \/ RecordFails \/ LoadFails \/ ConnectFails PROVE Tidy'
<1>1. /\ UNCHANGED phase /\ connect.pc # "idle" /\ DOMAIN conn = Daemons /\ connect.by \in Daemons
      /\ UNCHANGED conn \/ conn' = [conn EXCEPT ![connect.by] = Inactive]
      /\ DOMAIN records = Ids /\ connect.tx \in Ids
  BY DEF ApplyFails, RecordFails, LoadFails, ConnectFails, serverVars, Kept, Books, Shapes,
     Owners, Owned
<1>2. \A e \in Daemons : conn'[e] = conn[e] \/ e = connect.by
  BY <1>1
<1>3. CASE \E on, halfMade, steps, fault : RollbackTunFailure(on, halfMade, steps, fault)
  <2>1. connect'.pc = "idle"
    BY <1>3, IdleHandlers DEF RollbackTunFailure, Idle
  <2>2. \/ dirty' = TRUE
        \/ UNCHANGED dirty /\ \E after : after.state = "rolled_back" /\ SetRecord(connect.tx, after)
    BY <1>3 DEF RollbackTunFailure
  <2>3. /\ MayDirty
        /\ ~dirty' => \A i \in Ids : IF i = connect.tx THEN Settled(i)'
                                     ELSE records'[i] = records[i]
    BY <1>1, <2>2 DEF SetRecord, Settled, MayDirty
  <2> QED
    BY <1>1, <1>2, <2>1, <2>3, TidyEnds
<1>4. CASE LoadFails
  <2>1. /\ connect'.pc = "idle" /\ UNCHANGED records
        /\ dirty' = (dirty \/ records[connect.tx].state # "absent")
    BY <1>4, IdleHandlers DEF LoadFails, Idle, hostVars
  <2>2. MayDirty /\ (~dirty' => Settled(connect.tx))
    BY <2>1 DEF MayDirty, Settled, Tidy
  <2> QED
    BY <1>1, <1>2, <2>1, <2>2, TidyEnds DEF Settled
<1>5. CASE ConnectFails
  <2>1. connect'.pc = "idle"
    BY <1>5, IdleHandlers DEF ConnectFails, Idle
  <2>2. /\ MayDirty
        /\ ~dirty' => \A i \in Ids : IF i = connect.tx THEN Settled(i)'
                                     ELSE records'[i] = records[i]
    <3>1. PICK j \in Ids : j = connect.tx
      BY <1>1
    <3>2. PICK what, after : RolledBack(j, what, after) /\ after = UndoneRecord(j)
      BY <1>5, <3>1 DEF ConnectFails
    <3>3. after.state = "rolled_back"
      BY <3>2, UndoneSettles
    <3> QED
      BY <3>1, <3>2, <3>3, RolledBackWhole
  <2> QED
    BY <1>1, <1>2, <2>1, <2>2, TidyEnds
<1> QED
  BY <1>3, <1>4, <1>5 DEF ApplyFails, RecordFails

\* A recover only takes records away.
LEMMA TidyClean ==
  ASSUME Kept, Tidy, NEW h \in Recovers, CleanStep(h) PROVE Tidy'
<1>1. UNCHANGED <<dirty, phase, conn, connect>>
  BY DEF CleanStep, CleanLoads, CleanUndoes, CleanRemoves, CleanOther, serverVars, history
<1>2. \A i \in Ids : SettledOrSame(i)
  BY CleanShrinks DEF Kept, SettledOrSame, Settled, NoTx
<1> QED
  BY <1>1, <1>2, TidySame DEF Tidy, OneOwn

LEMMA TidyEndProcess ==
  ASSUME Kept, Tidy, NEW d \in Daemons, EndProcess(d), UNCHANGED records,
         phase[d] # "serving", UNCHANGED dirty, \A e \in Daemons \ {d} : phase'[e] = phase[e]
  PROVE  Tidy'
<1>1. /\ conn' = [conn EXCEPT ![d] = Inactive] /\ DOMAIN conn = Daemons
      /\ connect.by = d => connect'.pc = "idle"
      /\ connect.by # d => UNCHANGED connect
  BY IdleHandlers DEF EndProcess, Idle, Kept, Owners
<1>2. OneOwn'
  BY <1>1 DEF Tidy, OneOwn
<1>3. ASSUME Uncut PROVE Uncut'
  <2>1. connect.by = d => connect.pc = "idle"
    BY <1>3 DEF Uncut
  <2>2. \A j \in Ids, e \in Daemons : Owner(j, e) => Owner(j, e)'
    BY <1>1 DEF Owner
  <2>3. connect'.pc # "idle" => phase'[connect'.by] = "serving"
    BY <1>1, <1>3, <2>1 DEF Uncut, Tidy, OneOwn
  <2> QED
    BY <1>1, <1>3, <2>1, <2>2, <2>3 DEF Uncut, Settled
<1> QED
  BY <1>2, <1>3 DEF Tidy

LEMMA TidyEnding ==
  ASSUME Kept, Tidy, NEW d \in Daemons, Unwind(d) \/ Crash(d) \/ UnitEnds(d) PROVE Tidy'
<1>1. DOMAIN phase = Daemons
  BY DEF Kept, Owners, Places
<1>2. CASE Unwind(d)
  <2>1. CASE /\ phase[d] \in {"closed", "broken"}
             /\ \E next : phase' = [phase EXCEPT ![d] = next]
             /\ UNCHANGED <<hostVars, handlers, history>>
    BY <1>1, <2>1, TidySame DEF hostVars, handlers, history, Tidy, OneOwn, SettledOrSame
  <2>2. CASE /\ phase[d] \in {"unlinked", "cut"} /\ phase' = [phase EXCEPT ![d] = Ended(d)]
             /\ EndProcess(d) /\ UNCHANGED <<hostVars, dirty>>
    BY <1>1, <2>2, TidyEndProcess DEF hostVars
  <2> QED
    BY <1>2, <2>1, <2>2 DEF Unwind
<1>3. CASE Crash(d)
  <2>1. dirty' = TRUE /\ EndProcess(d)
    BY <1>3 DEF Crash
  <2>2. OneOwn'
    BY <2>1, IdleHandlers DEF EndProcess, Idle, Tidy, OneOwn, Kept, Owners
  <2> QED
    BY <2>1, <2>2 DEF Tidy
<1>4. CASE UnitEnds(d)
  <2>1. /\ UNCHANGED <<dirty, conn, connect>> /\ \A i \in Ids : records'[i] = NoTx
        /\ phase[d] \in {"exited", "failed"} /\ \E next : phase' = [phase EXCEPT ![d] = next]
    BY <1>4 DEF UnitEnds, handlers
  <2>2. \A i \in Ids : SettledOrSame(i)
    BY <2>1 DEF SettledOrSame, Settled, NoTx
  <2> QED
    BY <1>1, <2>1, <2>2, TidySame DEF Tidy, OneOwn
<1> QED
  BY <1>2, <1>3, <1>4

LEMMA TidyServer ==
  ASSUME Kept, Tidy,
         \/ \E d \in Daemons : \/ Start(d) \/ TakeLock(d) \/ ScanAtStartup(d)
                               \/ RemoveStaleSocket(d) \/ Listen(d) \/ CloseListener(d)
                               \/ \E h \in Recovers : RecoverStart(h, d)
         \/ \E h \in Recovers : RefreshScans(h) \/ RefreshStores(h) \/ Respond(h)
         \/ ClearStaleLock \/ UNCHANGED vars
  PROVE  Tidy'
<1>1. DOMAIN phase = Daemons /\ DOMAIN conn = Daemons
  BY DEF Kept, Owners, Places
<1>2. UNCHANGED <<dirty, connect>> /\ \A i \in Ids : SettledOrSame(i)
  BY DEF Start, TakeLock, ScanAtStartup, RemoveStaleSocket, Listen, CloseListener, RecoverStart,
     RefreshScans, RefreshStores, Respond, ClearStaleLock, vars, hostVars, handlers, history,
     SettledOrSame
<1>3. CASE \/ \E d \in Daemons : \/ Start(d) \/ ScanAtStartup(d) \/ RemoveStaleSocket(d)
                                 \/ Listen(d) \/ CloseListener(d)
                                 \/ \E h \in Recovers : RecoverStart(h, d)
           \/ \E h \in Recovers : RefreshScans(h) \/ RefreshStores(h) \/ Respond(h)
           \/ ClearStaleLock \/ UNCHANGED vars
  <2>1. UNCHANGED conn
    BY <1>3 DEF Start, ScanAtStartup, RemoveStaleSocket, Listen, CloseListener, RecoverStart,
       RefreshScans, RefreshStores, Respond, ClearStaleLock, vars, handlers
  <2>2. \A d \in Daemons : phase[d] = "serving" => phase'[d] = "serving"
    BY <1>1, <1>3 DEF Start, ScanAtStartup, RemoveStaleSocket, Listen, CloseListener, RecoverStart,
       RefreshScans, RefreshStores, Respond, ClearStaleLock, vars, serverVars
  <2> QED
    BY <1>2, <2>1, <2>2, TidySame DEF Tidy, OneOwn
<1>4. CASE \E d \in Daemons : TakeLock(d)
  BY <1>1, <1>2, <1>4, InactiveMode, TidySame DEF TakeLock, Tidy, OneOwn
<1> QED
  BY <1>3, <1>4

LEMMA TidyNext == Kept /\ Tidy /\ [Next]_vars => Tidy'
<1> SUFFICES ASSUME Kept, Tidy, [Next]_vars PROVE Tidy'
  OBVIOUS
<1>1. CASE \E d \in Daemons : \/ ConnectProxyOnly(d) \/ ConnectTun(d) \/ Disconnect(d)
                              \/ Stop(d) \/ ServeFails(d)
  BY <1>1, TidyConnectProxyOnly, TidyConnectTun, TidyDisconnect
<1>2. CASE \E d \in Daemons : Unwind(d) \/ Crash(d) \/ UnitEnds(d)
  BY <1>2, TidyEnding
<1>3. CASE ConnectStep
  BY <1>3, TidyGoesOn, TidyCommit, TidyConnectFails DEF ConnectStep
<1>4. CASE \E h \in Recovers : CleanStep(h)
  BY <1>4, TidyClean
<1>5. CASE \/ \E d \in Daemons : \/ Start(d) \/ TakeLock(d) \/ ScanAtStartup(d)
                                 \/ RemoveStaleSocket(d) \/ Listen(d) \/ CloseListener(d)
                                 \/ \E h \in Recovers : RecoverStart(h, d)
           \/ \E h \in Recovers : RefreshScans(h) \/ RefreshStores(h) \/ Respond(h)
           \/ ClearStaleLock \/ UNCHANGED vars
  BY <1>5, TidyServer
<1> QED
  BY <1>1, <1>2, <1>3, <1>4, <1>5 DEF Next, ConnectStep, CleanStep

LEMMA KeptAlways == Spec => []Kept
<1> QED
  BY BooksInit, BooksNext, KnownInit, KnownNext, OwnersInit, OwnersNext, ShapedInit, ShapedNext,
     PTL DEF Spec, Kept

\* What is recorded on the host is named by a record that asks for an undo.
LEMMA BooksSettled ==
  ASSUME Books, Shaped, connect.pc = "idle", \A i \in Ids : Settled(i)
  PROVE  net \subseteq lost \cup half
<1>1. \A i \in Ids : records[i].state # "rolled_back" => records[i].entries = {}
  BY DEF Shaped, Fits, Settled, Present, NoTx
<1> QED
  BY <1>1 DEF Books, Covered, Names, Unrecorded

\* When every daemon has ended, and no crash, failed rollback or late connect
\* came in between, the Disconnect at shutdown has undone everything (Server.Run,
\* tun_transaction_rollback.go): every record that is left says so, and what is
\* left on the host is what a step that failed half-way has made, or what the
\* directory, or a record removed under a connect, had named.
THEOREM CleanExitAlways == Spec => []CleanExit
<1>1. Kept /\ Tidy => CleanExit
  <2> SUFFICES ASSUME Kept, Tidy, \A d \in Daemons : ~Running(d), ~dirty
               PROVE  /\ net \subseteq lost \cup half
                      /\ \A i \in Ids : records[i].state \in {"absent", "rolled_back"}
    BY DEF CleanExit
  <2>1. Uncut /\ connect.pc = "idle"
    BY DEF Tidy, Kept, Owners, Owned, Up
  <2>2. \A i \in Ids : Settled(i)
    BY <2>1 DEF Uncut, Owner
  <2> QED
    BY <2>1, <2>2, BooksSettled DEF Kept, Settled
<1> QED
  BY <1>1, KeptAlways, TidyInit, TidyNext, PTL DEF Spec

-----------------------------------------------------------------------------
(* Where the traffic goes.  The entries of a plan with a bypass, together  *)
(* with whatever was left on the host before it, make the kernel send what *)
(* is for the server to the uplink and everything else into the tunnel.    *)

\* The routes and rules of such a plan, and what the kernel has of its own.
TunnelRoute == Route("default", "podlaz", "", ManagedInterface)
ServerRoute4 == Route("s4", "main", Host.gw, Host.dev)
UplinkRoute == Route("default", "main", Host.gw, Host.dev)
TunnelRule  == PolicyRule(TunRulePriority, "all", "podlaz")
ServerRule  == PolicyRule(ServerRulePriority, "s4", "main")
MainRule    == PolicyRule(MainRulePriority, "all", "main")

\* Their fields.
LEMMA Fields ==
  /\ TunnelRoute.kind = "route" /\ TunnelRoute.to = "default" /\ TunnelRoute.table = "podlaz"
     /\ TunnelRoute.dev = ManagedInterface
  /\ ServerRoute4.kind = "route" /\ ServerRoute4.to = "s4" /\ ServerRoute4.table = "main"
     /\ ServerRoute4.via = Host.gw /\ ServerRoute4.dev = Host.dev
  /\ UplinkRoute.kind = "route" /\ UplinkRoute.to = "default" /\ UplinkRoute.table = "main"
     /\ UplinkRoute.dev = Host.dev
  /\ TunnelRule.kind = "rule" /\ TunnelRule.to = "all" /\ TunnelRule.table = "podlaz"
     /\ TunnelRule.prio = 10000
  /\ ServerRule.kind = "rule" /\ ServerRule.to = "s4" /\ ServerRule.table = "main"
     /\ ServerRule.prio = 9999
  /\ MainRule.kind = "rule" /\ MainRule.to = "all" /\ MainRule.table = "main"
     /\ MainRule.prio = 32766
  /\ Link.kind = "link" /\ DNSEntry.kind = "dns"
  /\ \A to : NFTable(to).kind = "table" /\ NFTable(to).to = to
BY DEF TunnelRoute, ServerRoute4, UplinkRoute, TunnelRule, ServerRule, MainRule, Route, PolicyRule,
   Blank, Link, DNSEntry, NFTable, TunRulePriority, ServerRulePriority, MainRulePriority

\* A host on which the tunnel is up.
TunnelUp(after) ==
  /\ Host.dev \notin {"", "none", ManagedInterface}
  /\ OfKind(after, "route") = {TunnelRoute, ServerRoute4}
  /\ OfKind(after, "rule") = {TunnelRule, ServerRule}
  /\ OfKind(after, "table") = {NFTable("s4")}

LEMMA RoutesOfTunnel ==
  ASSUME NEW after, TunnelUp(after), NEW dest \in Destinations
  PROVE  /\ RoutesTo(Host, after, "podlaz", dest) = {TunnelRoute}
         /\ RoutesTo(Host, after, "main", dest) =
              IF dest = "s4" THEN {ServerRoute4, UplinkRoute} ELSE {UplinkRoute}
<1> DEFINE routes == {TunnelRoute, ServerRoute4, UplinkRoute}
<1>1. OfKind(after, "route") \cup Uplink(Host) = routes
  <2>1. Uplink(Host) = {UplinkRoute}
    BY DEF TunnelUp, Uplink, UplinkRoute
  <2>2. OfKind(after, "route") = {TunnelRoute, ServerRoute4}
    BY DEF TunnelUp
  <2> QED
    BY <2>1, <2>2
<1>2. \A table : RoutesTo(Host, after, table, dest) =
                  {r \in routes : r.table = table /\ r.to \in {"default", dest}}
  BY <1>1 DEF RoutesTo
<1>3. \A r \in routes : r.table = "podlaz" /\ r.to \in {"default", dest} <=> r = TunnelRoute
  BY Fields
<1>4. \A r \in routes : r.table = "main" /\ r.to \in {"default", dest} <=>
                         r = UplinkRoute \/ (dest = "s4" /\ r = ServerRoute4)
  BY Fields DEF Destinations
<1> QED
  BY <1>2, <1>3, <1>4

LEMMA RulesOfTunnel ==
  ASSUME NEW after, TunnelUp(after), NEW dest \in Destinations
  PROVE  RulesFor(Host, after, dest) =
           IF dest = "s4" THEN {TunnelRule, ServerRule, MainRule} ELSE {TunnelRule, MainRule}
<1> DEFINE rules == {TunnelRule, ServerRule, MainRule}
<1>1. OfKind(after, "rule") \cup {PolicyRule(MainRulePriority, "all", "main")} = rules
  <2>1. OfKind(after, "rule") = {TunnelRule, ServerRule}
    BY DEF TunnelUp
  <2> QED
    BY <2>1 DEF MainRule
<1>2. RulesFor(Host, after, dest) =
        {r \in rules : r.to \in {"all", dest} /\ RoutesTo(Host, after, r.table, dest) # {}}
  BY <1>1 DEF RulesFor
<1>3. \A r \in rules : RoutesTo(Host, after, r.table, dest) # {}
  BY RoutesOfTunnel, Fields
<1>4. \A r \in rules : r.to \in {"all", dest} <=> r # ServerRule \/ dest = "s4"
  BY Fields DEF Destinations
<1>5. ServerRule # TunnelRule /\ ServerRule # MainRule
  BY Fields
<1> QED
  BY <1>2, <1>3, <1>4, <1>5

\* The rule with the lowest priority, and the longest prefix in its table.
LEMMA OutOf ==
  ASSUME NEW n, NEW dest, NEW rule \in RulesFor(Host, n, dest),
         \A r \in RulesFor(Host, n, dest) : rule.prio <= r.prio /\
            ((\A s \in RulesFor(Host, n, dest) : r.prio <= s.prio) => r = rule),
         NEW route \in RoutesTo(Host, n, rule.table, dest),
         \A o \in RoutesTo(Host, n, rule.table, dest) :
            o.to = dest \/ (\A s \in RoutesTo(Host, n, rule.table, dest) : s.to # dest) <=> o = route
  PROVE  Out(Host, n, dest) = route.dev
<1> DEFINE rules == RulesFor(Host, n, dest)
           routes == RoutesTo(Host, n, rule.table, dest)
           first == CHOOSE r \in rules : \A s \in rules : r.prio <= s.prio
<1> HIDE DEF rules, routes
<1>1. /\ rule \in rules /\ route \in routes
      /\ \A r \in rules : rule.prio <= r.prio /\ ((\A s \in rules : r.prio <= s.prio) => r = rule)
      /\ \A r \in routes : r.to = dest \/ (\A s \in routes : s.to # dest) <=> r = route
  BY DEF rules, routes
<1>2. first = rule
  BY <1>1
<1>3. (CHOOSE r \in routes : r.to = dest \/ \A s \in routes : s.to # dest) = route
  BY <1>1
<1> QED
  BY <1>1, <1>2, <1>3 DEF Out, rules, routes

LEMMA SiteThroughTunnel ==
  ASSUME NEW after, TunnelUp(after)
  PROVE  Out(Host, after, "site") = ManagedInterface
<1>1. RulesFor(Host, after, "site") = {TunnelRule, MainRule}
  BY RulesOfTunnel DEF Destinations
<1>2. RoutesTo(Host, after, TunnelRule.table, "site") = {TunnelRoute}
  BY RoutesOfTunnel, Fields DEF Destinations
<1>3. TunnelRule.prio = 10000 /\ MainRule.prio = 32766 /\ TunnelRoute.to # "site"
      /\ TunnelRoute.dev = ManagedInterface
  BY Fields
<1> QED
  BY <1>1, <1>2, <1>3, OutOf

LEMMA ServerOnUplink ==
  ASSUME NEW after, TunnelUp(after)
  PROVE  Out(Host, after, "s4") = Host.dev
<1>1. RulesFor(Host, after, "s4") = {TunnelRule, ServerRule, MainRule}
  BY RulesOfTunnel DEF Destinations
<1>2. RoutesTo(Host, after, ServerRule.table, "s4") = {ServerRoute4, UplinkRoute}
  BY RoutesOfTunnel, Fields DEF Destinations
<1>3. /\ TunnelRule.prio = 10000 /\ ServerRule.prio = 9999 /\ MainRule.prio = 32766
      /\ ServerRoute4.to = "s4" /\ UplinkRoute.to # "s4" /\ ServerRoute4.dev = Host.dev
  BY Fields
<1> QED
  BY <1>1, <1>2, <1>3, OutOf

LEMMA UpIsTunnelled ==
  ASSUME NEW after, TunnelUp(after)
  PROVE  Tunnelled(Host, after)
<1>1. NFTable("s4").to = "s4"
  BY Fields
<1> QED
  BY <1>1, SiteThroughTunnel, ServerOnUplink DEF Tunnelled, Passes, TunnelUp

\* The entries of a plan with a bypass, and the table of one without.
TunnelEntries == {Link, DNSEntry, NFTable("s4"), TunnelRoute, ServerRoute4, TunnelRule, ServerRule}

LEMMA KindsDiffer ==
  /\ Link.kind = "link" /\ DNSEntry.kind = "dns"
  /\ TunnelRoute.kind = "route" /\ ServerRoute4.kind = "route"
  /\ TunnelRule.kind = "rule" /\ ServerRule.kind = "rule"
BY DEF Link, DNSEntry, TunnelRoute, ServerRoute4, TunnelRule, ServerRule, Route, PolicyRule, Blank

LEMMA EntriesByKind ==
  ASSUME NEW e \in TunnelEntries \cup {NFTable("")}
  PROVE  /\ e.kind = "route" <=> e \in {TunnelRoute, ServerRoute4}
         /\ e.kind = "rule"  <=> e \in {TunnelRule, ServerRule}
         /\ e.kind = "table" <=> e \in {NFTable("s4"), NFTable("")}
<1>1. NFTable("s4").kind = "table" /\ NFTable("").kind = "table"
  BY DEF NFTable, Blank
<1>2. CASE e \in {Link, DNSEntry}
  BY <1>1, <1>2, KindsDiffer
<1>3. CASE e \in {TunnelRoute, ServerRoute4}
  BY <1>1, <1>3, KindsDiffer
<1>4. CASE e \in {TunnelRule, ServerRule}
  BY <1>1, <1>4, KindsDiffer
<1>5. CASE e \in {NFTable("s4"), NFTable("")}
  BY <1>1, <1>5, KindsDiffer
<1> QED
  BY <1>2, <1>3, <1>4, <1>5 DEF TunnelEntries

\* A plan with a bypass that applies brings the tunnel up.
LEMMA AppliedTunnels ==
  ASSUME Shaped, NEW plan, plan = PlanTun(CollectSnapshot(Host, net)),
         Applies(plan, Host, net), plan.bypass # ""
  PROVE  TunnelUp(net \cup plan.entries)
<1> DEFINE after == net \cup plan.entries
<1>1. /\ plan.bypass \in {"", "s4", "s6"}
      /\ plan.entries = {Link, DNSEntry, NFTable(plan.bypass), TunnelRoute, TunnelRule} \cup
           {Route(plan.bypass, "main", Default.via, Default.dev),
            PolicyRule(ServerRulePriority, plan.bypass, "main")}
  BY PlanOfHost DEF Shaped, TunnelRoute, TunnelRule
<1>2. Host.ip = "ok" /\ plan.dns = "configure" /\ plan.firewall = "create"
      /\ \A r \in OfKind(plan.entries, "route") : Family(r.to) = "ipv4" /\ (r.via # "" \/ r.dev # "")
  BY <1>1, KindsDiffer DEF Applies, Validated, Applicable, OfKind
<1>3. plan.bypass = "s4" /\ (Default.via # "" \/ Default.dev # "")
  <2> DEFINE bypass == Route(plan.bypass, "main", Default.via, Default.dev)
  <2>1. bypass.kind = "route" /\ bypass.to = plan.bypass /\ bypass.via = Default.via
        /\ bypass.dev = Default.dev
    BY DEF Route, Blank
  <2>2. bypass \in OfKind(plan.entries, "route")
    BY <1>1, <2>1 DEF OfKind
  <2> QED
    BY <1>1, <1>2, <2>1, <2>2 DEF Family
<1>4. Host.dev \notin {"", "none", ManagedInterface} /\ Default.via = Host.gw /\ Default.dev = Host.dev
  BY <1>2, <1>3, HostAssumption DEF Default, DefaultRoute, Host, W, Shaped
<1>5. OfKind(net, "table") = {}
  <2>1. FirewallTableAction(CollectSnapshot(Host, net)) = "create"
    BY <1>2 DEF PlanTun
  <2>2. CollectSnapshot(Host, net).nftTable # "detected"
        /\ CollectSnapshot(Host, net).nftables = "detected"
    BY <2>1 DEF FirewallTableAction
  <2>3. Host.nft = "ok"
    BY <2>2 DEF CollectSnapshot, ToolStatus
  <2> QED
    BY <2>2, <2>3 DEF CollectSnapshot
<1>6. plan.entries = TunnelEntries
  BY <1>1, <1>3, <1>4 DEF TunnelEntries, ServerRoute4, ServerRule
<1>7. PlanEntries = TunnelEntries \cup {NFTable("")}
  BY <1>4 DEF PlanEntries, TunnelEntries, TunnelRoute, ServerRoute4, TunnelRule, ServerRule
<1>8. NFTable("").kind = "table" /\ NFTable("") # NFTable("s4")
  BY DEF NFTable, Blank
<1>9. TunnelEntries \subseteq after /\ after \subseteq TunnelEntries
  <2>1. NFTable("") \notin net
    BY <1>5, <1>8 DEF OfKind
  <2>2. net \subseteq TunnelEntries
    BY <1>7, <2>1 DEF Shaped
  <2> QED
    BY <1>6, <2>2
<1> HIDE DEF after
<1>10. \A e \in TunnelEntries :
         /\ e.kind = "route" <=> e \in {TunnelRoute, ServerRoute4}
         /\ e.kind = "rule"  <=> e \in {TunnelRule, ServerRule}
         /\ e.kind = "table" <=> e = NFTable("s4")
  <2>1. NFTable("") \notin TunnelEntries
    <3>1. NFTable("") \notin {Link, DNSEntry, TunnelRoute, ServerRoute4, TunnelRule, ServerRule}
      BY <1>8, EntriesByKind, KindsDiffer
    <3> QED
      BY <1>8, <3>1 DEF TunnelEntries
  <2> QED
    BY <2>1, EntriesByKind
<1>11. /\ {TunnelRoute, ServerRoute4} \subseteq TunnelEntries
       /\ {TunnelRule, ServerRule} \subseteq TunnelEntries /\ NFTable("s4") \in TunnelEntries
  BY DEF TunnelEntries
<1>12. /\ OfKind(after, "route") = {TunnelRoute, ServerRoute4}
       /\ OfKind(after, "rule") = {TunnelRule, ServerRule}
       /\ OfKind(after, "table") = {NFTable("s4")}
  BY <1>9, <1>10, <1>11 DEF OfKind
<1> QED
  BY <1>4, <1>12 DEF TunnelUp, after

\* The plan that a host gets that has what it takes, and nothing of podlaz.
LEMMA HealthyPlan ==
  ASSUME world \in DOMAIN Worlds, Healthy(Host),
         NEW plan, plan = PlanTun(CollectSnapshot(Host, {}))
  PROVE  plan.bypass # "" /\ Applies(plan, Host, {})
<1> DEFINE s == CollectSnapshot(Host, {})
<1>1. /\ Host.ip = "ok" /\ Host.nft = "ok" /\ Host.resolvectl = "ok"
      /\ Host.dev \notin {"", "none", ManagedInterface}
      /\ Host.answers \in Seq({"s4", "s6"}) /\ \E k \in DOMAIN Host.answers : Host.answers[k] = "s4"
  BY HostAssumption DEF Healthy, Host, W
<1>2. chooseResolvedIP(Host.answers) = "s4"
  BY <1>1, ChosenAddress
<1>3. Out(Host, {}, "s4") = Host.dev
  <2>1. Uplink(Host) = {UplinkRoute}
    BY <1>1 DEF Uplink, UplinkRoute
  <2>2. \A kind : OfKind({}, kind) = {}
    BY DEF OfKind
  <2>3. RoutesTo(Host, {}, "main", "s4") = {UplinkRoute}
    <3>1. RoutesTo(Host, {}, "main", "s4") =
            {r \in {UplinkRoute} : r.table = "main" /\ r.to \in {"default", "s4"}}
      BY <2>1, <2>2 DEF RoutesTo
    <3> QED
      BY <3>1, Fields
  <2>4. RulesFor(Host, {}, "s4") = {MainRule}
    <3>1. RulesFor(Host, {}, "s4") =
            {r \in {MainRule} : r.to \in {"all", "s4"} /\ RoutesTo(Host, {}, r.table, "s4") # {}}
      BY <2>2 DEF RulesFor, MainRule
    <3> QED
      BY <2>3, <3>1, Fields
  <2>5. MainRule.prio = 32766 /\ MainRule.table = "main" /\ UplinkRoute.to # "s4"
        /\ UplinkRoute.dev = Host.dev
    BY Fields
  <2> QED
    BY <2>3, <2>4, <2>5, OutOf
<1>4. s.server = [status |-> "detected", ip |-> "s4"]
  BY <1>1, <1>2, <1>3 DEF CollectSnapshot, ServerRoute
<1>5. s.resolved = "detected" /\ s.nftables = "detected" /\ s.nftTable = "missing"
  BY <1>1 DEF CollectSnapshot, ToolStatus, OfKind
<1>6. plan.bypass = "s4"
  <2>1. ServerBypassIP(s) = "s4"
    BY <1>4 DEF ServerBypassIP
  <2> QED
    BY <2>1 DEF PlanTun
<1>7. plan.dns = "configure" /\ plan.firewall = "create"
  BY <1>5 DEF PlanTun, DNSAction, FirewallTableAction
<1>8. plan.entries = TunnelEntries
  <2>1. Default.via = Host.gw /\ Default.dev = Host.dev
    BY <1>1 DEF Default, DefaultRoute
  <2> QED
    BY <1>6, <2>1, PlanOfHost DEF TunnelEntries, TunnelRoute, TunnelRule, ServerRoute4, ServerRule
<1>9. \A r \in OfKind(plan.entries, "route") : Family(r.to) = "ipv4" /\ (r.via # "" \/ r.dev # "")
  <2>1. \A r \in OfKind(plan.entries, "route") : r \in {TunnelRoute, ServerRoute4}
    BY <1>8, EntriesByKind DEF OfKind
  <2>2. TunnelRoute.to = "default" /\ TunnelRoute.dev # "" /\ ServerRoute4.to = "s4"
        /\ ServerRoute4.dev # ""
    <3>1. TunnelRoute.to = "default" /\ TunnelRoute.dev = ManagedInterface
          /\ ServerRoute4.to = "s4" /\ ServerRoute4.dev = Host.dev
      BY DEF TunnelRoute, ServerRoute4, Route, Blank
    <3> QED
      BY <1>1, <3>1 DEF ManagedInterface
  <2> QED
    BY <2>1, <2>2 DEF Family
<1>10. \A e \in plan.entries : Applicable(e, Host, {})
  BY <1>1, <1>9 DEF Applicable, OfKind
<1> QED
  BY <1>6, <1>7, <1>10 DEF Applies, Validated

\* What an undisturbed connect has planned, and what it has applied.
Traffic ==
  connect.pc # "idle" /\ "connect" \notin touched =>
    /\ connect.pc = "apply" => connect.plan = PlanTun(CollectSnapshot(Host, net))
    /\ connect.pc # "apply" /\ connect.plan.bypass # "" => Tunnelled(Host, net)

LEMMA TrafficInit == Init => Traffic
BY IdleHandlers DEF Init, Traffic, Idle

LEMMA TrafficSame ==
  Traffic /\ UNCHANGED <<world, net, connect>> /\ ("connect" \in touched => "connect" \in touched')
    => Traffic'
BY DEF Traffic, Host, W

\* A step that touches a connect, or ends it.
LEMMA TrafficTouched ==
  "connect" \in touched' \/ connect'.pc = "idle" => Traffic'
BY DEF Traffic

LEMMA TouchConnect ==
  ASSUME NEW h \in Recovers \cup {None}, Touch(h), UNCHANGED connect
  PROVE  "connect" \in touched' \/ connect'.pc = "idle"
BY DaemonAssumption DEF Touch

LEMMA TrafficApply ==
  ASSUME Books, Shaped, Traffic, Apply PROVE Traffic'
<1>1. /\ Applies(connect.plan, Host, net) /\ net' = net \cup connect.plan.entries
      /\ UNCHANGED world /\ connect.pc = "apply"
      /\ "connect" \in touched => "connect" \in touched'
  BY DEF Apply, Touch
<1>2. connect'.pc = "record" /\ connect'.plan = connect.plan
  BY DEF Apply, Books, Shapes
<1>3. ASSUME "connect" \notin touched', connect.plan.bypass # "" PROVE Tunnelled(Host, net')
  BY <1>1, <1>3, AppliedTunnels, UpIsTunnelled DEF Traffic
<1> QED
  BY <1>1, <1>2, <1>3 DEF Traffic, Host, W

LEMMA TrafficConnect ==
  ASSUME Books, Shaped, Traffic,
         (\E d \in Daemons : ConnectProxyOnly(d) \/ ConnectTun(d)) \/ ConnectStep
  PROVE  Traffic'
<1>1. CASE \E d \in Daemons : ConnectProxyOnly(d)
  BY <1>1, TrafficTouched DEF ConnectProxyOnly
<1>2. CASE \E d \in Daemons : ConnectTun(d)
  BY <1>2 DEF ConnectTun, Traffic, Host, W
<1>3. CASE RecordApplied \/ VerifyPlan \/ StartChildren
  <2>1. /\ connect.pc \in {"record", "check", "core"} /\ connect'.pc \in {"check", "core", "verify"}
        /\ connect'.plan = connect.plan /\ UNCHANGED <<world, net>>
        /\ "connect" \in touched => "connect" \in touched'
    BY <1>3 DEF RecordApplied, VerifyPlan, StartChildren, Books, Shapes, Touch, hostVars, history
  <2> QED
    BY <2>1 DEF Traffic, Host, W
<1>4. CASE ApplyFails \/ RecordFails \/ LoadFails \/ Commit \/ ConnectFails
  BY <1>4, TrafficTouched, IdleHandlers DEF ApplyFails, RecordFails, RollbackTunFailure,
     LoadFails, Commit, ConnectFails, Idle
<1> QED
  BY <1>1, <1>2, <1>3, <1>4, TrafficApply DEF ConnectStep

LEMMA TrafficDisconnect ==
  ASSUME Traffic, NEW d \in Daemons, Disconnect(d) \/ Stop(d) \/ ServeFails(d)
  PROVE  Traffic'
<1>1. UNCHANGED <<world, connect>>
  BY DEF Disconnect, Stop, ServeFails
<1>2. UNCHANGED <<net, touched>> \/ Touch(None)
  BY DEF Disconnect, Stop, ServeFails, DisconnectAtEnd, DisconnectOf, hostVars
<1> QED
  BY <1>1, <1>2, TrafficSame, TrafficTouched, TouchConnect

LEMMA TrafficNext == Books /\ Shaped /\ Traffic /\ [Next]_vars => Traffic'
<1> SUFFICES ASSUME Books, Shaped, Traffic, [Next]_vars PROVE Traffic'
  OBVIOUS
<1>1. CASE (\E d \in Daemons : ConnectProxyOnly(d) \/ ConnectTun(d)) \/ ConnectStep
  BY <1>1, TrafficConnect
<1>2. CASE \E d \in Daemons : Disconnect(d) \/ Stop(d) \/ ServeFails(d)
  BY <1>2, TrafficDisconnect
<1>3. CASE \E d \in Daemons : Unwind(d) \/ Crash(d)
  <2>1. UNCHANGED <<world, net>>
    BY <1>3 DEF Unwind, Crash, hostVars
  <2>2. UNCHANGED connect \/ connect'.pc = "idle"
    BY <1>3, IdleHandlers DEF Unwind, Crash, EndProcess, Idle, handlers
  <2>3. "connect" \in touched => "connect" \in touched'
    BY <1>3, DaemonAssumption DEF Unwind, Crash, EndProcess, history
  <2> QED
    BY <2>1, <2>2, <2>3, TrafficSame, TrafficTouched
<1>4. CASE \E h \in Recovers : CleanUndoes(h) \/ CleanRemoves(h) \/ CleanOther(h) \/ RefreshStores(h)
  BY <1>4, TrafficTouched, TouchConnect DEF CleanUndoes, CleanRemoves, CleanOther, RefreshStores
<1>5. CASE \/ \E d \in Daemons : UnitEnds(d) \/ \E h \in Recovers : RecoverStart(h, d)
           \/ \E h \in Recovers : Respond(h)
  <2>1. UNCHANGED <<world, net, connect>>
    BY <1>5 DEF UnitEnds, RecoverStart, Respond, hostVars, handlers
  <2>2. "connect" \in touched => "connect" \in touched'
    BY <1>5, DaemonAssumption DEF UnitEnds, RecoverStart, Respond, Touch
  <2> QED
    BY <2>1, <2>2, TrafficSame
<1>6. CASE \/ \E d \in Daemons : \/ Start(d) \/ TakeLock(d) \/ ScanAtStartup(d)
                                 \/ RemoveStaleSocket(d) \/ Listen(d) \/ CloseListener(d)
           \/ \E h \in Recovers : CleanLoads(h) \/ RefreshScans(h)
           \/ ClearStaleLock \/ UNCHANGED vars
  BY <1>6, TrafficSame DEF Start, TakeLock, ScanAtStartup, RemoveStaleSocket, Listen,
     CloseListener, CleanLoads, RefreshScans, ClearStaleLock, vars, hostVars, handlers, history
<1> QED
  BY <1>1, <1>2, <1>3, <1>4, <1>5, <1>6 DEF Next, ConnectStep

\* On a host that has what it takes the plan has a bypass and can be applied,
\* and once a plan with a bypass is applied, whatever was left on the host
\* before, the server is reached on the uplink and everything else only through
\* the tunnel, as long as no recover interferes (collect.go, tun.go).
THEOREM PlanCarriesTrafficAlways == Spec => []PlanCarriesTraffic
<1>1. Shaped /\ Traffic => PlanCarriesTraffic
  BY HealthyPlan DEF Shaped, Traffic, PlanCarriesTraffic
<1> QED
  BY <1>1, BooksInit, BooksNext, ShapedInit, ShapedNext, TrafficInit, TrafficNext, PTL DEF Spec
=============================================================================


------------------------- MODULE UserStores_proofs -------------------------
(***************************************************************************)
(* Of the stores of a user, for any number of processes, any commands and  *)
(* whatever fails: both can be loaded unless one is being put back         *)
(* (StoresReadable), whoever is about to undo a write has read what it     *)
(* puts back (TypeOK), servers see one client id (OneClientId), a profile  *)
(* that keeps its id connects to the same server (SameIdSameOutbound).  Of *)
(* commands that run one at a time: one that fails changes nothing         *)
(* (FailedCommandChangesNothing), none takes the profiles of others        *)
(* (OthersProfilesStay), and the two files agree once it is done           *)
(* (OwnedOnce, LinkedProfilesStored, NoOrphans, NamesDistinct).            *)
(***************************************************************************)
EXTENDS UserStores, Imports_proofs, FiniteSetTheorems, TLAPS

-----------------------------------------------------------------------------
(* The invariant.  A store is torn only while it is put back or since that *)
(* was interrupted; what a process writes or puts back can be loaded.      *)

IsSource(s) == s = [id |-> s.id, name |-> s.name, url |-> s.url, links |-> s.links]
IsValid(f, x) == IF f = "profiles" THEN Valid(x) /\ IsProfile(x)
                 ELSE ValidSource(x) /\ IsSource(x)
Loadable(f, S) == IsFiniteSet(S) /\ Unique(S) /\ \A x \in S : IsValid(f, x)
IsFile(f, file) ==
  /\ file = [state |-> file.state, data |-> file.data]
  /\ file.state \in {"absent", "ok", "torn"}
  /\ file.state # "ok" => file.data = {}
  /\ Loadable(f, file.data)

\* What a command has to have read before a step, and which commands get there.
\* A new source links nothing yet.
Requesting == {"prepare", "fetch", "retryID", "createID", "writeID", "syncID"}
Changing == {"snapshot", "replace", "updateSource", "checkStores", "dropProfiles",
             "deleteSource"}
Taken(l) == {s.of : s \in l.snapshot}
Ready(label, cmd, l) ==
  /\ label = "addProfiles" =>
       cmd.name = "add" /\ Good(l.given, Sources \ {"subscription"})
  /\ label = "deleteProfile" => cmd.name = "profile delete"
  /\ label = "getSource" => cmd.name \in {"update", "delete"}
  /\ label \in Requesting \cup Changing \cup {"addSource"} =>
       /\ l.source # {}
       /\ cmd.name \in {"subscribe", "import"} => \A s \in l.source : s.links = {}
  /\ label \in Requesting => cmd.name \in {"import", "update"}
  /\ label \in {"checkStores", "deleteSource"} => cmd.name = "delete"
  /\ label = "checkStores" => ~cmd.keep
  /\ label = "addSource" => cmd.name \in {"subscribe", "import"}
  /\ (label = "addSource" /\ cmd.name = "import") =>
       "sources" \in Taken(l) /\ NamesApart(l.given)
  /\ label = "snapshot" => /\ cmd.name \in {"import", "update", "delete"}
                           /\ cmd.name # "delete" =>
                                "sources" \in Taken(l) /\ NamesApart(l.given)
                           /\ cmd.name = "delete" => ~cmd.keep
  /\ label \in {"replace", "updateSource"} => /\ cmd.name \in {"import", "update"}
                                              /\ Stores \subseteq Taken(l)
                                              /\ NamesApart(l.given)
  /\ label = "dropProfiles" =>
       cmd.name = "delete" /\ ~cmd.keep /\ "profiles" \in Taken(l)
  /\ (label = "deleteSource" /\ ~cmd.keep) => "profiles" \in Taken(l)
  /\ label \in {"restore", "rewrite"} => l.undo # {} /\ l.undo \subseteq Taken(l)

IsLocal(l) ==
  /\ l = [target |-> l.target, next |-> l.next, after |-> l.after, undo |-> l.undo,
          given |-> l.given, source |-> l.source, snapshot |-> l.snapshot]
  /\ Good(l.given, Sources)
  /\ \A r, s \in l.source : r = s
  /\ \A s \in l.source : IsSource(s)
  /\ \A s \in l.snapshot : s.of \in Stores /\ IsFile(s.of, s.file)
\* Which store is written before a step, and what a failing write puts back.
Leads(after, cmd, f, undo) ==
  /\ after = "snapshot" => cmd.name = "import" /\ f = "sources" /\ undo = {}
  /\ after = "updateSource" =>
       f = "profiles" /\ (cmd.name # "import" => undo \subseteq {"profiles"})
  /\ after = "deleteSource" => f = "profiles" /\ undo = {} /\ ~cmd.keep
MaySave(cmd, l) ==
  /\ l.target \in Stores /\ Loadable(l.target, l.next)
  /\ l.undo \subseteq Taken(l)
  /\ l.after \in {"ok", "snapshot", "updateSource", "deleteSource"}
  /\ Ready(l.after, cmd, l) /\ Leads(l.after, cmd, l.target, l.undo)
IsProcess(t) ==
  /\ t = [pc |-> t.pc, cmd |-> t.cmd, loc |-> t.loc, before |-> t.before]
  /\ t.pc \in Labels
  /\ IsLocal(t.loc) /\ Ready(t.pc, t.cmd, t.loc)
  /\ t.pc = "save" => MaySave(t.cmd, t.loc)

Processes == DOMAIN cli = Procs /\ \A c \in Procs : IsProcess(cli[c])
IsPutBack(f) == \E c \in Procs : At(c, "rewrite") /\ Undoing(c) = f
Files ==
  /\ DOMAIN files = Stores
  /\ \A f \in Stores :
       /\ IsFile(f, files[f])
       /\ files[f].state = "torn" => history.unrestored \/ IsPutBack(f)
Bounds ==
  /\ world \in DOMAIN Worlds
  /\ budget = [commands |-> budget.commands, faults |-> budget.faults]
  /\ budget.commands \in 0..World.commands /\ budget.faults \in 0..World.faults
IsHistory ==
  history = [alone |-> history.alone, crashed |-> history.crashed,
             unsynced |-> history.unsynced, unrestored |-> history.unrestored,
             kept |-> history.kept, dropped |-> history.dropped, ids |-> history.ids]
StoresInv == Processes /\ Files /\ Bounds /\ IsHistory

-----------------------------------------------------------------------------
(* Sets of what has an id, and lists of profiles.                          *)

LEMMA UniqueMeansInjective ==
  ASSUME NEW S, IsFiniteSet(S)
  PROVE  Unique(S) <=> \A x, y \in S : x.id = y.id => x = y
<1> DEFINE f == [x \in S |-> x.id]
<1>1. f \in Surjection(S, Named(S))
  BY DEF Surjection, Named
<1>2. Cardinality(Named(S)) = Cardinality(S) <=> f \in Injection(S, Named(S))
  BY <1>1, FS_Surjection
<1>3. f \in Injection(S, Named(S)) <=> \A x, y \in S : x.id = y.id => x = y
  <2>1. f \in [S -> Named(S)]
    BY DEF Named
  <2> QED BY <2>1 DEF Injection, IsInjective
<1> QED BY <1>2, <1>3 DEF Unique

LEMMA ListElements ==
  ASSUME NEW ps, IsList(ps)
  PROVE  /\ IsFiniteSet({ps[i] : i \in DOMAIN ps})
         /\ Distinct(ps) => \A i, j \in DOMAIN ps : ps[i].id = ps[j].id => i = j
<1> DEFINE all == {ps[i] : i \in DOMAIN ps}
           g == [i \in DOMAIN ps |-> ps[i]]
           h == [i \in DOMAIN ps |-> ps[i].id]
<1>1. DOMAIN ps = 1..Len(ps) /\ Len(ps) \in Nat
  BY ListRange
<1>2. IsFiniteSet(DOMAIN ps) /\ Cardinality(DOMAIN ps) = Len(ps)
  <2>1. PICK n \in Nat : n = Len(ps)
    BY <1>1
  <2>2. IsFiniteSet(1..n) /\ Cardinality(1..n) = n
    <3>1. 1 \in Int /\ n \in Int
      OBVIOUS
    <3>2. IsFiniteSet(1..n) /\ Cardinality(1..n) = IF 1 > n THEN 0 ELSE n - 1 + 1
      BY <3>1, FS_Interval, Zenon
    <3> QED BY <3>2
  <2> QED BY <1>1, <2>1, <2>2
<1>3. IsFiniteSet(all)
  <2>1. g \in Surjection(DOMAIN ps, all)
    BY DEF Surjection
  <2> QED BY <2>1, <1>2, FS_Surjection
<1>4. ASSUME Distinct(ps)
      PROVE  \A i, j \in DOMAIN ps : ps[i].id = ps[j].id => i = j
  <2>1. h \in Surjection(DOMAIN ps, Ids(ps))
    BY DEF Surjection, Ids
  <2>2. Cardinality(Ids(ps)) = Cardinality(DOMAIN ps)
    BY <1>2, <1>4 DEF Distinct
  <2>3. h \in Injection(DOMAIN ps, Ids(ps))
    BY <2>1, <2>2, <1>2, FS_Surjection
  <2> QED BY <2>3 DEF Injection, IsInjective
<1> QED BY <1>3, <1>4

LEMMA NothingLoads == ASSUME NEW f PROVE Loadable(f, {})
BY FS_EmptySet, UniqueMeansInjective DEF Loadable

LEMMA PartLoads ==
  ASSUME NEW f, NEW S, Loadable(f, S), NEW T \in SUBSET S
  PROVE  Loadable(f, T)
<1>1. IsFiniteSet(S) /\ IsFiniteSet(T)
  BY FS_Subset DEF Loadable
<1> QED BY <1>1, UniqueMeansInjective DEF Loadable

\* What is added to a store must have other ids than what is there.
LEMMA UnionLoads ==
  ASSUME NEW f, NEW S, NEW T, Loadable(f, S), Loadable(f, T),
         \A x \in S, y \in T : x.id # y.id
  PROVE  Loadable(f, S \cup T)
<1>1. IsFiniteSet(S) /\ IsFiniteSet(T) /\ IsFiniteSet(S \cup T)
  BY FS_Union DEF Loadable
<1>2. \A x, y \in S \cup T : x.id = y.id => x = y
  BY <1>1, UniqueMeansInjective DEF Loadable
<1> QED BY <1>1, <1>2, UniqueMeansInjective DEF Loadable

LEMMA OneLoads ==
  ASSUME NEW f, NEW x, IsValid(f, x)
  PROVE  Loadable(f, {x})
<1>1. IsFiniteSet({x})
  BY FS_Singleton
<1> QED BY <1>1, UniqueMeansInjective DEF Loadable

LEMMA ListLoads ==
  ASSUME NEW ps, Good(ps, Sources), Distinct(ps), \A i \in DOMAIN ps : Valid(ps[i])
  PROVE  Loadable("profiles", {ps[i] : i \in DOMAIN ps})
<1> DEFINE all == {ps[i] : i \in DOMAIN ps}
<1>1. /\ IsFiniteSet(all)
      /\ \A i, j \in DOMAIN ps : ps[i].id = ps[j].id => i = j
  BY ListElements DEF Good
<1>2. \A x, y \in all : x.id = y.id => x = y
  BY <1>1
<1>3. Unique(all)
  BY <1>1, <1>2, UniqueMeansInjective
<1>4. \A x \in all : IsValid("profiles", x)
  BY DEF IsValid, Good
<1> QED BY <1>1, <1>3, <1>4 DEF Loadable

\* A store loads exactly when it is not torn.
LEMMA FilesLoad ==
  ASSUME Files
  PROVE  /\ LoadsProfiles <=> files.profiles.state # "torn"
         /\ LoadsSources <=> files.sources.state # "torn"
         /\ Loadable("profiles", files.profiles.data)
         /\ Loadable("sources", files.sources.data)
BY DEF Files, IsFile, Loadable, IsValid, Stores, LoadsProfiles, LoadsSources

LEMMA HeldIsFile ==
  ASSUME NEW f \in Stores, NEW S, Loadable(f, S)
  PROVE  IsFile(f, Holds(S))
BY DEF IsFile, Holds
LEMMA EmptyFiles ==
  ASSUME NEW f \in Stores
  PROVE  IsFile(f, NoFile) /\ IsFile(f, Torn)
BY NothingLoads DEF IsFile, NoFile, Torn

-----------------------------------------------------------------------------
(* How a process goes from one step to the next.                           *)

Only(c) == \A d \in Procs \ {c} : cli'[d] = cli[d]

LEMMA SetMakes ==
  ASSUME Processes, NEW c \in Procs, NEW label, NEW l, Set(c, label, l)
  PROVE  /\ DOMAIN cli' = Procs /\ Only(c)
         /\ cli'[c] = [pc |-> label, cmd |-> cli[c].cmd, loc |-> l,
                       before |-> cli[c].before]
<1>1. /\ DOMAIN cli = Procs
      /\ cli[c] = [pc |-> cli[c].pc, cmd |-> cli[c].cmd, loc |-> cli[c].loc,
                   before |-> cli[c].before]
  BY DEF Processes, IsProcess
<1> DEFINE half == [cli EXCEPT ![c].pc = label]
<1>2. /\ DOMAIN half = Procs /\ \A d \in Procs \ {c} : half[d] = cli[d]
      /\ half[c] = [pc |-> label, cmd |-> cli[c].cmd, loc |-> cli[c].loc,
                    before |-> cli[c].before]
  BY <1>1
<1>3. cli' = [half EXCEPT ![c].loc = l]
  BY DEF Set
<1> HIDE DEF half
<1>4. /\ DOMAIN cli' = Procs /\ \A d \in Procs \ {c} : cli'[d] = half[d]
      /\ cli'[c] = [half[c] EXCEPT !.loc = l]
  BY <1>2, <1>3
<1>5. cli'[c] = [pc |-> label, cmd |-> cli[c].cmd, loc |-> l,
                 before |-> cli[c].before]
  BY <1>2, <1>4
<1> QED BY <1>2, <1>4, <1>5 DEF Only

LEMMA SetStep ==
  ASSUME Processes, NEW c \in Procs, NEW label \in Labels, NEW l, IsLocal(l),
         Ready(label, Cmd(c), l), label = "save" => MaySave(Cmd(c), l),
         Set(c, label, l)
  PROVE  Processes' /\ Only(c)
<1>1. /\ DOMAIN cli' = Procs /\ Only(c)
      /\ cli'[c] = [pc |-> label, cmd |-> cli[c].cmd, loc |-> l,
                    before |-> cli[c].before]
  BY SetMakes
<1>2. IsProcess(cli'[c])
  BY <1>1 DEF IsProcess, Cmd
<1> QED BY <1>1, <1>2 DEF Processes, Only

LEMMA NoLocalIsLocal ==
  NoLocal.given = <<>> /\ IsLocal(NoLocal)
<1>1. Good(<<>>, Sources)
  BY NoneIsGood
<1> QED BY <1>1 DEF NoLocal, IsLocal

LEMMA ReturnStep ==
  ASSUME Processes, NEW c \in Procs, NEW result \in {"idle", "ok", "failed"},
         Return(c, result)
  PROVE  Processes' /\ Only(c)
<1>1. cli' = [cli EXCEPT ![c] = [pc |-> result, cmd |-> NoCommand, loc |-> NoLocal,
                                 before |-> {}]]
  <2>1. [Idle EXCEPT !.pc = result]
          = [pc |-> result, cmd |-> NoCommand, loc |-> NoLocal, before |-> {}]
    BY DEF Idle
  <2> QED BY <2>1 DEF Return
<1>2. IsProcess([pc |-> result, cmd |-> NoCommand, loc |-> NoLocal, before |-> {}])
  BY NoLocalIsLocal DEF IsProcess, Labels, Ready, Requesting, Changing
<1> QED BY <1>1, <1>2 DEF Processes, Only

LEMMA RollbackStep ==
  ASSUME Processes, NEW c \in Procs, NEW undo \in SUBSET Taken(Loc(c)),
         Rollback(c, undo)
  PROVE  Processes' /\ Only(c)
<1> DEFINE l == [Loc(c) EXCEPT !.undo = undo]
<1>1. CASE undo = {}
  BY <1>1, ReturnStep DEF Rollback
<1>2. CASE undo # {}
  <2>1. IsLocal(Loc(c))
    BY DEF Processes, IsProcess, Loc
  <2>2. l = [target |-> Loc(c).target, next |-> Loc(c).next, after |-> Loc(c).after,
             undo |-> undo, given |-> Loc(c).given, source |-> Loc(c).source,
             snapshot |-> Loc(c).snapshot]
    <3>1. Loc(c) = [target |-> Loc(c).target, next |-> Loc(c).next,
                    after |-> Loc(c).after, undo |-> Loc(c).undo,
                    given |-> Loc(c).given, source |-> Loc(c).source,
                    snapshot |-> Loc(c).snapshot]
      BY <2>1 DEF IsLocal
    <3> QED BY <3>1
  <2>3. IsLocal(l) /\ Taken(l) = Taken(Loc(c))
    BY <2>1, <2>2 DEF IsLocal, Taken
  <2>4. Ready("restore", Cmd(c), l)
    BY <1>2, <2>2, <2>3 DEF Ready, Requesting, Changing
  <2> QED BY <1>2, <2>3, <2>4, SetStep DEF Rollback, Labels
<1> QED BY <1>1, <1>2

Filled(l, f, next, after, undo) ==
  [l EXCEPT !.target = f, !.next = next, !.after = after, !.undo = undo]

LEMMA SaveFields ==
  ASSUME NEW f, NEW next, NEW after, NEW undo, NEW l,
         l = [target |-> l.target, next |-> l.next, after |-> l.after, undo |-> l.undo,
              given |-> l.given, source |-> l.source, snapshot |-> l.snapshot]
  PROVE  Filled(l, f, next, after, undo)
           = [target |-> f, next |-> next, after |-> after, undo |-> undo,
              given |-> l.given, source |-> l.source, snapshot |-> l.snapshot]
<1> DEFINE a == [l EXCEPT !.target = f]
           b == [a EXCEPT !.next = next]
           d == [b EXCEPT !.after = after]
<1>1. a = [target |-> f, next |-> l.next, after |-> l.after, undo |-> l.undo,
           given |-> l.given, source |-> l.source, snapshot |-> l.snapshot]
  OBVIOUS
<1> HIDE DEF a
<1>2. b = [target |-> f, next |-> next, after |-> l.after, undo |-> l.undo,
           given |-> l.given, source |-> l.source, snapshot |-> l.snapshot]
  BY <1>1
<1> HIDE DEF b
<1>3. d = [target |-> f, next |-> next, after |-> after, undo |-> l.undo,
           given |-> l.given, source |-> l.source, snapshot |-> l.snapshot]
  BY <1>2
<1> HIDE DEF d
<1>4. [d EXCEPT !.undo = undo]
         = [target |-> f, next |-> next, after |-> after, undo |-> undo,
            given |-> l.given, source |-> l.source, snapshot |-> l.snapshot]
  BY <1>3
<1> QED BY <1>4 DEF Filled, a, b, d

LEMMA WillSaveStep ==
  ASSUME Processes, NEW c \in Procs, NEW f \in Stores, NEW next, Loadable(f, next),
         NEW after \in {"ok", "snapshot", "updateSource", "deleteSource"},
         NEW undo \in SUBSET Taken(Loc(c)), Ready(after, Cmd(c), Loc(c)),
         Leads(after, Cmd(c), f, undo), WillSave(c, f, next, after, undo)
  PROVE  Processes' /\ Only(c)
<1> DEFINE l == Filled(Loc(c), f, next, after, undo)
<1>1. IsLocal(Loc(c))
  BY DEF Processes, IsProcess, Loc
<1>2. l = [target |-> f, next |-> next, after |-> after, undo |-> undo,
           given |-> Loc(c).given, source |-> Loc(c).source,
           snapshot |-> Loc(c).snapshot]
  <2>1. Loc(c) = [target |-> Loc(c).target, next |-> Loc(c).next,
                  after |-> Loc(c).after, undo |-> Loc(c).undo,
                  given |-> Loc(c).given, source |-> Loc(c).source,
                  snapshot |-> Loc(c).snapshot]
    BY <1>1 DEF IsLocal
  <2> QED BY <2>1, SaveFields
<1>3. /\ IsLocal(l) /\ Taken(l) = Taken(Loc(c))
      /\ l.source = Loc(c).source /\ l.given = Loc(c).given
  BY <1>1, <1>2 DEF IsLocal, Taken
<1>4. Ready("save", Cmd(c), l)
  BY DEF Ready, Requesting, Changing
<1>5. Ready(after, Cmd(c), l)
  <2> HIDE DEF l
  <2> QED BY <1>3 DEF Ready, Requesting, Changing
<1>6. MaySave(Cmd(c), l)
  BY <1>2, <1>3, <1>5 DEF MaySave
<1> HIDE DEF l
<1> QED BY <1>3, <1>4, <1>6, SetStep DEF WillSave, Filled, Labels, l

LEMMA GotoStep ==
  ASSUME Processes, NEW c \in Procs, NEW label \in Labels \ {"save"},
         Ready(label, Cmd(c), Loc(c)), Goto(c, label)
  PROVE  Processes' /\ Only(c)
<1>1. IsLocal(Loc(c))
  BY DEF Processes, IsProcess, Loc
<1> QED BY <1>1, SetStep DEF Goto

LEMMA BeginStep ==
  ASSUME Processes, NEW c \in Procs, NEW cmd, NEW label \in Labels \ {"save"},
         NEW l, IsLocal(l), Ready(label, cmd, l), Begin(c, cmd, label, l)
  PROVE  Processes' /\ Only(c)
<1>1. PICK before : cli' = [cli EXCEPT ![c] =
                 [pc |-> label, cmd |-> cmd, loc |-> l, before |-> before]]
  BY DEF Begin
<1>2. IsProcess([pc |-> label, cmd |-> cmd, loc |-> l, before |-> before])
  BY DEF IsProcess
<1> QED BY <1>1, <1>2 DEF Processes, Only

\* A step that touches neither file, by a process that puts none back.
LEMMA BoundsKept ==
  ASSUME Bounds, UNCHANGED world, Fault \/ UNCHANGED budget
  PROVE  Bounds'
BY StoresAssumption DEF Bounds, Fault, World

LEMMA FilesKept ==
  ASSUME Files, Processes, NEW c \in Procs, Only(c), ~At(c, "rewrite"), UNCHANGED files,
         history'.unrestored = history.unrestored
  PROVE  Files'
<1>1. \A f \in Stores : IsPutBack(f) => IsPutBack(f)'
  BY DEF IsPutBack, At, Undoing, Loc, Only
<1> QED BY <1>1 DEF Files

LEMMA OtherStep ==
  ASSUME StoresInv, NEW c \in Procs, Processes', Only(c), ~At(c, "rewrite"),
         UNCHANGED <<world, files>>, Fault \/ UNCHANGED budget,
         IsHistory', history'.unrestored = history.unrestored
  PROVE  StoresInv'
<1>1. Files'
  BY FilesKept DEF StoresInv
<1>2. Bounds'
  BY BoundsKept DEF StoresInv
<1> QED BY <1>1, <1>2 DEF StoresInv

-----------------------------------------------------------------------------
(* Local variables that change.                                            *)

WithGiven(l, given)   == [l EXCEPT !.given = given]
WithSources(l, source) == [l EXCEPT !.source = source]
WithSnapshot(l, snapshot) == [l EXCEPT !.snapshot = snapshot]
Fetched(l, given, source, snapshot) ==
  [l EXCEPT !.given = given, !.source = source, !.snapshot = snapshot]

LEMMA LocalWith ==
  ASSUME NEW given, NEW source, NEW l,
         l = [target |-> l.target, next |-> l.next, after |-> l.after, undo |-> l.undo,
              given |-> l.given, source |-> l.source, snapshot |-> l.snapshot]
  PROVE  /\ WithGiven(l, given)
              = [target |-> l.target, next |-> l.next, after |-> l.after,
                 undo |-> l.undo, given |-> given, source |-> l.source,
                 snapshot |-> l.snapshot]
         /\ WithSources(l, source)
              = [target |-> l.target, next |-> l.next, after |-> l.after,
                 undo |-> l.undo, given |-> l.given, source |-> source,
                 snapshot |-> l.snapshot]
BY DEF WithGiven, WithSources

LEMMA SourceChanged ==
  ASSUME NEW l, IsLocal(l), NEW S, \A r, s \in S : r = s, \A s \in S : IsSource(s)
  PROVE  /\ IsLocal(WithSources(l, S))
         /\ Taken(WithSources(l, S)) = Taken(l) /\ WithSources(l, S).undo = l.undo
         /\ WithSources(l, S).source = S
<1> DEFINE w == WithSources(l, S)
<1>1. l = [target |-> l.target, next |-> l.next, after |-> l.after, undo |-> l.undo,
           given |-> l.given, source |-> l.source, snapshot |-> l.snapshot]
  BY DEF IsLocal
<1>2. w = [target |-> l.target, next |-> l.next, after |-> l.after,
           undo |-> l.undo, given |-> l.given, source |-> S, snapshot |-> l.snapshot]
  BY <1>1, LocalWith
<1> HIDE DEF w
<1>3. /\ w.given = l.given /\ w.source = S /\ w.snapshot = l.snapshot /\ w.undo = l.undo
      /\ w = [target |-> w.target, next |-> w.next, after |-> w.after,
              undo |-> w.undo, given |-> w.given, source |-> w.source,
              snapshot |-> w.snapshot]
  BY <1>2
<1>5. IsLocal(w)
  BY <1>3 DEF IsLocal
<1> QED BY <1>3, <1>5 DEF w, Taken

LEMMA SnapshotChanged ==
  ASSUME NEW l, IsLocal(l), NEW S, \A s \in S : s.of \in Stores /\ IsFile(s.of, s.file)
  PROVE  /\ IsLocal(WithSnapshot(l, S)) /\ WithSnapshot(l, S).snapshot = S
         /\ WithSnapshot(l, S).source = l.source /\ WithSnapshot(l, S).given = l.given
<1> DEFINE w == WithSnapshot(l, S)
<1>1. l = [target |-> l.target, next |-> l.next, after |-> l.after, undo |-> l.undo,
           given |-> l.given, source |-> l.source, snapshot |-> l.snapshot]
  BY DEF IsLocal
<1>2. w = [target |-> l.target, next |-> l.next, after |-> l.after,
           undo |-> l.undo, given |-> l.given, source |-> l.source, snapshot |-> S]
  BY <1>1 DEF WithSnapshot
<1> HIDE DEF w
<1>3. /\ w.given = l.given /\ w.source = l.source /\ w.snapshot = S
      /\ w = [target |-> w.target, next |-> w.next, after |-> w.after,
              undo |-> w.undo, given |-> w.given, source |-> w.source,
              snapshot |-> w.snapshot]
  BY <1>2
<1>5. IsLocal(w)
  BY <1>3 DEF IsLocal
<1> QED BY <1>3, <1>5 DEF w

LEMMA FetchedFields ==
  ASSUME NEW l, IsLocal(l), NEW given, NEW source, NEW snapshot
  PROVE  LET w == Fetched(l, given, source, snapshot)
         IN  /\ w.given = given /\ w.source = source /\ w.snapshot = snapshot
             /\ w = [target |-> w.target, next |-> w.next, after |-> w.after,
                     undo |-> w.undo, given |-> w.given, source |-> w.source,
                     snapshot |-> w.snapshot]
<1> DEFINE a == WithGiven(l, given)
           b == WithSources(a, source)
           w == Fetched(l, given, source, snapshot)
<1>1. l = [target |-> l.target, next |-> l.next, after |-> l.after, undo |-> l.undo,
           given |-> l.given, source |-> l.source, snapshot |-> l.snapshot]
  BY DEF IsLocal
<1>2. a = [target |-> l.target, next |-> l.next, after |-> l.after,
           undo |-> l.undo, given |-> given, source |-> l.source, snapshot |-> l.snapshot]
  BY <1>1, LocalWith
<1>3. w = WithSnapshot(b, snapshot)
  BY DEF Fetched, WithSnapshot, WithSources, WithGiven
<1> HIDE DEF a
<1>4. b = [target |-> l.target, next |-> l.next, after |-> l.after,
           undo |-> l.undo, given |-> given, source |-> source, snapshot |-> l.snapshot]
  BY <1>2 DEF WithSources
<1> HIDE DEF b, w
<1>5. w = [target |-> l.target, next |-> l.next, after |-> l.after,
           undo |-> l.undo, given |-> given, source |-> source, snapshot |-> snapshot]
  BY <1>3, <1>4 DEF WithSnapshot
<1> QED BY <1>5 DEF w

-----------------------------------------------------------------------------
(* Commands that begin.                                                    *)

LEMMA ListGiven ==
  ASSUME NEW ps, Good(ps, Sources)
  PROVE  IsLocal([NoLocal EXCEPT !.given = ps]) /\ [NoLocal EXCEPT !.given = ps].given = ps
<1>1. WithGiven(NoLocal, ps)
        = [target |-> "none", next |-> {}, after |-> "none", undo |-> {},
           given |-> ps, source |-> {}, snapshot |-> {}]
  <2>1. /\ NoLocal.target = "none" /\ NoLocal.next = {} /\ NoLocal.after = "none"
        /\ NoLocal.undo = {} /\ NoLocal.source = {} /\ NoLocal.snapshot = {}
    BY DEF NoLocal
  <2>2. NoLocal = [target |-> NoLocal.target, next |-> NoLocal.next,
                   after |-> NoLocal.after, undo |-> NoLocal.undo,
                   given |-> NoLocal.given, source |-> NoLocal.source,
                   snapshot |-> NoLocal.snapshot]
    BY DEF NoLocal
  <2> QED BY <2>1, <2>2, LocalWith
<1> DEFINE l == WithGiven(NoLocal, ps)
<1> HIDE DEF l
<1>2. IsLocal(l) /\ l.given = ps
  BY <1>1 DEF IsLocal, l
<1> QED BY <1>2 DEF WithGiven, l

LEMMA SourceGiven ==
  ASSUME NEW name, NEW url
  PROVE  LET s == NewSource(name, url)
             l == WithSourceOf(s)
         IN  IsSource(s) /\ s.links = {} /\ IsLocal(l) /\ l.source = {s}
<1> DEFINE s == NewSource(name, url)
<1>1. \E id, n : s = [id |-> id, name |-> n, url |-> url, links |-> {}]
  BY Zenon DEF NewSource
<1> HIDE DEF s
<1>2. IsSource(s) /\ s.links = {}
  BY <1>1 DEF IsSource
<1>3. IsLocal(WithSources(NoLocal, {s})) /\ WithSources(NoLocal, {s}).source = {s}
  BY <1>2, NoLocalIsLocal, SourceChanged
<1> QED BY <1>2, <1>3 DEF s, WithSourceOf, WithSources

LEMMA BeginKeeps ==
  ASSUME StoresInv, NEW c \in Procs, NEW cmd, NEW label \in Labels \ {"save"},
         NEW l, IsLocal(l), Ready(label, cmd, l), Begin(c, cmd, label, l)
  PROVE  StoresInv'
<1>1. Processes' /\ Only(c)
  BY BeginStep DEF StoresInv
<1>2. Files'
  BY <1>1, FilesKept DEF StoresInv, Begin, Running, At
<1>3. Bounds'
  BY StoresAssumption DEF StoresInv, Bounds, Begin, World
<1>4. IsHistory'
  BY DEF StoresInv, IsHistory, Begin
<1> QED BY <1>1, <1>2, <1>3, <1>4 DEF StoresInv

LEMMA AddsKeeps ==
  ASSUME StoresInv, NEW c \in Procs, NEW ps, Good(ps, Sources \ {"subscription"}),
         Adds(c, ps)
  PROVE  StoresInv'
<1> DEFINE l == [NoLocal EXCEPT !.given = ps]
           label == IF ps = <<>> THEN "refused" ELSE "addProfiles"
<1>1. IsLocal(l) /\ l.given = ps
  <2>1. Good(ps, Sources)
    BY DEF Good
  <2> QED BY <2>1, ListGiven
<1> HIDE DEF l
<1>2. Ready(label, [name |-> "add"], l) /\ label \in Labels \ {"save"}
  BY <1>1 DEF Ready, Labels, Requesting, Changing
<1> HIDE DEF label
<1> QED BY <1>1, <1>2, BeginKeeps DEF Adds, l, label

\* Whatever it is given, `profile add` and the imports add no profile of a
\* subscription.
LEMMA AddsGiven ==
  ASSUME StoresInv, NEW c \in Procs, ProfileAdd(c) \/ ProfileImport(c) \/ LocalImport(c)
  PROVE  \E ps : Good(ps, Sources \ {"subscription"}) /\ Adds(c, ps)
<1>1. ASSUME NEW ps, NEW source \in Sources \ {"subscription"}, Good(ps, {source})
      PROVE  Good(ps, Sources \ {"subscription"})
  BY <1>1 DEF Good
<1>2. {"manual", "imported_uri", "imported_file"} \subseteq Sources \ {"subscription"}
  BY DEF Sources
<1>3. CASE ProfileAdd(c)
  <2>1. PICK m : Adds(c, OnlyValid(NewManual(m.name, m.server, m.port, m.protocol)))
    BY <1>3 DEF ProfileAdd
  <2> QED BY <1>1, <1>2, <2>1, ManualIsGood
<1>4. CASE ProfileImport(c)
  <2>1. PICK link \in World.links : Adds(c, ImportShareURI(link))
    BY <1>4 DEF ProfileImport
  <2>2. IsLink(link)
    BY <2>1, ContentsAssumption DEF StoresInv, Bounds, World
  <2> QED BY <1>1, <1>2, <2>1, <2>2, ImportIsGood
<1>5. CASE LocalImport(c)
  <2>1. PICK content \in World.local : Adds(c, ImportLocalContent(content).profiles)
    BY <1>5 DEF LocalImport
  <2>2. IsContent(content)
    BY <2>1, ContentsAssumption DEF StoresInv, Bounds, World
  <2>3. Good(ImportLocalContent(content).profiles, {"imported_file"})
    BY <2>2, LocalContentIsGood DEF GoodParse
  <2> QED BY <1>1, <1>2, <2>1, <2>3
<1> QED BY <1>3, <1>4, <1>5

LEMMA ProfileCommands ==
  ASSUME StoresInv, NEW c \in Procs,
         ProfileAdd(c) \/ ProfileImport(c) \/ LocalImport(c) \/ ProfileDelete(c)
  PROVE  StoresInv'
<1>1. CASE ProfileAdd(c) \/ ProfileImport(c) \/ LocalImport(c)
  BY <1>1, AddsGiven, AddsKeeps
<1>4. CASE ProfileDelete(c)
  <2>1. PICK id : Begin(c, [name |-> "profile delete", id |-> id], "deleteProfile", NoLocal)
    BY <1>4 DEF ProfileDelete
  <2>2. Ready("deleteProfile", [name |-> "profile delete", id |-> id], NoLocal)
    BY DEF Ready, Requesting, Changing
  <2> QED BY <2>1, <2>2, NoLocalIsLocal, BeginKeeps DEF Labels
<1> QED BY <1>1, <1>4

LEMMA SubscriptionCommands ==
  ASSUME StoresInv, NEW c \in Procs,
         \/ SubscriptionAdd(c) \/ SubscriptionImport(c)
         \/ SubscriptionUpdate(c) \/ SubscriptionDelete(c)
  PROVE  StoresInv'
<1>1. CASE SubscriptionAdd(c)
  <2>1. PICK name, url :
          Begin(c, [name |-> "subscribe"], "addSource", WithSourceOf(NewSource(name, url)))
    BY <1>1 DEF SubscriptionAdd
  <2> DEFINE s == NewSource(name, url)
             l == WithSourceOf(s)
  <2>2. s.links = {} /\ l.source = {s} /\ IsLocal(l)
    BY SourceGiven
  <2> HIDE DEF s, l
  <2>3. Ready("addSource", [name |-> "subscribe"], l)
    BY <2>2 DEF Ready, Requesting, Changing
  <2> QED BY <2>1, <2>2, <2>3, BeginKeeps DEF Labels, l, s
<1>2. CASE SubscriptionImport(c)
  <2>1. PICK name, url :
          Begin(c, [name |-> "import"], "prepare", WithSourceOf(NewSource(name, url)))
    BY <1>2 DEF SubscriptionImport
  <2> DEFINE s == NewSource(name, url)
             l == WithSourceOf(s)
  <2>2. s.links = {} /\ l.source = {s} /\ IsLocal(l)
    BY SourceGiven
  <2> HIDE DEF s, l
  <2>3. Ready("prepare", [name |-> "import"], l)
    BY <2>2 DEF Ready, Requesting, Changing
  <2> QED BY <2>1, <2>2, <2>3, BeginKeeps DEF Labels, l, s
<1>3. CASE SubscriptionUpdate(c)
  <2>1. PICK id : Begin(c, [name |-> "update", id |-> id], "getSource", NoLocal)
    BY <1>3 DEF SubscriptionUpdate
  <2>2. Ready("getSource", [name |-> "update", id |-> id], NoLocal)
    BY DEF Ready, Requesting, Changing
  <2> QED BY <2>1, <2>2, NoLocalIsLocal, BeginKeeps DEF Labels
<1>4. CASE SubscriptionDelete(c)
  <2>1. PICK id \in Named(files.sources.data), keep \in BOOLEAN :
          Begin(c, [name |-> "delete", id |-> id, keep |-> keep], "getSource", NoLocal)
    BY <1>4 DEF SubscriptionDelete
  <2>2. Ready("getSource", [name |-> "delete", id |-> id, keep |-> keep], NoLocal)
    BY DEF Ready, Requesting, Changing
  <2> QED BY <2>1, <2>2, NoLocalIsLocal, BeginKeeps DEF Labels
<1> QED BY <1>1, <1>2, <1>3, <1>4

-----------------------------------------------------------------------------
(* The steps of a command that write no store.                             *)

LEMMA ReadyNow ==
  ASSUME StoresInv, NEW c \in Procs
  PROVE  IsLocal(Loc(c)) /\ Ready(cli[c].pc, Cmd(c), Loc(c))
BY DEF StoresInv, Processes, IsProcess, Loc, Cmd

LEMMA StoreLoads ==
  ASSUME StoresInv
  PROVE  /\ Loadable("profiles", files.profiles.data)
         /\ Loadable("sources", files.sources.data)
BY FilesLoad DEF StoresInv

LEMMA ReturnKeeps ==
  ASSUME StoresInv, NEW c \in Procs, ~At(c, "rewrite"),
         NEW result \in {"idle", "ok", "failed"}, Return(c, result),
         UNCHANGED <<world, files, history>>, Fault \/ UNCHANGED budget
  PROVE  StoresInv'
<1>1. Processes' /\ Only(c)
  BY ReturnStep DEF StoresInv
<1> QED BY <1>1, OtherStep DEF StoresInv, IsHistory

LEMMA GotoKeeps ==
  ASSUME StoresInv, NEW c \in Procs, ~At(c, "rewrite"),
         NEW label \in Labels \ {"save"}, Ready(label, Cmd(c), Loc(c)), Goto(c, label),
         UNCHANGED <<world, files, history>>, Fault \/ UNCHANGED budget
  PROVE  StoresInv'
<1>1. Processes' /\ Only(c)
  BY GotoStep DEF StoresInv
<1> QED BY <1>1, OtherStep DEF StoresInv, IsHistory

LEMMA RollbackKeeps ==
  ASSUME StoresInv, NEW c \in Procs, ~At(c, "rewrite"),
         NEW undo \in SUBSET Taken(Loc(c)), Rollback(c, undo),
         UNCHANGED <<world, files, history>>, Fault \/ UNCHANGED budget
  PROVE  StoresInv'
<1>1. Processes' /\ Only(c)
  BY RollbackStep DEF StoresInv
<1> QED BY <1>1, OtherStep DEF StoresInv, IsHistory

LEMMA WillSaveKeeps ==
  ASSUME StoresInv, NEW c \in Procs, ~At(c, "rewrite"),
         NEW f \in Stores, NEW next, Loadable(f, next),
         NEW after \in {"ok", "snapshot", "updateSource", "deleteSource"},
         NEW undo \in SUBSET Taken(Loc(c)), Ready(after, Cmd(c), Loc(c)),
         Leads(after, Cmd(c), f, undo), WillSave(c, f, next, after, undo),
         UNCHANGED <<world, files, history>>, Fault \/ UNCHANGED budget
  PROVE  StoresInv'
<1>1. Processes' /\ Only(c)
  BY WillSaveStep DEF StoresInv
<1> QED BY <1>1, OtherStep DEF StoresInv, IsHistory

LEMMA ReadyOk ==
  ASSUME NEW cmd, NEW l, NEW f, NEW undo
  PROVE  Ready("ok", cmd, l) /\ Leads("ok", cmd, f, undo)
BY DEF Ready, Requesting, Changing, Leads

LEMMA ProfileSteps ==
  ASSUME StoresInv, NEW c \in Procs, Refused(c) \/ AddProfiles(c) \/ DeleteProfile(c)
  PROVE  StoresInv'
<1>1. CASE Refused(c)
  BY <1>1, ReturnKeeps DEF Refused, At
<1>2. CASE AddProfiles(c)
  <2> DEFINE given == Loc(c).given
             added == {given[i] : i \in DOMAIN given}
  <2>1. CASE Return(c, "failed")
    BY <1>2, <2>1, ReturnKeeps DEF AddProfiles, At
  <2>2. CASE /\ \A p \in added : Valid(p)
             /\ NewToStore(given)
             /\ WillSave(c, "profiles", files.profiles.data \cup added, "ok", {})
    <3>1. Loadable("profiles", added)
      BY <2>2, ReadyNow, ListLoads DEF IsLocal, NewToStore
    <3>2. \A p \in files.profiles.data, q \in added : p.id # q.id
      BY <2>2 DEF NewToStore, Ids, Named
    <3>3. Loadable("profiles", files.profiles.data \cup added)
      BY <3>1, <3>2, StoreLoads, UnionLoads
    <3> HIDE DEF added
    <3> QED BY <1>2, <2>2, <3>3, ReadyOk, WillSaveKeeps DEF AddProfiles, At, Stores
  <2> QED BY <1>2, <2>1, <2>2 DEF AddProfiles
<1>3. CASE DeleteProfile(c)
  <2>1. CASE Return(c, "failed")
    BY <1>3, <2>1, ReturnKeeps DEF DeleteProfile, At
  <2>2. CASE WillSave(c, "profiles", Without(files.profiles.data, {Cmd(c).id}), "ok", {})
    <3>1. Loadable("profiles", Without(files.profiles.data, {Cmd(c).id}))
      BY StoreLoads, PartLoads DEF Without
    <3> QED BY <1>3, <2>2, <3>1, ReadyOk, WillSaveKeeps DEF DeleteProfile, At, Stores
  <2> QED BY <1>3, <2>1, <2>2 DEF DeleteProfile
<1> QED BY <1>1, <1>2, <1>3

\* What a command reads: its source, or what the server has sent.
LEMMA GetSourceKeeps ==
  ASSUME StoresInv, NEW c \in Procs, GetSource(c)
  PROVE  StoresInv'
<1> DEFINE found == {s \in files.sources.data : s.id = Cmd(c).id}
           next  == IF Cmd(c).name = "update" THEN "prepare"
                    ELSE IF Cmd(c).keep THEN "deleteSource" ELSE "checkStores"
           l == WithSources(Loc(c), found)
<1>1. CASE Return(c, "failed")
  BY <1>1, ReturnKeeps DEF GetSource, At
<1>2. CASE Set(c, next, l) /\ found # {}
  <2>1. IsLocal(Loc(c)) /\ Ready("getSource", Cmd(c), Loc(c))
    BY ReadyNow DEF GetSource, At
  <2>2. (\A r, s \in found : r = s) /\ (\A s \in found : IsSource(s))
    BY StoreLoads, UniqueMeansInjective DEF Loadable, IsValid
  <2>3. IsLocal(l) /\ l.source = found
    BY <2>1, <2>2, SourceChanged
  <2> HIDE DEF l
  <2>4. Ready(next, Cmd(c), l) /\ next \in Labels \ {"save"}
    BY <1>2, <2>1, <2>3 DEF Ready, Labels, Requesting, Changing
  <2> HIDE DEF next
  <2>5. Processes' /\ Only(c)
    BY <1>2, <2>3, <2>4, SetStep DEF StoresInv, l
  <2> QED BY <2>5, OtherStep DEF GetSource, At, StoresInv, IsHistory
<1> QED BY <1>1, <1>2 DEF GetSource, WithSources

\* What a fetch leads to: what the server has sent is a list of profiles, and
\* the source may have another name.
LEMMA TheSource ==
  ASSUME NEW c, Loc(c).source # {}, \A r, s \in Loc(c).source : r = s
  PROVE  Source(c) \in Loc(c).source /\ Loc(c).source = {Source(c)}
BY DEF Source

FetchReads == {[of |-> "sources", file |-> files.sources]}
LEMMA FetchMakes ==
  ASSUME StoresInv, NEW c \in Procs, Fetch(c), ~Return(c, "failed")
  PROVE  \E ps, s :
           /\ Good(ps, {"subscription"}) /\ NamesApart(ps)
           /\ s = Source(c) \/ \E name : s = [Source(c) EXCEPT !.name = name]
           /\ Set(c, IF Cmd(c).name = "import" THEN "addSource" ELSE "snapshot",
                  Fetched(Loc(c), ps, {s}, FetchReads))
<1> DEFINE urls == {Source(c).url} \cap DOMAIN World.feeds
<1>1. PICK content \in UNION {World.feeds[u] : u \in urls} :
        Set(c, IF Cmd(c).name = "import" THEN "addSource" ELSE "snapshot",
            Fetched(Loc(c), ParseSubscriptionContent(content).profiles,
                    {RefreshProviderDisplayName(Source(c), ProviderSourceName(content))},
                    FetchReads))
  BY Zenon DEF Fetch, Fetched, FetchReads
<1>2. IsContent(content)
  BY <1>1, ContentsAssumption DEF StoresInv, Bounds, World
<1>3. /\ Good(ParseSubscriptionContent(content).profiles, {"subscription"})
      /\ NamesApart(ParseSubscriptionContent(content).profiles)
  BY <1>2, SubscriptionIsGood DEF GoodParse
<1> DEFINE s == RefreshProviderDisplayName(Source(c), ProviderSourceName(content))
<1>4. s = Source(c) \/ \E name : s = [Source(c) EXCEPT !.name = name]
  BY Zenon DEF RefreshProviderDisplayName
<1> HIDE DEF s
<1> QED BY <1>1, <1>3, <1>4, Zenon DEF s

LEMMA RenamedSource ==
  ASSUME NEW s, IsSource(s), NEW r, r = s \/ \E name : r = [s EXCEPT !.name = name]
  PROVE  IsSource(r) /\ r.id = s.id /\ r.url = s.url /\ r.links = s.links
<1>1. CASE r = s
  BY <1>1
<1>2. ASSUME NEW name, r = [s EXCEPT !.name = name]
      PROVE  r = [id |-> s.id, name |-> name, url |-> s.url, links |-> s.links]
  BY <1>2 DEF IsSource
<1>3. ASSUME NEW name, r = [id |-> s.id, name |-> name, url |-> s.url, links |-> s.links]
      PROVE  IsSource(r) /\ r.id = s.id /\ r.url = s.url /\ r.links = s.links
  BY <1>3 DEF IsSource
<1> QED BY <1>1, <1>2, <1>3

LEMMA FetchKeeps ==
  ASSUME StoresInv, NEW c \in Procs, Fetch(c)
  PROVE  StoresInv'
<1>1. /\ At(c, "prepare") \/ At(c, "fetch")
      /\ UNCHANGED <<world, files, clientID, budget, history>>
  BY DEF Fetch
<1>2. CASE Return(c, "failed")
  BY <1>1, <1>2, ReturnKeeps DEF At
<1>3. CASE ~Return(c, "failed")
  <2> DEFINE next == IF Cmd(c).name = "import" THEN "addSource" ELSE "snapshot"
  <2>1. PICK ps, s : /\ Good(ps, {"subscription"}) /\ NamesApart(ps)
                     /\ s = Source(c) \/ \E name : s = [Source(c) EXCEPT !.name = name]
                     /\ Set(c, next, Fetched(Loc(c), ps, {s}, FetchReads))
    BY <1>3, FetchMakes
  <2>2. IsLocal(Loc(c)) /\ (Ready("prepare", Cmd(c), Loc(c)) \/ Ready("fetch", Cmd(c), Loc(c)))
    BY <1>1, ReadyNow DEF At
  <2>3. /\ Source(c) \in Loc(c).source /\ IsSource(Source(c))
        /\ Cmd(c).name \in {"import", "update"}
        /\ Cmd(c).name = "import" => Source(c).links = {}
    BY <2>2, TheSource DEF Ready, IsLocal, Requesting
  <2>4. IsSource(s) /\ s.links = Source(c).links
    BY <2>1, <2>3, RenamedSource
  <2> DEFINE l == Fetched(Loc(c), ps, {s}, FetchReads)
  <2>5. /\ l.given = ps /\ l.source = {s} /\ l.snapshot = FetchReads
        /\ l = [target |-> l.target, next |-> l.next, after |-> l.after, undo |-> l.undo,
                given |-> l.given, source |-> l.source, snapshot |-> l.snapshot]
    BY <2>2, FetchedFields
  <2> HIDE DEF l
  <2>6. IsLocal(l)
    <3>1. \A r \in FetchReads : r.of \in Stores /\ IsFile(r.of, r.file)
      BY DEF StoresInv, Files, Stores, FetchReads
    <3>2. Good(l.given, Sources)
      BY <2>1, <2>5 DEF Good, Sources
    <3> QED BY <2>4, <2>5, <3>1, <3>2 DEF IsLocal
  <2>7. "sources" \in Taken(l)
    BY <2>5 DEF Taken, FetchReads
  <2>8. Ready(next, Cmd(c), l) /\ next \in Labels \ {"save"}
    BY <2>1, <2>3, <2>4, <2>5, <2>7 DEF Ready, Labels, Requesting, Changing
  <2> HIDE DEF next
  <2>9. Processes' /\ Only(c)
    BY <2>1, <2>6, <2>8, SetStep DEF StoresInv, l
  <2> QED BY <1>1, <2>9, OtherStep DEF At, StoresInv, IsHistory
<1> QED BY <1>2, <1>3

LEMMA TakeSnapshotKeeps ==
  ASSUME StoresInv, NEW c \in Procs, TakeSnapshot(c)
  PROVE  StoresInv'
<1> DEFINE next == IF Cmd(c).name = "delete" THEN "dropProfiles" ELSE "replace"
           both == Loc(c).snapshot \cup {[of |-> "profiles", file |-> files.profiles]}
           l == WithSnapshot(Loc(c), both)
           undo == IF Cmd(c).name = "import" THEN {"sources"} ELSE {}
<1>1. IsLocal(Loc(c)) /\ Ready("snapshot", Cmd(c), Loc(c))
  BY ReadyNow DEF TakeSnapshot, At
<1>2. CASE Set(c, next, l) /\ UNCHANGED budget
  <2>1. \A s \in both : s.of \in Stores /\ IsFile(s.of, s.file)
    BY <1>1 DEF IsLocal, StoresInv, Files, Stores
  <2>2. /\ IsLocal(l) /\ l.snapshot = both /\ l.source = Loc(c).source
        /\ l.given = Loc(c).given
    BY <1>1, <2>1, SnapshotChanged
  <2>3. Taken(Loc(c)) \subseteq Taken(l) /\ "profiles" \in Taken(l)
    BY <2>2 DEF Taken
  <2> HIDE DEF l
  <2>4. Ready(next, Cmd(c), l) /\ next \in Labels \ {"save"}
    BY <1>1, <2>2, <2>3 DEF Ready, Requesting, Changing, Labels, Stores
  <2> HIDE DEF next
  <2>5. Processes' /\ Only(c)
    BY <1>2, <2>2, <2>4, SetStep DEF StoresInv
  <2> QED BY <1>2, <2>5, OtherStep DEF TakeSnapshot, At, StoresInv, IsHistory
<1>3. CASE Fault /\ Rollback(c, undo)
  <2>1. undo \in SUBSET Taken(Loc(c))
    BY <1>1 DEF Ready
  <2> HIDE DEF undo
  <2> QED BY <1>3, <2>1, RollbackKeeps DEF TakeSnapshot, At
<1> QED BY <1>2, <1>3 DEF TakeSnapshot, WithSnapshot

\* What a command decides to write to subscriptions.json.
LEMMA SourceLoads ==
  ASSUME NEW S, Loadable("sources", S), NEW s, ValidSource(s), IsSource(s),
         s.id \notin Named(S)
  PROVE  Loadable("sources", S \cup {s})
<1>1. Loadable("sources", {s})
  BY OneLoads DEF IsValid
<1> QED BY <1>1, UnionLoads DEF Named

LEMMA AddSourceKeeps ==
  ASSUME StoresInv, NEW c \in Procs, AddSource(c)
  PROVE  StoresInv'
<1> DEFINE s == Source(c)
           after == IF Cmd(c).name = "import" THEN "snapshot" ELSE "ok"
<1>1. CASE Return(c, "failed")
  BY <1>1, ReturnKeeps DEF AddSource, At
<1>2. CASE /\ ValidSource(s) /\ s.id \notin Named(files.sources.data)
           /\ WillSave(c, "sources", files.sources.data \cup {s}, after, {})
  <2>0. IsSource(s)
    BY ReadyNow, TheSource DEF AddSource, At, Ready, Requesting, Changing, IsLocal
  <2>1. Loadable("sources", files.sources.data \cup {s})
    BY <1>2, <2>0, StoreLoads, SourceLoads
  <2>2. Ready(after, Cmd(c), Loc(c)) /\ Leads(after, Cmd(c), "sources", {})
    BY ReadyNow DEF AddSource, At, Ready, Requesting, Changing, Leads
  <2> HIDE DEF s
  <2>3. after \in {"ok", "snapshot", "updateSource", "deleteSource"}
    OBVIOUS
  <2> HIDE DEF after
  <2> QED BY <1>2, <2>1, <2>2, <2>3, WillSaveKeeps DEF AddSource, At, Stores
<1> QED BY <1>1, <1>2 DEF AddSource

LEMMA LinkedSource ==
  ASSUME NEW s, IsSource(s), NEW links
  PROVE  LET r == [s EXCEPT !.links = links]
         IN  IsSource(r) /\ r.id = s.id /\ r.links = links
<1> DEFINE r == [s EXCEPT !.links = links]
<1>1. r = [id |-> s.id, name |-> s.name, url |-> s.url, links |-> links]
  BY DEF IsSource
<1> HIDE DEF r
<1>2. IsSource(r) /\ r.id = s.id /\ r.links = links
  BY <1>1 DEF IsSource
<1> QED BY <1>2 DEF r

LEMMA UpdateSourceKeeps ==
  ASSUME StoresInv, NEW c \in Procs, UpdateSource(c)
  PROVE  StoresInv'
<1> DEFINE s == [Source(c) EXCEPT !.links = Ids(Loc(c).given)]
           rest == Without(files.sources.data, {s.id})
<1>1. Ready("updateSource", Cmd(c), Loc(c))
  BY ReadyNow DEF UpdateSource, At
<1>2. Stores \in SUBSET Taken(Loc(c))
  BY <1>1 DEF Ready
<1>3. CASE Rollback(c, Stores)
  BY <1>2, <1>3, RollbackKeeps DEF UpdateSource, At
<1>4. CASE ValidSource(s) /\ WillSave(c, "sources", rest \cup {s}, "ok", Stores)
  <2>0. IsSource(s)
    <3>1. IsSource(Source(c))
      BY ReadyNow, TheSource DEF UpdateSource, At, Ready, Requesting, Changing, IsLocal
    <3> QED BY <3>1, LinkedSource
  <2> HIDE DEF s
  <2>1. Loadable("sources", rest)
    BY StoreLoads, PartLoads DEF Without
  <2>2. s.id \notin Named(rest)
    BY DEF Without, Named
  <2>3. Loadable("sources", rest \cup {s})
    BY <1>4, <2>0, <2>1, <2>2, SourceLoads
  <2> HIDE DEF rest
  <2> QED BY <1>2, <1>4, <2>3, ReadyOk, WillSaveKeeps DEF UpdateSource, At, Stores
<1> QED BY <1>3, <1>4 DEF UpdateSource

LEMMA DeleteSourceKeeps ==
  ASSUME StoresInv, NEW c \in Procs, DeleteSource(c)
  PROVE  StoresInv'
<1> DEFINE undo == IF Cmd(c).keep THEN {} ELSE {"profiles"}
           rest == Without(files.sources.data, {Source(c).id})
<1>1. undo \in SUBSET Taken(Loc(c))
  BY ReadyNow DEF DeleteSource, At, Ready
<1>2. CASE Rollback(c, undo)
  <2> HIDE DEF undo
  <2> QED BY <1>1, <1>2, RollbackKeeps DEF DeleteSource, At
<1>3. CASE WillSave(c, "sources", rest, "ok", undo)
  <2>1. Loadable("sources", rest)
    BY StoreLoads, PartLoads DEF Without
  <2> HIDE DEF undo, rest
  <2> QED BY <1>1, <1>3, <2>1, ReadyOk, WillSaveKeeps DEF DeleteSource, At, Stores
<1> QED BY <1>2, <1>3 DEF DeleteSource

\* ... and to profiles.json.
LEMMA ReplaceKeeps ==
  ASSUME StoresInv, NEW c \in Procs, ReplaceSubscriptionProfiles(c)
  PROVE  StoresInv'
<1> DEFINE given == Loc(c).given
           added == {given[i] : i \in DOMAIN given}
           rest  == Without(files.profiles.data, Owned(c))
           undo  == IF Cmd(c).name = "import" THEN Stores ELSE {"profiles"}
<1>1. Ready("replace", Cmd(c), Loc(c)) /\ IsLocal(Loc(c))
  BY ReadyNow DEF ReplaceSubscriptionProfiles, At
<1>2. undo \in SUBSET Taken(Loc(c))
  BY <1>1 DEF Ready, Stores
<1>3. CASE Rollback(c, undo)
  <2> HIDE DEF undo
  <2> QED BY <1>2, <1>3, RollbackKeeps DEF ReplaceSubscriptionProfiles, At
<1>4. CASE /\ Distinct(given) /\ ~Collides(c)
           /\ \A i \in DOMAIN given : Valid(given[i])
           /\ WillSave(c, "profiles", rest \cup added, "updateSource", undo)
  <2>1. Loadable("profiles", added)
    BY <1>1, <1>4, ListLoads DEF IsLocal
  <2>2. Loadable("profiles", rest)
    BY StoreLoads, PartLoads DEF Without
  <2>3. \A p \in rest, q \in added : p.id # q.id
    BY <1>4 DEF Collides, Ids, Named, Without
  <2>4. Loadable("profiles", rest \cup added)
    <3> HIDE DEF rest, added
    <3> QED BY <2>1, <2>2, <2>3, UnionLoads
  <2>5. /\ Ready("updateSource", Cmd(c), Loc(c))
        /\ Leads("updateSource", Cmd(c), "profiles", undo)
    BY <1>1 DEF Ready, Requesting, Changing, Leads
  <2> HIDE DEF undo, rest, added
  <2> QED BY <1>2, <1>4, <2>4, <2>5, WillSaveKeeps
         DEF ReplaceSubscriptionProfiles, At, Stores
<1> QED BY <1>3, <1>4 DEF ReplaceSubscriptionProfiles

LEMMA DeletionKeeps ==
  ASSUME StoresInv, NEW c \in Procs, CheckStores(c) \/ DeleteSubscriptionProfiles(c)
  PROVE  StoresInv'
<1>1. CASE CheckStores(c)
  <2>1. CASE Return(c, "failed")
    BY <1>1, <2>1, ReturnKeeps DEF CheckStores, At
  <2>2. CASE Goto(c, "snapshot")
    <3>1. Ready("snapshot", Cmd(c), Loc(c))
      BY <1>1, ReadyNow DEF CheckStores, At, Ready, Requesting, Changing
    <3> QED BY <1>1, <2>2, <3>1, GotoKeeps DEF CheckStores, At, Labels
  <2> QED BY <1>1, <2>1, <2>2 DEF CheckStores
<1>2. CASE DeleteSubscriptionProfiles(c)
  <2> DEFINE left == files.profiles.data \ OwnedBy(Source(c))
  <2>1. /\ Ready("deleteSource", Cmd(c), Loc(c))
        /\ Leads("deleteSource", Cmd(c), "profiles", {})
    BY <1>2, ReadyNow DEF DeleteSubscriptionProfiles, At, Ready, Requesting, Changing, Leads
  <2>2. CASE Return(c, "failed")
    BY <1>2, <2>2, ReturnKeeps DEF DeleteSubscriptionProfiles, At
  <2>3. CASE Goto(c, "deleteSource")
    BY <1>2, <2>1, <2>3, GotoKeeps DEF DeleteSubscriptionProfiles, At, Labels
  <2>4. CASE WillSave(c, "profiles", left, "deleteSource", {})
    <3>1. Loadable("profiles", left)
      BY StoreLoads, PartLoads
    <3> HIDE DEF left
    <3> QED BY <1>2, <2>1, <2>4, <3>1, WillSaveKeeps
           DEF DeleteSubscriptionProfiles, At, Stores
  <2> QED BY <1>2, <2>2, <2>3, <2>4 DEF DeleteSubscriptionProfiles
<1> QED BY <1>1, <1>2

\* The client id: none of its steps touches a store.
ClientIDStep(c) ==
  \/ ReadClientID(c) \/ RetryClientID(c) \/ CreateClientID(c)
  \/ WriteClientID(c) \/ SyncClientID(c)

LEMMA ClientIDKeeps ==
  ASSUME StoresInv, NEW c \in Procs, ClientIDStep(c)
  PROVE  StoresInv'
<1>1. /\ cli[c].pc \in {"prepare", "retryID", "createID", "writeID", "syncID"}
      /\ UNCHANGED <<world, files>> /\ (Fault \/ UNCHANGED budget)
      /\ IsHistory' /\ history'.unrestored = history.unrestored
  BY DEF ClientIDStep, ReadClientID, RetryClientID, CreateClientID, WriteClientID,
         SyncClientID, Requests, UseClientID, At, StoresInv, IsHistory
<1>2. \/ Return(c, "failed")
      \/ \E label \in {"fetch", "retryID", "createID", "writeID", "syncID"} : Goto(c, label)
  BY DEF ClientIDStep, ReadClientID, RetryClientID, CreateClientID, WriteClientID,
         SyncClientID, UseClientID
<1>3. Processes' /\ Only(c)
  <2>1. CASE Return(c, "failed")
    BY <2>1, ReturnStep DEF StoresInv
  <2>2. ASSUME NEW label \in {"fetch", "retryID", "createID", "writeID", "syncID"},
               Goto(c, label)
        PROVE  Processes' /\ Only(c)
    <3>1. Ready(label, Cmd(c), Loc(c)) /\ label \in Labels \ {"save"}
      BY <1>1, ReadyNow DEF Ready, Requesting, Changing, Labels
    <3> QED BY <2>2, <3>1, GotoStep DEF StoresInv
  <2> QED BY <1>2, <2>1, <2>2
<1> QED BY <1>1, <1>3, OtherStep DEF At

-----------------------------------------------------------------------------
(* The steps that write a store or put one back.                           *)

LEMMA ContinueStep ==
  ASSUME StoresInv, NEW c \in Procs, At(c, "save"), Continue(c)
  PROVE  Processes' /\ Only(c)
<1>1. MaySave(Cmd(c), Loc(c))
  BY DEF StoresInv, Processes, IsProcess, At, Loc, Cmd
<1>2. CASE Return(c, "ok")
  BY <1>2, ReturnStep DEF StoresInv
<1>3. CASE Loc(c).after # "ok" /\ Goto(c, Loc(c).after)
  BY <1>1, <1>3, GotoStep DEF StoresInv, MaySave, Labels
<1> QED BY <1>2, <1>3 DEF Continue

\* Whoever puts a store back goes on with that, unless it is this process.
LEMMA PutBackKept ==
  ASSUME NEW c \in Procs, Only(c), NEW f, IsPutBack(f),
         ~(At(c, "rewrite") /\ Undoing(c) = f)
  PROVE  IsPutBack(f)'
<1>1. PICK d \in Procs : At(d, "rewrite") /\ Undoing(d) = f
  BY DEF IsPutBack
<1>2. d # c
  BY <1>1
<1> QED BY <1>1, <1>2 DEF IsPutBack, Only, At, Undoing, Loc

LEMMA SaveKeeps ==
  ASSUME StoresInv, NEW c \in Procs, Save(c)
  PROVE  StoresInv'
<1> DEFINE f == Loc(c).target
<1>1. MaySave(Cmd(c), Loc(c))
  BY DEF StoresInv, Processes, IsProcess, Save, At, Loc, Cmd
<1>2. /\ f \in Stores /\ Loc(c).undo \in SUBSET Taken(Loc(c))
      /\ IsFile(f, Holds(Loc(c).next)) /\ Holds(Loc(c).next).state = "ok"
  BY <1>1, HeldIsFile DEF MaySave, Holds
<1>3. Processes' /\ Only(c)
  <2>1. CASE Continue(c)
    BY <2>1, ContinueStep DEF Save
  <2>2. CASE Rollback(c, Loc(c).undo)
    BY <1>2, <2>2, RollbackStep DEF StoresInv
  <2> QED BY <2>1, <2>2 DEF Save
<1>4. /\ IsHistory' /\ history'.unrestored = history.unrestored
      /\ UNCHANGED world /\ (Fault \/ UNCHANGED budget)
  BY DEF Save, Saved, StoresInv, IsHistory
<1>5. Files'
  <2>1. \A g \in Stores : IsPutBack(g) => IsPutBack(g)'
    BY <1>3, PutBackKept DEF Save, At
  <2>2. files' = files \/ files' = [files EXCEPT ![f] = Holds(Loc(c).next)]
    BY DEF Save
  <2> HIDE DEF f
  <2> QED BY <1>2, <1>4, <2>1, <2>2 DEF StoresInv, Files
<1>6. Bounds'
  BY <1>4, BoundsKept DEF StoresInv
<1> QED BY <1>3, <1>4, <1>5, <1>6 DEF StoresInv

\* What is put back was read from a store, at a time when it may have been torn.
LEMMA UndoingTaken ==
  ASSUME StoresInv, NEW c \in Procs, At(c, "restore") \/ At(c, "rewrite")
  PROVE  /\ Undoing(c) \in Stores
         /\ IsFile(Undoing(c), Snapshot(c, Undoing(c)))
<1>1. IsLocal(Loc(c)) /\ Loc(c).undo # {} /\ Loc(c).undo \subseteq Taken(Loc(c))
  BY ReadyNow DEF At, Ready
<1>2. Undoing(c) \in Loc(c).undo /\ Undoing(c) \in Stores
  BY <1>1 DEF Undoing, IsLocal, Taken, Stores
<1>3. PICK s \in Loc(c).snapshot : s.of = Undoing(c)
  BY <1>1, <1>2 DEF Taken
<1>4. \E r \in Loc(c).snapshot : r.of = Undoing(c) /\ Snapshot(c, Undoing(c)) = r.file
  BY <1>3 DEF Snapshot
<1> QED BY <1>1, <1>2, <1>4 DEF IsLocal

\* A process that puts f back has done so, or has gone on to put back the rest.
LEMMA UndoneStep ==
  ASSUME StoresInv, NEW c \in Procs, At(c, "restore") \/ At(c, "rewrite"), Undone(c)
  PROVE  Processes' /\ Only(c)
<1>1. Loc(c).undo \ {Undoing(c)} \in SUBSET Taken(Loc(c))
  BY ReadyNow DEF At, Ready
<1> QED BY <1>1, RollbackStep DEF Undone, StoresInv

LEMMA RestoreKeeps ==
  ASSUME StoresInv, NEW c \in Procs, Restore(c)
  PROVE  StoresInv'
<1>1. PICK f \in Stores : f = Undoing(c)
  BY UndoingTaken DEF Restore
<1>2. /\ IsHistory' /\ (history.unrestored => history'.unrestored)
      /\ UNCHANGED world /\ (Fault \/ UNCHANGED budget)
  BY DEF Restore, StoresInv, IsHistory
<1>3. CASE Goto(c, "rewrite") /\ files' = [files EXCEPT ![f] = Torn]
  <2>1. Ready("rewrite", Cmd(c), Loc(c))
    BY ReadyNow DEF Restore, At, Ready, Requesting, Changing
  <2>2. Processes' /\ Only(c)
    BY <1>3, <2>1, GotoStep DEF StoresInv, Labels
  <2>3. cli'[c].pc = "rewrite" /\ cli'[c].loc = cli[c].loc
    BY <1>3 DEF Goto, Set, Loc, StoresInv, Processes, IsProcess
  <2>4. IsPutBack(f)'
    BY <1>1, <2>3 DEF IsPutBack, At, Undoing, Loc
  <2>5. \A g \in Stores : IsPutBack(g) => IsPutBack(g)'
    BY <2>2, PutBackKept DEF Restore, At
  <2>6. Files'
    <3>1. IsFile(f, Torn)
      BY <1>1, EmptyFiles
    <3>2. /\ DOMAIN files = Stores
          /\ \A g \in Stores :
               /\ IsFile(g, files[g])
               /\ files[g].state = "torn" => history.unrestored \/ IsPutBack(g)
      BY DEF StoresInv, Files
    <3>3. /\ DOMAIN files' = Stores /\ files'[f] = Torn
          /\ \A g \in Stores \ {f} : files'[g] = files[g]
      BY <1>1, <1>3, <3>2
    <3>4. ASSUME NEW g \in Stores
          PROVE  IsFile(g, files'[g])
      BY <3>1, <3>2, <3>3
    <3>5. ASSUME NEW g \in Stores, files'[g].state = "torn"
          PROVE  history'.unrestored \/ IsPutBack(g)'
      BY <1>2, <2>4, <2>5, <3>2, <3>3, <3>5
    <3> QED BY <3>3, <3>4, <3>5 DEF Files
  <2> QED BY <1>2, <2>2, <2>6, BoundsKept DEF StoresInv
<1>4. CASE /\ Undone(c)
           /\ files' = files \/ files' = [files EXCEPT ![f] = NoFile]
  <2>1. Processes' /\ Only(c)
    BY <1>4, UndoneStep DEF Restore
  <2>2. \A g \in Stores : IsPutBack(g) => IsPutBack(g)'
    BY <2>1, PutBackKept DEF Restore, At
  <2>3. Files'
    <3>1. IsFile(f, NoFile) /\ NoFile.state # "torn"
      BY <1>1, EmptyFiles DEF NoFile
    <3>2. /\ DOMAIN files = Stores
          /\ \A g \in Stores :
               /\ IsFile(g, files[g])
               /\ files[g].state = "torn" => history.unrestored \/ IsPutBack(g)
      BY DEF StoresInv, Files
    <3>3. /\ DOMAIN files' = Stores /\ files'[f] \in {files[f], NoFile}
          /\ \A g \in Stores \ {f} : files'[g] = files[g]
      BY <1>1, <1>4, <3>2
    <3>4. ASSUME NEW g \in Stores
          PROVE  IsFile(g, files'[g])
      BY <3>1, <3>2, <3>3
    <3>5. ASSUME NEW g \in Stores, files'[g].state = "torn"
          PROVE  history'.unrestored \/ IsPutBack(g)'
      BY <1>2, <2>2, <3>1, <3>2, <3>3, <3>5
    <3> QED BY <3>3, <3>4, <3>5 DEF Files
  <2> QED BY <1>2, <2>1, <2>3, BoundsKept DEF StoresInv
<1> QED BY <1>1, <1>3, <1>4 DEF Restore

LEMMA RewriteKeeps ==
  ASSUME StoresInv, NEW c \in Procs, Rewrite(c)
  PROVE  StoresInv'
<1> DEFINE f == Undoing(c)
           s == Snapshot(c, f)
<1>1. f \in Stores /\ IsFile(f, s)
  BY UndoingTaken DEF Rewrite
<1>2. /\ IsHistory' /\ (history.unrestored => history'.unrestored)
      /\ UNCHANGED world /\ (Fault \/ UNCHANGED budget)
  BY DEF Rewrite, StoresInv, IsHistory
<1>3. Processes' /\ Only(c)
  BY UndoneStep DEF Rewrite
<1>4. \A g \in Stores : g # f /\ IsPutBack(g) => IsPutBack(g)'
  BY <1>3, PutBackKept
<1>5. Files'
  <2>1. CASE files' = [files EXCEPT ![f] = s] /\ s.state # "torn"
    <3> HIDE DEF f, s
    <3> QED BY <1>1, <1>2, <1>4, <2>1 DEF StoresInv, Files
  <2>2. CASE files' = [files EXCEPT ![f] = s] /\ s.state = "torn"
    <3>1. s = Torn
      <4>1. s = [state |-> s.state, data |-> s.data] /\ s.data = {}
        BY <1>1, <2>2 DEF IsFile
      <4> QED BY <2>2, <4>1 DEF Torn
    <3>2. history'.unrestored
      BY <2>2, <3>1 DEF Rewrite, StoresInv, IsHistory, Torn
    <3> HIDE DEF f, s
    <3> QED BY <1>1, <2>2, <3>2 DEF StoresInv, Files
  <2>3. CASE files' = files /\ history'.unrestored
    BY <2>3 DEF StoresInv, Files
  <2> QED BY <2>1, <2>2, <2>3, <1>1 DEF Rewrite, StoresInv, IsHistory, IsFile
<1> QED BY <1>2, <1>3, <1>5, BoundsKept DEF StoresInv

LEMMA CrashKeeps ==
  ASSUME StoresInv, NEW c \in Procs, Crash(c)
  PROVE  StoresInv'
<1>1. Processes' /\ Only(c)
  BY ReturnStep DEF Crash, StoresInv
<1>2. /\ IsHistory' /\ (history.unrestored => history'.unrestored)
      /\ At(c, "rewrite") => history'.unrestored
  BY DEF Crash, StoresInv, IsHistory
<1>3. \A f \in Stores : IsPutBack(f) => history'.unrestored \/ IsPutBack(f)'
  BY <1>1, <1>2, PutBackKept
<1>4. Files'
  BY <1>2, <1>3 DEF Crash, StoresInv, Files
<1>5. Bounds'
  BY BoundsKept DEF Crash, StoresInv
<1> QED BY <1>1, <1>2, <1>4, <1>5 DEF StoresInv

-----------------------------------------------------------------------------
(* The invariant, and what follows from it.                                *)

LEMMA StoresInit == Init => StoresInv
<1> SUFFICES ASSUME Init PROVE StoresInv
  OBVIOUS
<1>1. IsProcess(Idle) /\ Idle.pc = "idle"
  <2>1. /\ Idle = [pc |-> "idle", cmd |-> NoCommand, loc |-> NoLocal, before |-> {}]
        /\ Ready("idle", NoCommand, NoLocal)
    BY DEF Idle, Ready, Requesting, Changing
  <2> QED BY <2>1, NoLocalIsLocal DEF IsProcess, Labels
<1>2. Processes
  BY <1>1 DEF Init, Processes
<1>3. Files
  BY EmptyFiles DEF Init, Files, NoFile
<1>4. Bounds
  BY StoresAssumption DEF Init, Bounds, World
<1>5. IsHistory
  BY DEF Init, IsHistory
<1> QED BY <1>2, <1>3, <1>4, <1>5 DEF StoresInv

LEMMA StoresStep == StoresInv /\ [Next]_vars => StoresInv'
<1> SUFFICES ASSUME StoresInv, [Next]_vars PROVE StoresInv'
  OBVIOUS
<1>1. CASE UNCHANGED vars
  BY <1>1 DEF vars, StoresInv, Processes, Files, IsPutBack, At, Undoing, Loc, Bounds,
              World, IsHistory
<1>2. ASSUME NEW c \in Procs,
             \/ ProfileAdd(c) \/ ProfileImport(c) \/ LocalImport(c) \/ ProfileDelete(c)
             \/ Refused(c) \/ AddProfiles(c) \/ DeleteProfile(c)
      PROVE  StoresInv'
  BY <1>2, ProfileCommands, ProfileSteps
<1>3. ASSUME NEW c \in Procs,
             \/ SubscriptionAdd(c) \/ SubscriptionImport(c) \/ SubscriptionUpdate(c)
             \/ SubscriptionDelete(c) \/ GetSource(c) \/ Fetch(c) \/ TakeSnapshot(c)
      PROVE  StoresInv'
  BY <1>3, SubscriptionCommands, GetSourceKeeps, FetchKeeps, TakeSnapshotKeeps
<1>4. ASSUME NEW c \in Procs,
             \/ AddSource(c) \/ ReplaceSubscriptionProfiles(c) \/ UpdateSource(c)
             \/ CheckStores(c) \/ DeleteSubscriptionProfiles(c) \/ DeleteSource(c)
      PROVE  StoresInv'
  BY <1>4, AddSourceKeeps, ReplaceKeeps, UpdateSourceKeeps, DeletionKeeps,
     DeleteSourceKeeps
<1>5. ASSUME NEW c \in Procs,
             \/ Save(c) \/ Restore(c) \/ Rewrite(c) \/ Crash(c) \/ ClientIDStep(c)
      PROVE  StoresInv'
  BY <1>5, SaveKeeps, RestoreKeeps, RewriteKeeps, CrashKeeps, ClientIDKeeps
<1> QED BY <1>1, <1>2, <1>3, <1>4, <1>5 DEF Next, ClientIDStep

\* The invariant that the others are read off: what is in the files, what every
\* process has read and what it may do next.
THEOREM StoresInvAlways == Spec => []StoresInv
BY StoresInit, StoresStep, PTL DEF Spec

\* Both stores can be loaded in every state, but while one is put back and after
\* that was interrupted: a save replaces a whole file by one that loads
\* (storejson.WriteAtomic), for any number of processes that overlap, and
\* whatever fails.
THEOREM StoresReadableAlways == Spec => []StoresReadable
<1>1. StoresInv => StoresReadable
  BY FilesLoad DEF StoresInv, Files, IsPutBack, StoresReadable, Stores
<1> QED BY <1>1, StoresInvAlways, PTL

-----------------------------------------------------------------------------
(* The client id.  A file that is there keeps the id that requests carry;  *)
(* it is empty from its creation to the write of the one who created it.   *)

IsClientID ==
  /\ clientID = [state |-> clientID.state, id |-> clientID.id]
  /\ clientID.state \in {"absent", "empty", "ok"}
  /\ DOMAIN cli = Procs /\ IsHistory
  /\ history.unsynced \/
       /\ history.ids \subseteq (IF clientID.state = "ok" THEN {clientID.id} ELSE {})
       /\ \A c \in Procs : /\ At(c, "writeID") => clientID.state = "empty"
                           /\ At(c, "syncID") => clientID.state = "ok"
       /\ \A c, d \in Procs : At(c, "writeID") /\ At(d, "writeID") => c = d

\* A step that leaves the file alone, by a process that does not go on to write it.
LEMMA IDKept ==
  ASSUME IsClientID, NEW c \in Procs, DOMAIN cli' = Procs, Only(c), IsHistory',
         UNCHANGED clientID, ~At(c, "writeID")', ~At(c, "syncID")',
         history.unsynced => history'.unsynced, history'.ids = history.ids
  PROVE  IsClientID'
<1>1. \A d \in Procs, label \in {"writeID", "syncID"} : At(d, label)' => At(d, label)
  BY DEF At, Only
<1> QED BY <1>1 DEF IsClientID

LEMMA SetGoes ==
  ASSUME Processes, NEW c \in Procs, NEW label, NEW l, Set(c, label, l)
  PROVE  DOMAIN cli' = Procs /\ Only(c) /\ cli'[c].pc = label
<1>1. /\ DOMAIN cli' = Procs /\ Only(c)
      /\ cli'[c] = [pc |-> label, cmd |-> cli[c].cmd, loc |-> l,
                    before |-> cli[c].before]
  BY SetMakes
<1> QED BY <1>1

LEMMA ReturnGoes ==
  ASSUME Processes, NEW c \in Procs, NEW result, Return(c, result)
  PROVE  DOMAIN cli' = Procs /\ Only(c) /\ cli'[c].pc = result
<1>1. [Idle EXCEPT !.pc = result].pc = result
  BY DEF Idle
<1> QED BY <1>1 DEF Return, Only, Processes

\* Where a process is after a step that leaves the client id alone.
Elsewhere(c) ==
  /\ DOMAIN cli' = Procs /\ Only(c)
  /\ cli'[c].pc \notin {"writeID", "syncID"}

LEMMA RollbackGoes ==
  ASSUME Processes, NEW c \in Procs, NEW undo, Rollback(c, undo)
  PROVE  Elsewhere(c)
BY SetGoes, ReturnGoes DEF Rollback, Elsewhere

\* ... and what is known of the client id then.
IDUntouched ==
  /\ UNCHANGED clientID
  /\ history.unsynced => history'.unsynced
  /\ history'.ids = history.ids

LEMMA BeginGoes ==
  ASSUME Processes, IsHistory, NEW c \in Procs, NEW cmd,
         NEW label, label \notin {"writeID", "syncID"}, NEW l, Begin(c, cmd, label, l)
  PROVE  Elsewhere(c) /\ IDUntouched
BY DEF Begin, Elsewhere, IDUntouched, Only, Processes, IsHistory

LEMMA CommandsGo ==
  ASSUME Processes, IsHistory, NEW c \in Procs,
         \/ ProfileAdd(c) \/ ProfileImport(c) \/ LocalImport(c) \/ ProfileDelete(c)
         \/ SubscriptionAdd(c) \/ SubscriptionImport(c) \/ SubscriptionUpdate(c)
         \/ SubscriptionDelete(c)
  PROVE  Elsewhere(c) /\ IDUntouched
<1>1. CASE ProfileAdd(c) \/ ProfileImport(c) \/ LocalImport(c)
  <2>1. PICK ps : Adds(c, ps)
    BY <1>1 DEF ProfileAdd, ProfileImport, LocalImport
  <2> QED BY <2>1, BeginGoes DEF Adds
<1>2. CASE ProfileDelete(c)
  BY <1>2, BeginGoes DEF ProfileDelete
<1>3. CASE SubscriptionAdd(c) \/ SubscriptionImport(c)
  BY <1>3, BeginGoes DEF SubscriptionAdd, SubscriptionImport
<1>4. CASE SubscriptionUpdate(c) \/ SubscriptionDelete(c)
  BY <1>4, BeginGoes DEF SubscriptionUpdate, SubscriptionDelete
<1> QED BY <1>1, <1>2, <1>3, <1>4

LEMMA StepsGo ==
  ASSUME Processes, NEW c \in Procs,
         \/ Refused(c) \/ AddProfiles(c) \/ DeleteProfile(c) \/ GetSource(c) \/ Fetch(c)
         \/ TakeSnapshot(c) \/ AddSource(c) \/ ReplaceSubscriptionProfiles(c)
         \/ UpdateSource(c) \/ CheckStores(c) \/ DeleteSubscriptionProfiles(c)
         \/ DeleteSource(c)
  PROVE  Elsewhere(c) /\ IDUntouched
<1>1. UNCHANGED <<clientID, history>> => IDUntouched
  BY DEF IDUntouched
<1>2. CASE Refused(c) \/ AddProfiles(c) \/ DeleteProfile(c)
  BY <1>1, <1>2, SetGoes, ReturnGoes
     DEF Refused, AddProfiles, DeleteProfile, WillSave, Elsewhere
<1>3. CASE GetSource(c)
  BY <1>1, <1>3, SetGoes, ReturnGoes DEF GetSource, Elsewhere
<1>4. CASE Fetch(c)
  <2>1. CASE Return(c, "failed")
    <3>1. IDUntouched
      BY <1>1, <1>4 DEF Fetch
    <3> QED BY <2>1, <3>1, ReturnGoes DEF Elsewhere
  <2>2. CASE ~Return(c, "failed")
    <3>1. PICK label \in {"addSource", "snapshot"} : \E l : Set(c, label, l)
      <4> DEFINE label == IF Cmd(c).name = "import" THEN "addSource" ELSE "snapshot"
      <4>1. \E l : Set(c, label, l)
        BY <1>4, <2>2 DEF Fetch
      <4>2. label \in {"addSource", "snapshot"}
        OBVIOUS
      <4> HIDE DEF label
      <4> QED BY <4>1, <4>2
    <3> QED BY <1>1, <1>4, <3>1, SetGoes DEF Fetch, Elsewhere
  <2> QED BY <2>1, <2>2
<1>5. CASE TakeSnapshot(c)
  BY <1>1, <1>5, SetGoes, RollbackGoes DEF TakeSnapshot, Elsewhere
<1>6. CASE AddSource(c) \/ UpdateSource(c) \/ DeleteSource(c)
  BY <1>1, <1>6, SetGoes, ReturnGoes, RollbackGoes
     DEF AddSource, UpdateSource, DeleteSource, WillSave, Elsewhere
<1>7. CASE ReplaceSubscriptionProfiles(c)
  BY <1>1, <1>7, SetGoes, RollbackGoes DEF ReplaceSubscriptionProfiles, WillSave, Elsewhere
<1>8. CASE CheckStores(c) \/ DeleteSubscriptionProfiles(c)
  BY <1>1, <1>8, SetGoes, ReturnGoes
     DEF CheckStores, DeleteSubscriptionProfiles, Goto, WillSave, Elsewhere
<1> QED BY <1>2, <1>3, <1>4, <1>5, <1>6, <1>7, <1>8

LEMMA WritesGo ==
  ASSUME StoresInv, NEW c \in Procs, Save(c) \/ Restore(c) \/ Rewrite(c) \/ Crash(c)
  PROVE  Elsewhere(c) /\ IDUntouched
<1>1. Processes /\ IsHistory
  BY DEF StoresInv
<1>2. CASE Save(c)
  <2>1. MaySave(Cmd(c), Loc(c))
    BY <1>2 DEF StoresInv, Processes, IsProcess, Save, At, Loc, Cmd
  <2>2. Continue(c) \/ Rollback(c, Loc(c).undo)
    BY <1>2 DEF Save
  <2>3. Elsewhere(c)
    BY <1>1, <2>1, <2>2, SetGoes, ReturnGoes, RollbackGoes
       DEF Continue, Goto, MaySave, Elsewhere
  <2> QED BY <1>1, <1>2, <2>3 DEF Save, Saved, IDUntouched, IsHistory
<1>3. CASE Restore(c)
  <2>1. Elsewhere(c)
    BY <1>1, <1>3, SetGoes, RollbackGoes DEF Restore, Undone, Goto, Elsewhere
  <2> QED BY <1>1, <1>3, <2>1 DEF Restore, IDUntouched, IsHistory
<1>4. CASE Rewrite(c)
  <2>1. Elsewhere(c)
    BY <1>1, <1>4, RollbackGoes DEF Rewrite, Undone
  <2> QED BY <1>1, <1>4, <2>1 DEF Rewrite, IDUntouched, IsHistory
<1>5. CASE Crash(c)
  <2>1. Elsewhere(c)
    BY <1>1, <1>5, ReturnGoes DEF Crash, Elsewhere
  <2> QED BY <1>1, <1>5, <2>1 DEF Crash, IDUntouched, IsHistory
<1> QED BY <1>2, <1>3, <1>4, <1>5

LEMMA ClientIDSteps ==
  ASSUME StoresInv, IsClientID, IsHistory', NEW c \in Procs, ClientIDStep(c)
  PROVE  IsClientID'
<1>1. Processes
  BY DEF StoresInv
<1>2. CASE ReadClientID(c) \/ RetryClientID(c)
  <2>1. CASE UseClientID(c) /\ clientID.state = "ok"
    <3>1. Elsewhere(c)
      BY <1>1, <2>1, SetGoes DEF UseClientID, Goto, Elsewhere
    <3> QED BY <1>2, <2>1, <3>1 DEF ReadClientID, RetryClientID, UseClientID, IsClientID,
               IsHistory, Elsewhere, Only, At
  <2>2. CASE /\ UNCHANGED history
             /\ Return(c, "failed") \/ Goto(c, "retryID") \/ Goto(c, "createID")
    <3>1. Elsewhere(c)
      BY <1>1, <2>2, SetGoes, ReturnGoes DEF Goto, Elsewhere
    <3> QED BY <1>2, <2>2, <3>1, IDKept DEF ReadClientID, RetryClientID, Elsewhere, At
  <2> QED BY <1>2, <2>1, <2>2 DEF ReadClientID, RetryClientID
<1>3. CASE CreateClientID(c)
  <2>1. CASE Goto(c, "writeID") /\ clientID.state = "absent" /\ clientID' = NewFile
    <3>1. DOMAIN cli' = Procs /\ Only(c) /\ cli'[c].pc = "writeID"
      BY <1>1, <2>1, SetGoes DEF Goto
    <3> QED BY <1>3, <2>1, <3>1 DEF CreateClientID, NewFile, IsClientID, Only, At, IsHistory
  <2>2. CASE UNCHANGED clientID /\ (Return(c, "failed") \/ Goto(c, "retryID"))
    <3>1. Elsewhere(c)
      BY <1>1, <2>2, SetGoes, ReturnGoes DEF Goto, Elsewhere
    <3> QED BY <1>3, <2>2, <3>1, IDKept DEF CreateClientID, Elsewhere, At
  <2> QED BY <1>3, <2>1, <2>2 DEF CreateClientID
<1>4. CASE WriteClientID(c)
  <2>1. CASE Goto(c, "syncID") /\ clientID' = [state |-> "ok", id |-> <<c, budget.commands>>]
    <3>1. DOMAIN cli' = Procs /\ Only(c) /\ cli'[c].pc = "syncID"
      BY <1>1, <2>1, SetGoes DEF Goto
    <3> QED BY <1>4, <2>1, <3>1 DEF WriteClientID, IsClientID, Only, At, IsHistory
  <2>2. CASE Return(c, "failed") /\ clientID' = NoClientID
    <3>1. DOMAIN cli' = Procs /\ Only(c) /\ cli'[c].pc = "failed"
      BY <1>1, <2>2, ReturnGoes
    <3> QED BY <1>4, <2>2, <3>1 DEF WriteClientID, NoClientID, IsClientID, Only, At, IsHistory
  <2> QED BY <1>4, <2>1, <2>2 DEF WriteClientID
<1>5. CASE SyncClientID(c)
  <2>1. CASE UseClientID(c) /\ UNCHANGED clientID
    <3>1. Elsewhere(c)
      BY <1>1, <2>1, SetGoes DEF UseClientID, Goto, Elsewhere
    <3> QED BY <1>5, <2>1, <3>1 DEF SyncClientID, UseClientID, IsClientID,
               IsHistory, Elsewhere, Only, At
  <2>2. CASE /\ Return(c, "failed") /\ clientID' = NoClientID
             /\ history' = [history EXCEPT !.unsynced = TRUE]
    <3>1. DOMAIN cli' = Procs /\ Only(c)
      BY <1>1, <2>2, ReturnGoes
    <3> QED BY <2>2, <3>1 DEF NoClientID, IsClientID, IsHistory
  <2> QED BY <1>5, <2>1, <2>2 DEF SyncClientID
<1> QED BY <1>2, <1>3, <1>4, <1>5 DEF ClientIDStep

LEMMA ClientIDInvariant == StoresInv /\ StoresInv' /\ IsClientID /\ [Next]_vars => IsClientID'
<1> SUFFICES ASSUME StoresInv, StoresInv', IsClientID, [Next]_vars PROVE IsClientID'
  OBVIOUS
<1>1. IsHistory' /\ IsHistory /\ Processes
  BY DEF StoresInv
<1>2. CASE UNCHANGED vars
  BY <1>2 DEF vars, IsClientID, IsHistory, At
<1>3. ASSUME NEW c \in Procs, Elsewhere(c), IDUntouched
      PROVE  IsClientID'
  BY <1>1, <1>3, IDKept DEF Elsewhere, IDUntouched, At
<1>4. ASSUME NEW c \in Procs,
             \/ ProfileAdd(c) \/ ProfileImport(c) \/ LocalImport(c) \/ ProfileDelete(c)
             \/ SubscriptionAdd(c) \/ SubscriptionImport(c) \/ SubscriptionUpdate(c)
             \/ SubscriptionDelete(c)
      PROVE  IsClientID'
  BY <1>1, <1>3, <1>4, CommandsGo
<1>5. ASSUME NEW c \in Procs,
             \/ Refused(c) \/ AddProfiles(c) \/ DeleteProfile(c) \/ GetSource(c) \/ Fetch(c)
             \/ TakeSnapshot(c) \/ AddSource(c) \/ ReplaceSubscriptionProfiles(c)
             \/ UpdateSource(c) \/ CheckStores(c) \/ DeleteSubscriptionProfiles(c)
             \/ DeleteSource(c)
      PROVE  IsClientID'
  BY <1>1, <1>3, <1>5, StepsGo
<1>6. ASSUME NEW c \in Procs, Save(c) \/ Restore(c) \/ Rewrite(c) \/ Crash(c)
      PROVE  IsClientID'
  BY <1>3, <1>6, WritesGo
<1>7. ASSUME NEW c \in Procs, ClientIDStep(c)
      PROVE  IsClientID'
  BY <1>1, <1>7, ClientIDSteps
<1> QED BY <1>2, <1>4, <1>5, <1>6, <1>7 DEF Next, ClientIDStep

LEMMA ClientIDInit == Init => IsClientID
<1>1. Init => IsHistory
  BY StoresInit DEF StoresInv
<1> QED BY <1>1 DEF Init, IsClientID, NoClientID, Idle, At

LEMMA ClientIDAlways == Spec => []IsClientID
<1>1. Init => StoresInv /\ IsClientID
  BY StoresInit, ClientIDInit
<1>2. StoresInv /\ IsClientID /\ [Next]_vars => (StoresInv /\ IsClientID)'
  BY StoresStep, ClientIDInvariant
<1> QED BY <1>1, <1>2, PTL DEF Spec

\* Servers see one client id, for any number of processes that make requests
\* (LoadOrCreateClientID), as long as no sync of the file fails.
THEOREM OneClientIdAlways == Spec => []OneClientId
<1>1. IsClientID => OneClientId
  <2> SUFFICES ASSUME IsClientID, ~history.unsynced PROVE Cardinality(history.ids) <= 1
    BY DEF OneClientId
  <2>1. history.ids \in SUBSET {clientID.id}
    BY DEF IsClientID
  <2>2. IsFiniteSet({clientID.id}) /\ Cardinality({clientID.id}) = 1
    BY FS_Singleton
  <2>3. Cardinality(history.ids) <= Cardinality({clientID.id})
    BY <2>1, <2>2, FS_Subset
  <2> QED BY <2>2, <2>3
<1> QED BY <1>1, ClientIDAlways, PTL

\* Every process is at a step of its command, and has read what it puts back
\* before it wrote anything over it.
THEOREM TypesAlways == Spec => []TypeOK
<1>1. StoresInv /\ IsClientID => TypeOK
  <2> SUFFICES ASSUME StoresInv, IsClientID PROVE TypeOK
    OBVIOUS
  <2>1. ASSUME NEW c \in Procs
        PROVE  /\ At(c, "save") => Loc(c).target \in Stores
               /\ cli[c].pc \in Labels
               /\ cli[c].pc \in {"save", "restore", "rewrite"} =>
                    Loc(c).undo \subseteq {s.of : s \in Loc(c).snapshot}
    BY DEF StoresInv, Processes, IsProcess, MaySave, Ready, Taken, Loc, At
  <2>2. ASSUME NEW c \in Procs
        PROVE  Cardinality(Loc(c).source) <= 1
    <3>1. \A r, s \in Loc(c).source : r = s
      BY ReadyNow DEF IsLocal
    <3>2. Loc(c).source = {} \/ \E s : Loc(c).source = {s}
      BY <3>1
    <3>3. \/ Cardinality(Loc(c).source) = 0 \/ Cardinality(Loc(c).source) = 1
      BY <3>2, FS_EmptySet, FS_Singleton
    <3> QED BY <3>3
  <2> QED BY <2>1, <2>2 DEF TypeOK, StoresInv, Files, IsFile, Bounds, IsClientID
<1> QED BY <1>1, StoresInvAlways, ClientIDAlways, PTL

-----------------------------------------------------------------------------
(* A command that fails alone changes nothing.  While one command runs, the *)
(* stores are as it has found them, except those it may have written by    *)
(* then, and what it has read is what it has found.                        *)

Dirty(label, cmd, l) ==
  CASE label \in {"save", "restore", "rewrite"} -> l.undo
    [] label \in {"snapshot", "replace"} ->
         IF cmd.name = "import" THEN {"sources"} ELSE {}
    [] label = "updateSource" ->
         IF cmd.name = "import" THEN Stores ELSE {"profiles"}
    [] label = "deleteSource" -> IF cmd.keep THEN {} ELSE {"profiles"}
    [] OTHER -> {}
Now(c) == Dirty(cli[c].pc, Cmd(c), Loc(c))

Found(c, f0) ==
  /\ cli[c].before = {f0} /\ f0 = [f \in Stores |-> f0[f]]
  /\ \A f \in Stores \ Now(c) : files[f] = f0[f]
  /\ \A s \in Loc(c).snapshot : s.file = f0[s.of]
Tracks(c) == \E f0 \in cli[c].before : Found(c, f0)

OneRuns == \A c, d \in Procs : Running(c) /\ Running(d) => c = d
Sound == ~history.unsynced /\ ~history.unrestored
IsFunction == files = [f \in Stores |-> files[f]]
UndoInv ==
  /\ IsFunction
  /\ history.alone => /\ OneRuns
                      /\ Sound => \A c \in Procs : Running(c) => Tracks(c)

\* What a step of a command that runs alone leads to.
Honest(c) ==
  \/ Running(c)' /\ Tracks(c)'
  \/ cli'[c].pc \in {"ok", "idle"}
  \/ cli'[c].pc = "failed" /\ cli[c].before = {files'}

LEMMA HonestSet ==
  ASSUME Processes, NEW c \in Procs, NEW f0, Found(c, f0), NEW label, NEW l,
         Set(c, label, l), label \notin {"idle", "ok", "failed"},
         \A f \in Stores \ Dirty(label, Cmd(c), l) : files'[f] = f0[f],
         \A s \in l.snapshot : s.file = f0[s.of]
  PROVE  Honest(c)
<1>1. cli'[c] = [pc |-> label, cmd |-> cli[c].cmd, loc |-> l, before |-> cli[c].before]
  BY SetMakes
<1>2. /\ cli'[c].pc = label /\ cli'[c].cmd = cli[c].cmd /\ cli'[c].loc = l
      /\ cli'[c].before = cli[c].before
  BY <1>1
<1>3. Now(c)' = Dirty(label, Cmd(c), l)
  BY <1>2 DEF Now, Cmd, Loc
<1>4. Found(c, f0)'
  BY <1>2, <1>3 DEF Found, Loc
<1>5. f0 \in cli'[c].before
  BY <1>2 DEF Found
<1>6. Tracks(c)'
  BY <1>4, <1>5 DEF Tracks
<1>7. Running(c)'
  BY <1>2 DEF Running
<1> QED BY <1>6, <1>7 DEF Honest

LEMMA HonestReturn ==
  ASSUME Processes, NEW c \in Procs, NEW f0, Found(c, f0), Return(c, "failed"),
         IsFunction', \A f \in Stores : files'[f] = f0[f]
  PROVE  Honest(c)
<1>1. cli'[c].pc = "failed"
  BY ReturnGoes
<1>2. files' = f0
  BY DEF IsFunction, Found
<1> QED BY <1>1, <1>2 DEF Honest, Found

LEMMA UndoFields ==
  ASSUME NEW l, IsLocal(l), NEW undo
  PROVE  /\ [l EXCEPT !.undo = undo].undo = undo
         /\ [l EXCEPT !.undo = undo].snapshot = l.snapshot
BY DEF IsLocal

LEMMA HonestRollback ==
  ASSUME StoresInv, NEW c \in Procs, NEW f0, Found(c, f0), NEW undo, Rollback(c, undo),
         IsFunction', \A f \in Stores \ undo : files'[f] = f0[f]
  PROVE  Honest(c)
<1>1. Processes
  BY DEF StoresInv
<1>2. CASE undo = {}
  BY <1>1, <1>2, HonestReturn DEF Rollback
<1>3. CASE undo # {}
  <2> DEFINE l == [Loc(c) EXCEPT !.undo = undo]
  <2>1. l.undo = undo /\ l.snapshot = Loc(c).snapshot
    BY ReadyNow, UndoFields
  <2>2. Set(c, "restore", l)
    BY <1>3 DEF Rollback
  <2> HIDE DEF l
  <2>3. Dirty("restore", Cmd(c), l) = undo
    BY <2>1 DEF Dirty
  <2> QED BY <1>1, <2>1, <2>2, <2>3, HonestSet DEF Found
<1> QED BY <1>2, <1>3

LEMMA HonestWillSave ==
  ASSUME StoresInv, NEW c \in Procs, NEW f0, Found(c, f0), NEW f, NEW next, NEW after,
         NEW undo, WillSave(c, f, next, after, undo),
         UNCHANGED files, Now(c) \subseteq undo
  PROVE  Honest(c)
<1> DEFINE l == Filled(Loc(c), f, next, after, undo)
<1>1. Processes
  BY DEF StoresInv
<1>2. l.undo = undo /\ l.snapshot = Loc(c).snapshot
  <2>1. IsLocal(Loc(c))
    BY ReadyNow
  <2>2. Loc(c) = [target |-> Loc(c).target, next |-> Loc(c).next,
                  after |-> Loc(c).after, undo |-> Loc(c).undo,
                  given |-> Loc(c).given, source |-> Loc(c).source,
                  snapshot |-> Loc(c).snapshot]
    BY <2>1 DEF IsLocal
  <2>3. l = [target |-> f, next |-> next, after |-> after, undo |-> undo,
             given |-> Loc(c).given, source |-> Loc(c).source,
             snapshot |-> Loc(c).snapshot]
    BY <2>2, SaveFields
  <2> HIDE DEF l
  <2> QED BY <2>3
<1>3. Set(c, "save", l)
  BY DEF WillSave, Filled
<1> HIDE DEF l
<1>4. Dirty("save", Cmd(c), l) = undo
  BY <1>2 DEF Dirty
<1> QED BY <1>1, <1>2, <1>3, <1>4, HonestSet DEF Found

\* Steps before anything is written.
LEMMA CleanReturn ==
  ASSUME StoresInv, NEW c \in Procs, NEW f0, Found(c, f0), Now(c) = {},
         UNCHANGED files, IsFunction', Return(c, "failed")
  PROVE  Honest(c)
BY HonestReturn DEF Found, StoresInv

LEMMA CleanSet ==
  ASSUME StoresInv, NEW c \in Procs, NEW f0, Found(c, f0), Now(c) = {},
         UNCHANGED files, NEW label, NEW l, Set(c, label, l),
         label \notin {"idle", "ok", "failed"},
         \A s \in l.snapshot : \/ s \in Loc(c).snapshot
                               \/ s.of \in Stores /\ s.file = files[s.of]
  PROVE  Honest(c)
<1>1. \A f \in Stores : files[f] = f0[f]
  BY DEF Found
<1>2. \A s \in l.snapshot : s.file = f0[s.of]
  BY <1>1 DEF Found
<1> QED BY <1>1, <1>2, HonestSet DEF StoresInv

LEMMA CleanGoto ==
  ASSUME StoresInv, NEW c \in Procs, NEW f0, Found(c, f0), Now(c) = {},
         UNCHANGED files, NEW label, label \notin {"idle", "ok", "failed"}, Goto(c, label)
  PROVE  Honest(c)
BY CleanSet DEF Goto

LEMMA HonestBefore ==
  ASSUME StoresInv, NEW c \in Procs, NEW f0, Found(c, f0), IsFunction',
         \/ Refused(c) \/ AddProfiles(c) \/ DeleteProfile(c) \/ AddSource(c)
         \/ CheckStores(c) \/ DeleteSubscriptionProfiles(c) \/ ClientIDStep(c)
  PROVE  Honest(c)
<1>1. UNCHANGED files /\ Now(c) = {}
  BY DEF Refused, AddProfiles, DeleteProfile, AddSource, CheckStores,
         DeleteSubscriptionProfiles, ClientIDStep, ReadClientID, RetryClientID,
         CreateClientID, WriteClientID, SyncClientID, Requests, Now, Dirty, At
<1>2. CASE Refused(c) \/ AddProfiles(c) \/ DeleteProfile(c) \/ AddSource(c)
  BY <1>1, <1>2, CleanReturn, HonestWillSave
     DEF Refused, AddProfiles, DeleteProfile, AddSource
<1>3. CASE CheckStores(c) \/ DeleteSubscriptionProfiles(c)
  BY <1>1, <1>3, CleanReturn, HonestWillSave, CleanGoto
     DEF CheckStores, DeleteSubscriptionProfiles
<1>4. CASE ClientIDStep(c)
  <2>1. \/ Return(c, "failed")
        \/ \E label \in {"fetch", "retryID", "createID", "writeID", "syncID"} : Goto(c, label)
    BY <1>4 DEF ClientIDStep, ReadClientID, RetryClientID, CreateClientID, WriteClientID,
                SyncClientID, UseClientID
  <2>2. CASE Return(c, "failed")
    BY <1>1, <2>2, CleanReturn
  <2>3. ASSUME NEW label \in {"fetch", "retryID", "createID", "writeID", "syncID"},
               Goto(c, label)
        PROVE  Honest(c)
    BY <1>1, <2>3, CleanGoto
  <2> QED BY <2>1, <2>2, <2>3
<1> QED BY <1>2, <1>3, <1>4

LEMMA HonestReads ==
  ASSUME StoresInv, NEW c \in Procs, NEW f0, Found(c, f0), IsFunction',
         GetSource(c) \/ Fetch(c)
  PROVE  Honest(c)
<1>1. UNCHANGED files /\ Now(c) = {} /\ IsLocal(Loc(c))
  BY ReadyNow DEF GetSource, Fetch, Now, Dirty, At
<1>2. CASE Return(c, "failed")
  BY <1>1, <1>2, CleanReturn
<1>3. CASE GetSource(c) /\ ~Return(c, "failed")
  <2> DEFINE found == {s \in files.sources.data : s.id = Cmd(c).id}
             next  == IF Cmd(c).name = "update" THEN "prepare"
                      ELSE IF Cmd(c).keep THEN "deleteSource" ELSE "checkStores"
             l == WithSources(Loc(c), found)
  <2>1. Set(c, next, l)
    BY <1>3 DEF GetSource, WithSources
  <2>2. l.snapshot = Loc(c).snapshot
    BY <1>1 DEF WithSources, IsLocal
  <2>3. next \notin {"idle", "ok", "failed"}
    OBVIOUS
  <2> HIDE DEF next, l
  <2> QED BY <1>1, <2>1, <2>2, <2>3, CleanSet
<1>4. CASE Fetch(c) /\ ~Return(c, "failed")
  <2> DEFINE next == IF Cmd(c).name = "import" THEN "addSource" ELSE "snapshot"
             read == {[of |-> "sources", file |-> files.sources]}
  <2>1. PICK ps, s : Set(c, next, Fetched(Loc(c), ps, {s}, read))
    <3>1. \E ps : \E s : Set(c, next, Fetched(Loc(c), ps, {s}, read))
      BY <1>4 DEF Fetch, Fetched
    <3> QED BY <3>1
  <2> DEFINE l == Fetched(Loc(c), ps, {s}, read)
  <2>2. l.snapshot = read
    BY <1>1, FetchedFields
  <2>3. next \notin {"idle", "ok", "failed"}
    OBVIOUS
  <2>4. \A r \in read : r.of \in Stores /\ r.file = files[r.of]
    BY DEF Stores
  <2> HIDE DEF next, read, l
  <2> QED BY <1>1, <2>1, <2>2, <2>3, <2>4, CleanSet DEF l
<1> QED BY <1>2, <1>3, <1>4

LEMMA HonestSnapshot ==
  ASSUME StoresInv, NEW c \in Procs, NEW f0, Found(c, f0), IsFunction', TakeSnapshot(c)
  PROVE  Honest(c)
<1> DEFINE next == IF Cmd(c).name = "delete" THEN "dropProfiles" ELSE "replace"
           both == Loc(c).snapshot \cup {[of |-> "profiles", file |-> files.profiles]}
           l == WithSnapshot(Loc(c), both)
           undo == IF Cmd(c).name = "import" THEN {"sources"} ELSE {}
<1>1. /\ UNCHANGED files /\ Now(c) = undo /\ IsLocal(Loc(c))
      /\ \A f \in Stores \ undo : files[f] = f0[f]
  BY ReadyNow DEF TakeSnapshot, Now, Dirty, At, Found
<1>2. CASE Rollback(c, undo)
  <2> HIDE DEF undo
  <2> QED BY <1>1, <1>2, HonestRollback
<1>3. CASE Set(c, next, l)
  <2>1. l.snapshot = both
    BY <1>1 DEF WithSnapshot, IsLocal
  <2>2. files.profiles = f0["profiles"]
    BY <1>1 DEF Stores
  <2>3. \A s \in both : s.file = f0[s.of]
    BY <2>2 DEF Found
  <2>4. Dirty(next, Cmd(c), l) = undo
    BY DEF Dirty
  <2>5. next \notin {"idle", "ok", "failed"}
    OBVIOUS
  <2> HIDE DEF next, both, l, undo
  <2> QED BY <1>1, <1>3, <2>1, <2>3, <2>4, <2>5, HonestSet DEF StoresInv
<1> QED BY <1>2, <1>3 DEF TakeSnapshot, WithSnapshot

LEMMA HonestAfter ==
  ASSUME StoresInv, NEW c \in Procs, NEW f0, Found(c, f0), IsFunction',
         ReplaceSubscriptionProfiles(c) \/ UpdateSource(c) \/ DeleteSource(c)
  PROVE  Honest(c)
<1>1. UNCHANGED files
  BY DEF ReplaceSubscriptionProfiles, UpdateSource, DeleteSource
<1>2. ASSUME NEW undo, Now(c) \subseteq undo,
             Rollback(c, undo) \/ \E f, next, after : WillSave(c, f, next, after, undo)
      PROVE  Honest(c)
  <2>1. \A f \in Stores \ undo : files'[f] = f0[f]
    BY <1>1, <1>2 DEF Found
  <2>2. CASE Rollback(c, undo)
    BY <2>1, <2>2, HonestRollback
  <2>3. ASSUME NEW f, NEW next, NEW after, WillSave(c, f, next, after, undo)
        PROVE  Honest(c)
    BY <1>1, <1>2, <2>3, HonestWillSave
  <2> QED BY <1>2, <2>2, <2>3
<1>3. CASE ReplaceSubscriptionProfiles(c)
  <2> DEFINE undo == IF Cmd(c).name = "import" THEN Stores ELSE {"profiles"}
  <2>1. Now(c) \subseteq undo
    BY <1>3, ReadyNow DEF ReplaceSubscriptionProfiles, Now, Dirty, At, Stores
  <2>2. Rollback(c, undo) \/ \E f, next, after : WillSave(c, f, next, after, undo)
    BY <1>3 DEF ReplaceSubscriptionProfiles
  <2> HIDE DEF undo
  <2> QED BY <1>2, <2>1, <2>2
<1>4. CASE UpdateSource(c)
  <2>1. Now(c) \subseteq Stores
    BY <1>4 DEF UpdateSource, Now, Dirty, At, Stores
  <2>2. Rollback(c, Stores) \/ \E f, next, after : WillSave(c, f, next, after, Stores)
    BY <1>4 DEF UpdateSource
  <2> QED BY <1>2, <2>1, <2>2
<1>5. CASE DeleteSource(c)
  <2> DEFINE undo == IF Cmd(c).keep THEN {} ELSE {"profiles"}
  <2>1. Now(c) \subseteq undo
    BY <1>5 DEF DeleteSource, Now, Dirty, At
  <2>2. Rollback(c, undo) \/ \E f, next, after : WillSave(c, f, next, after, undo)
    BY <1>5 DEF DeleteSource
  <2> HIDE DEF undo
  <2> QED BY <1>2, <2>1, <2>2
<1> QED BY <1>3, <1>4, <1>5

LEMMA HonestSave ==
  ASSUME StoresInv, NEW c \in Procs, NEW f0, Found(c, f0), IsFunction, IsFunction',
         Sound', Save(c)
  PROVE  Honest(c)
<1> DEFINE l == Loc(c)
<1>1. MaySave(Cmd(c), l) /\ Processes /\ Now(c) = l.undo
  BY DEF StoresInv, Processes, IsProcess, Save, At, Loc, Cmd, Now, Dirty
<1>2. \A f \in Stores \ l.undo : files[f] = f0[f]
  BY <1>1 DEF Found
<1>3. CASE Rollback(c, l.undo) /\ UNCHANGED files
  BY <1>2, <1>3, HonestRollback
<1>4. CASE Continue(c) /\ files' = [files EXCEPT ![l.target] = Holds(l.next)]
  <2>1. CASE l.after = "ok"
    BY <1>1, <1>4, <2>1, ReturnGoes DEF Continue, Honest
  <2>2. CASE l.after # "ok"
    <3>1. /\ l.after \in {"snapshot", "updateSource", "deleteSource"}
          /\ Leads(l.after, Cmd(c), l.target, l.undo) /\ Ready(l.after, Cmd(c), l)
          /\ l.undo \subseteq Stores
      BY <1>1, <2>2, ReadyNow DEF MaySave, IsLocal, Taken
    <3>2. l.undo \cup {l.target} \subseteq Dirty(l.after, Cmd(c), l)
      BY <3>1 DEF Dirty, Leads, Ready, Stores
    <3>3. \A f \in Stores \ Dirty(l.after, Cmd(c), l) : files'[f] = f0[f]
      BY <1>2, <1>4, <3>2 DEF IsFunction
    <3>4. Set(c, l.after, l)
      BY <1>4, <2>2 DEF Continue, Goto
    <3> HIDE DEF l
    <3> QED BY <1>1, <3>1, <3>3, <3>4, HonestSet DEF Found, l
  <2> QED BY <2>1, <2>2
<1>5. ~history'.unsynced
  BY DEF Sound
<1> QED BY <1>3, <1>4, <1>5 DEF Save, StoresInv, IsHistory, Saved

\* What a command that runs alone puts back is what it has found.
LEMMA PutsBackFound ==
  ASSUME StoresInv, NEW c \in Procs, NEW f0, Found(c, f0), At(c, "restore") \/ At(c, "rewrite")
  PROVE  /\ Now(c) = Loc(c).undo /\ Undoing(c) \in Loc(c).undo
         /\ Snapshot(c, Undoing(c)) = f0[Undoing(c)]
<1> DEFINE f == Undoing(c)
<1>1. Now(c) = Loc(c).undo
  BY DEF Now, Dirty, At
<1>2. /\ IsLocal(Loc(c)) /\ Loc(c).undo # {}
      /\ Loc(c).undo \subseteq Taken(Loc(c))
  BY ReadyNow DEF At, Ready
<1>3. f \in Loc(c).undo
  BY <1>2 DEF Undoing, IsLocal, Taken, Stores
<1>4. \E r \in Loc(c).snapshot : r.of = f
  BY <1>2, <1>3 DEF Taken
<1>5. \E r \in Loc(c).snapshot : r.of = f /\ Snapshot(c, f) = r.file
  BY <1>4 DEF Snapshot
<1> QED BY <1>1, <1>3, <1>5 DEF Found

LEMMA HonestUndo ==
  ASSUME StoresInv, NEW c \in Procs, NEW f0, Found(c, f0), IsFunction, IsFunction',
         Sound', Restore(c) \/ Rewrite(c)
  PROVE  Honest(c)
<1>1. PICK f \in Stores : f = Undoing(c)
  BY UndoingTaken DEF Restore, Rewrite
<1>2. /\ Processes /\ Now(c) = Loc(c).undo /\ f \in Loc(c).undo
      /\ IsFile(f, Snapshot(c, f)) /\ Snapshot(c, f) = f0[f]
      /\ \A g \in Stores \ Loc(c).undo : files[g] = f0[g]
  <2>1. At(c, "restore") \/ At(c, "rewrite")
    BY DEF Restore, Rewrite
  <2> QED BY <1>1, <2>1, PutsBackFound, UndoingTaken DEF Found, StoresInv
<1>3. CASE Undone(c) /\ files' = [files EXCEPT ![f] = f0[f]]
  <2>1. \A g \in Stores \ (Loc(c).undo \ {f}) : files'[g] = f0[g]
    BY <1>2, <1>3 DEF IsFunction
  <2> QED BY <1>1, <1>3, <2>1, HonestRollback DEF Undone
<1>4. CASE Goto(c, "rewrite") /\ files' = [files EXCEPT ![f] = Torn]
  <2>1. Dirty("rewrite", Cmd(c), Loc(c)) = Loc(c).undo
    BY DEF Dirty
  <2>2. \A g \in Stores \ Loc(c).undo : files'[g] = f0[g]
    BY <1>2, <1>4 DEF IsFunction
  <2> QED BY <1>2, <1>4, <2>1, <2>2, HonestSet DEF Goto, Found
<1>5. ~history'.unrestored
  BY DEF Sound
<1>6. CASE Restore(c)
  <2>1. Snapshot(c, f).state = "absent" => f0[f] = NoFile
    BY <1>2 DEF IsFile, NoFile
  <2> QED BY <1>1, <1>2, <1>3, <1>4, <1>5, <1>6, <2>1 DEF Restore, StoresInv, IsHistory
<1>7. CASE Rewrite(c)
  BY <1>1, <1>2, <1>3, <1>5, <1>7 DEF Rewrite, StoresInv, IsHistory
<1> QED BY <1>6, <1>7

\* Commands that begin find the stores as they are, if no other runs.
BeginsNow(c) ==
  \/ ProfileAdd(c) \/ ProfileImport(c) \/ LocalImport(c) \/ ProfileDelete(c)
  \/ SubscriptionAdd(c) \/ SubscriptionImport(c) \/ SubscriptionUpdate(c)
  \/ SubscriptionDelete(c)
GoesOn(c) ==
  \/ Refused(c) \/ AddProfiles(c) \/ DeleteProfile(c) \/ AddSource(c)
  \/ CheckStores(c) \/ DeleteSubscriptionProfiles(c) \/ ClientIDStep(c)
  \/ GetSource(c) \/ Fetch(c) \/ TakeSnapshot(c) \/ ReplaceSubscriptionProfiles(c)
  \/ UpdateSource(c) \/ DeleteSource(c) \/ Save(c) \/ Restore(c) \/ Rewrite(c)
  \/ Crash(c)

LEMMA NextSplit == Next => \E c \in Procs : BeginsNow(c) \/ GoesOn(c)
BY DEF Next, BeginsNow, GoesOn, ClientIDStep

LEMMA FunctionKept == IsFunction /\ [Next]_vars => IsFunction'
<1> SUFFICES ASSUME IsFunction, [Next]_vars PROVE IsFunction'
  OBVIOUS
<1>1. UNCHANGED files \/ \E f, file : files' = [files EXCEPT ![f] = file]
  <2>1. CASE UNCHANGED vars
    BY <2>1 DEF vars
  <2>2. ASSUME NEW c \in Procs, BeginsNow(c)
        PROVE  UNCHANGED files
    BY <2>2 DEF BeginsNow, ProfileAdd, ProfileImport, LocalImport, Adds, ProfileDelete,
                SubscriptionAdd, SubscriptionImport, SubscriptionUpdate,
                SubscriptionDelete, Begin
  <2>3. ASSUME NEW c \in Procs, GoesOn(c), ~Save(c), ~Restore(c), ~Rewrite(c)
        PROVE  UNCHANGED files
    BY <2>3 DEF GoesOn, Refused, AddProfiles, DeleteProfile, AddSource, CheckStores,
                DeleteSubscriptionProfiles, ClientIDStep, ReadClientID, RetryClientID,
                CreateClientID, WriteClientID, SyncClientID, GetSource, Fetch,
                TakeSnapshot, ReplaceSubscriptionProfiles, UpdateSource, DeleteSource,
                Crash
  <2>4. ASSUME NEW c \in Procs, Save(c) \/ Restore(c) \/ Rewrite(c)
        PROVE  UNCHANGED files \/ \E f, file : files' = [files EXCEPT ![f] = file]
    BY <2>4 DEF Save, Restore, Rewrite
  <2> QED BY <2>1, <2>2, <2>3, <2>4, NextSplit
<1> QED BY <1>1 DEF IsFunction

LEMMA GoesOnAlone ==
  ASSUME StoresInv, NEW c \in Procs, GoesOn(c)
  PROVE  /\ Running(c) /\ Only(c)
         /\ history'.alone = history.alone
         /\ Sound' => Sound
<1>1. Processes /\ IsHistory
  BY DEF StoresInv
<1>2. CASE \/ Refused(c) \/ AddProfiles(c) \/ DeleteProfile(c) \/ AddSource(c)
           \/ CheckStores(c) \/ DeleteSubscriptionProfiles(c) \/ GetSource(c)
           \/ Fetch(c) \/ TakeSnapshot(c) \/ ReplaceSubscriptionProfiles(c)
           \/ UpdateSource(c) \/ DeleteSource(c)
  <2>1. UNCHANGED history
    BY <1>2 DEF Refused, AddProfiles, DeleteProfile, AddSource, CheckStores,
                DeleteSubscriptionProfiles, GetSource, Fetch, TakeSnapshot,
                ReplaceSubscriptionProfiles, UpdateSource, DeleteSource
  <2>2. Running(c)
    BY <1>2 DEF Refused, AddProfiles, DeleteProfile, AddSource, CheckStores,
                DeleteSubscriptionProfiles, GetSource, Fetch, TakeSnapshot,
                ReplaceSubscriptionProfiles, UpdateSource, DeleteSource, At, Running
  <2>3. Only(c)
    BY <1>1, <1>2, StepsGo DEF Elsewhere
  <2> QED BY <2>1, <2>2, <2>3 DEF Sound
<1>3. CASE Save(c) \/ Restore(c) \/ Rewrite(c) \/ Crash(c)
  <2>1. Running(c)
    BY <1>3 DEF Save, Restore, Rewrite, Crash, At, Running
  <2>2. Only(c)
    BY <1>3, WritesGo DEF Elsewhere
  <2>3. history'.alone = history.alone /\ (Sound' => Sound)
    BY <1>1, <1>3 DEF Save, Saved, Restore, Rewrite, Crash, Sound, IsHistory
  <2> QED BY <2>1, <2>2, <2>3
<1>4. CASE ClientIDStep(c)
  <2>1. Running(c)
    BY <1>4 DEF ClientIDStep, ReadClientID, RetryClientID, CreateClientID, WriteClientID,
                SyncClientID, Requests, At, Running
  <2>2. Return(c, "failed") \/ \E label : Goto(c, label)
    BY <1>4 DEF ClientIDStep, ReadClientID, RetryClientID, CreateClientID, WriteClientID,
                SyncClientID, UseClientID
  <2>3. Only(c)
    BY <1>1, <2>2, SetGoes, ReturnGoes DEF Goto
  <2>4. history'.alone = history.alone /\ (Sound' => Sound)
    BY <1>1, <1>4 DEF ClientIDStep, ReadClientID, RetryClientID, CreateClientID,
                WriteClientID, SyncClientID, UseClientID, Sound, IsHistory
  <2> QED BY <2>1, <2>3, <2>4
<1> QED BY <1>2, <1>3, <1>4 DEF GoesOn

LEMMA GoesOnHonest ==
  ASSUME StoresInv, NEW c \in Procs, Tracks(c), IsFunction, IsFunction', Sound', GoesOn(c)
  PROVE  Honest(c)
<1>1. PICK f0 : Found(c, f0)
  BY DEF Tracks
<1>2. CASE Crash(c)
  BY <1>2, ReturnGoes DEF Crash, Honest, StoresInv
<1> QED BY <1>1, <1>2, HonestBefore, HonestReads, HonestSnapshot, HonestAfter,
           HonestSave, HonestUndo DEF GoesOn

\* How a command begins.
Starts(c, cmd, label, l) ==
  /\ Begin(c, cmd, label, l) /\ l.snapshot = {}
  /\ label \in {"refused", "addProfiles", "deleteProfile", "addSource", "prepare",
                "getSource"}
  /\ label = "prepare" => cmd.name = "import"

LEMMA CommandStarts ==
  ASSUME NEW c \in Procs, BeginsNow(c)
  PROVE  \E cmd, label, l : Starts(c, cmd, label, l)
<1>1. \A s : WithSourceOf(s).snapshot = {} /\ NoLocal.snapshot = {}
  BY DEF WithSourceOf, NoLocal
<1>2. \A ps : [NoLocal EXCEPT !.given = ps].snapshot = {}
  BY DEF NoLocal
<1>3. CASE ProfileAdd(c) \/ ProfileImport(c) \/ LocalImport(c)
  <2>1. PICK ps : Adds(c, ps)
    BY <1>3 DEF ProfileAdd, ProfileImport, LocalImport
  <2>2. Starts(c, [name |-> "add"], IF ps = <<>> THEN "refused" ELSE "addProfiles",
               [NoLocal EXCEPT !.given = ps])
    BY <1>2, <2>1 DEF Adds, Starts
  <2> QED BY <2>2
<1>4. CASE ProfileDelete(c)
  <2>1. PICK id : Starts(c, [name |-> "profile delete", id |-> id], "deleteProfile", NoLocal)
    BY <1>1, <1>4 DEF ProfileDelete, Starts
  <2> QED BY <2>1
<1>5. CASE SubscriptionAdd(c)
  <2>1. PICK s : Starts(c, [name |-> "subscribe"], "addSource", WithSourceOf(s))
    BY <1>1, <1>5 DEF Starts, SubscriptionAdd
  <2> QED BY <2>1
<1>6. CASE SubscriptionImport(c)
  <2>1. PICK s : Starts(c, [name |-> "import"], "prepare", WithSourceOf(s))
    BY <1>1, <1>6 DEF Starts, SubscriptionImport
  <2> QED BY <2>1
<1>7. CASE SubscriptionUpdate(c)
  <2>1. PICK id : Starts(c, [name |-> "update", id |-> id], "getSource", NoLocal)
    BY <1>1, <1>7 DEF Starts, SubscriptionUpdate
  <2> QED BY <2>1
<1>8. CASE SubscriptionDelete(c)
  <2>1. PICK id \in Named(files.sources.data), keep \in BOOLEAN :
          Starts(c, [name |-> "delete", id |-> id, keep |-> keep], "getSource", NoLocal)
    BY <1>1, <1>8 DEF Starts, SubscriptionDelete
  <2> QED BY <2>1
<1> QED BY <1>3, <1>4, <1>5, <1>6, <1>7, <1>8 DEF BeginsNow

LEMMA BeginsAlone ==
  ASSUME StoresInv, NEW c \in Procs, BeginsNow(c)
  PROVE  /\ Only(c) /\ ~Running(c)
         /\ history'.alone => \A d \in Procs : ~Running(d)
         /\ (history'.alone /\ IsFunction) => Tracks(c)'
<1>1. PICK cmd, label, l : Starts(c, cmd, label, l)
  BY CommandStarts
<1>2. /\ ~Running(c) /\ UNCHANGED files
      /\ history'.alone => \A d \in Procs : ~Running(d)
  BY <1>1 DEF Starts, Begin, StoresInv, IsHistory
<1>3. Only(c)
  BY <1>1 DEF Starts, Begin, Only, StoresInv, Processes
<1>4. ASSUME history'.alone, IsFunction
      PROVE  Tracks(c)'
  <2>1. history.alone /\ \A d \in Procs : ~Running(d)
    BY <1>1, <1>4 DEF Starts, Begin, StoresInv, IsHistory
  <2>2. /\ cli'[c].pc = label /\ cli'[c].cmd = cmd /\ cli'[c].loc = l
        /\ cli'[c].before = {files}
    BY <1>1, <2>1 DEF Starts, Begin, StoresInv, Processes
  <2>3. Now(c)' = {}
    BY <1>1, <2>2 DEF Starts, Now, Dirty
  <2>4. Found(c, files)'
    BY <1>1, <1>2, <1>4, <2>2, <2>3 DEF Starts, Found, IsFunction, Loc
  <2> QED BY <1>2, <2>2, <2>4 DEF Tracks
<1> QED BY <1>2, <1>3, <1>4

LEMMA UndoStep == StoresInv /\ UndoInv /\ [Next]_vars => UndoInv'
<1> SUFFICES ASSUME StoresInv, UndoInv, [Next]_vars PROVE UndoInv'
  OBVIOUS
<1>1. IsFunction /\ IsFunction'
  BY FunctionKept DEF UndoInv
<1>2. CASE UNCHANGED vars
  BY <1>1, <1>2 DEF vars, UndoInv, OneRuns, Sound, Running, Tracks, Found, Now, Cmd, Loc
<1>3. ASSUME NEW c \in Procs, BeginsNow(c), history'.alone
      PROVE  OneRuns' /\ \A d \in Procs : Running(d)' => Tracks(d)'
  <2>1. \A d \in Procs \ {c} : ~Running(d)'
    BY <1>3, BeginsAlone DEF Only, Running
  <2>2. Tracks(c)'
    BY <1>1, <1>3, BeginsAlone
  <2> QED BY <2>1, <2>2 DEF OneRuns
<1>4. ASSUME NEW c \in Procs, GoesOn(c), history'.alone
      PROVE  OneRuns' /\ (Sound' => \A d \in Procs : Running(d)' => Tracks(d)')
  <2>1. /\ history.alone /\ Running(c) /\ OneRuns /\ (Sound' => Sound)
        /\ \A d \in Procs \ {c} : ~Running(d)'
    BY <1>4, GoesOnAlone DEF UndoInv, OneRuns, Only, Running
  <2>2. ASSUME Sound', Running(c)'
        PROVE  Tracks(c)'
    <3>1. Tracks(c)
      BY <2>1, <2>2 DEF UndoInv
    <3>2. Honest(c)
      BY <1>1, <1>4, <2>2, <3>1, GoesOnHonest
    <3> QED BY <2>2, <3>2 DEF Honest, Running
  <2> QED BY <2>1, <2>2 DEF OneRuns
<1> QED BY <1>1, <1>2, <1>3, <1>4, NextSplit DEF UndoInv

LEMMA UndoInit == Init => UndoInv
BY DEF Init, UndoInv, IsFunction, OneRuns, Running, Idle

\* A command that fails while no other runs leaves both stores as it has found
\* them (rollbackSourceWorkflowState, runSubscriptionDelete), unless putting one
\* back fails too or only the sync of the directory failed: for any stores, any
\* commands and whichever of their steps fails.
THEOREM FailedCommandChangesNothingAlways == Spec => FailedCommandChangesNothing
<1> DEFINE Inv == StoresInv /\ UndoInv
           Promise(c) ==
             (Running(c) /\ cli'[c].pc = "failed" /\ cli[c].before # {} /\ history'.alone
                /\ ~history'.unsynced /\ ~history'.unrestored)
               => cli[c].before = {files'}
<1>1. Init => Inv
  BY StoresInit, UndoInit
<1>2. Inv /\ [Next]_vars => Inv'
  BY StoresStep, UndoStep
<1>3. Inv /\ [Next]_vars => [\A c \in Procs : Promise(c)]_vars
  <2> SUFFICES ASSUME Inv, Next, NEW c \in Procs, Running(c), cli'[c].pc = "failed",
                      history'.alone, Sound'
               PROVE  cli[c].before = {files'}
    BY DEF Sound
  <2>1. PICK d \in Procs : BeginsNow(d) \/ GoesOn(d)
    BY NextSplit
  <2>2. Only(d)
    BY <2>1, BeginsAlone, GoesOnAlone
  <2>3. d = c
    BY <2>2 DEF Only, Running
  <2>4. GoesOn(c)
    BY <2>1, <2>3, BeginsAlone
  <2>5. history.alone /\ Sound
    BY <2>4, GoesOnAlone
  <2>6. Tracks(c) /\ IsFunction /\ IsFunction'
    BY <2>5, FunctionKept DEF UndoInv
  <2>7. Honest(c)
    BY <2>4, <2>6, GoesOnHonest
  <2> QED BY <2>7 DEF Honest, Running
<1> QED BY <1>1, <1>2, <1>3, PTL DEF Spec, FailedCommandChangesNothing

-----------------------------------------------------------------------------
(* What a stored profile connects to.                                      *)

LEMMA StoredProfiles ==
  ASSUME StoresInv PROVE \A p \in files.profiles.data : IsProfile(p)
BY StoreLoads DEF Loadable, IsValid

\* A VLESS profile that keeps its id keeps what Xray connects to, whatever the
\* next refresh brings (importedVLESSProfileID, GenerateXrayConfig): for any
\* contents, and for profiles of any other source that have the same id.
THEOREM SameIdSameOutboundAlways == Spec => SameIdSameOutbound
<1>1. StoresInv /\ StoresInv' =>
        \A p \in files.profiles.data : \A q \in files'.profiles.data :
          (p.id = q.id /\ p.protocol = "vless" /\ p.source # "manual")
            => Outbound(p) = Outbound(q)
  <2> DEFINE Stored == \A p \in files.profiles.data : IsProfile(p)
  <2>1. StoresInv => Stored
    BY StoredProfiles
  <2> HIDE DEF Stored
  <2>2. StoresInv' => Stored'
    BY <2>1, PTL
  <2> QED BY <2>1, <2>2, SameIdMeansSameOutbound DEF Stored
<1> QED BY <1>1, StoresInvAlways, PTL DEF SameIdSameOutbound

\* What TUN accepts, the local proxies accept (ValidateXrayConnectProfile).
THEOREM TunRunsProxyOnlyAlways == Spec => []TunRunsProxyOnly
<1>1. TunRunsProxyOnly
  BY TunMeansProxyOnly DEF TunRunsProxyOnly
<1> QED BY <1>1, PTL

-----------------------------------------------------------------------------
(* What the two stores say of each other.  P are profiles and S sources,   *)
(* dropped the profiles that the user has deleted and kept those that a    *)
(* deleted subscription has left on purpose.                               *)

Linked(P, S, dropped) == \A s \in S : s.links \subseteq Named(P) \cup dropped
Apart(S, dropped)     == \A s, t \in S : s # t => s.links \cap t.links \subseteq dropped
Claimed(P, S, kept)   ==
  \A p \in P : p.source = "subscription" => p.id \in kept \/ \E s \in S : p.id \in s.links
\* The profiles that one source links have different names.
Different(P) == \A p, q \in P : p.id # q.id => NameKey(p.name) # NameKey(q.name)
Of(s, P, dropped) == {p \in P : p.id \in s.links \ dropped}
Told(P, S, dropped) == Numbered => \A s \in S : Different(Of(s, P, dropped))
Agree(P, S, dropped, kept) ==
  /\ Linked(P, S, dropped) /\ Apart(S, dropped) /\ Claimed(P, S, kept)
  /\ Told(P, S, dropped)
\* It takes fewer profiles only to tell them apart.
LEMMA FewerDiffer ==
  ASSUME NEW P, Different(P), NEW Q \in SUBSET P PROVE Different(Q)
BY DEF Different

LEMMA FewerTold ==
  ASSUME NEW P, NEW S, NEW dropped, Told(P, S, dropped), NEW Q, NEW T \in SUBSET S, NEW more,
         \A s \in T : Of(s, Q, more) \subseteq Of(s, P, dropped)
  PROVE  Told(Q, T, more)
BY FewerDiffer DEF Told

LEMMA AgreeMore ==
  ASSUME NEW P, NEW S, NEW dropped, NEW kept, Agree(P, S, dropped, kept),
         NEW more, NEW most, dropped \subseteq more, kept \subseteq most
  PROVE  Agree(P, S, more, most)
<1>1. Told(P, S, more)
  BY FewerTold DEF Agree, Of
<1> QED BY <1>1 DEF Agree, Linked, Apart, Claimed

LEMMA AgreeAdded ==
  ASSUME NEW P, NEW S, NEW dropped, NEW kept, Agree(P, S, dropped, kept),
         NEW A, \A p \in A : p.source # "subscription", Named(A) \cap Named(P) = {}
  PROVE  Agree(P \cup A, S, dropped, kept)
<1>1. \A s \in S : Of(s, P \cup A, dropped) \subseteq Of(s, P, dropped)
  BY DEF Agree, Linked, Named, Of
<1>2. Told(P \cup A, S, dropped)
  BY <1>1, FewerTold DEF Agree
<1> QED BY <1>2 DEF Agree, Linked, Apart, Claimed, Named

LEMMA AgreeDropped ==
  ASSUME NEW P, NEW S, NEW dropped, NEW kept, Agree(P, S, dropped, kept), NEW id
  PROVE  Agree(Without(P, {id}), S, dropped \cup {id}, kept)
<1>1. Told(Without(P, {id}), S, dropped \cup {id})
  BY FewerTold DEF Agree, Of, Without
<1> QED BY <1>1 DEF Agree, Linked, Apart, Claimed, Named, Without

LEMMA AgreeNewSource ==
  ASSUME NEW P, NEW S, NEW dropped, NEW kept, Agree(P, S, dropped, kept),
         NEW s, s.links = {}
  PROVE  Agree(P, S \cup {s}, dropped, kept)
<1>1. Different(Of(s, P, dropped))
  BY DEF Different, Of
<1> QED BY <1>1 DEF Agree, Linked, Apart, Claimed, Told

\* s is a copy of a source that is stored.
IsCopy(s, S) ==
  /\ \A t, u \in S : t.id = u.id => t = u
  /\ \E t \in S : t.id = s.id /\ t.links = s.links

\* The profiles that s links are replaced by A, which no other profile collides
\* with, and r, which links A, replaces s.
LEMMA AgreeRefreshed ==
  ASSUME NEW P, NEW S, NEW dropped, NEW kept, Agree(P, S, dropped, kept),
         NEW s, IsCopy(s, S), NEW A, Named(A) \cap (Named(P) \ s.links) = {},
         Numbered => Different(A), NEW r, r.links = Named(A)
  PROVE  Agree(Without(P, s.links) \cup A, Without(S, {s.id}) \cup {r}, dropped, kept)
<1> DEFINE Q == Without(P, s.links) \cup A
           T == Without(S, {s.id}) \cup {r}
<1>0. PICK t0 \in S : t0.id = s.id /\ t0.links = s.links
  BY DEF IsCopy
<1>1. \A t \in Without(S, {s.id}) : t \in S /\ t # t0
  BY <1>0 DEF Without
<1>2. \A t \in S \ Without(S, {s.id}) : t = t0
  BY <1>0 DEF Without, IsCopy
<1>3. \A t \in Without(S, {s.id}) : t.links \cap s.links \subseteq dropped
  BY <1>0, <1>1 DEF Agree, Apart
<1>4. Linked(Q, T, dropped)
  <2>1. r.links \subseteq Named(Q)
    BY DEF Named
  <2>2. ASSUME NEW t \in Without(S, {s.id}), NEW id \in t.links
        PROVE  id \in Named(Q) \cup dropped
    <3>1. CASE id \in s.links
      BY <1>3, <2>2, <3>1
    <3>2. CASE id \notin s.links
      <4>1. id \in Named(P) \cup dropped
        BY <1>1, <2>2 DEF Agree, Linked
      <4> QED BY <3>2, <4>1 DEF Named, Without
    <3> QED BY <3>1, <3>2
  <2> QED BY <2>1, <2>2 DEF Linked
<1>5. Apart(T, dropped)
  <2>1. ASSUME NEW t \in Without(S, {s.id}), NEW id \in r.links \cap t.links
        PROVE  id \in dropped
    <3>1. id \in Named(P) \cup dropped
      BY <1>1, <2>1 DEF Agree, Linked
    <3>2. id \in s.links \/ id \in dropped
      BY <2>1, <3>1
    <3> QED BY <1>3, <2>1, <3>2
  <2> QED BY <1>1, <2>1 DEF Agree, Apart
<1>7. Told(Q, T, dropped)
  <2>1. Of(r, Q, dropped) \subseteq A
    BY DEF Of, Named, Without
  <2>2. ASSUME NEW t \in Without(S, {s.id})
        PROVE  Of(t, Q, dropped) \subseteq Of(t, P, dropped)
    <3>1. t \in T /\ r \in T
      OBVIOUS
    <3>2. ASSUME NEW p \in A, p.id \in t.links
          PROVE  p.id \in dropped
      <4>1. p.id \in r.links
        BY DEF Named
      <4>2. p.id \in Named(P) \cup dropped
        BY <1>1, <3>2 DEF Agree, Linked
      <4>3. p.id \in s.links \/ p.id \in dropped
        BY <4>1, <4>2
      <4> QED BY <1>3, <3>2, <4>3
    <3> QED BY <3>2 DEF Of, Without
  <2>3. ASSUME Numbered, NEW t \in T
        PROVE  Different(Of(t, Q, dropped))
    <3>1. CASE t = r
      BY <2>1, <2>3, <3>1, FewerDiffer
    <3>2. CASE t \in Without(S, {s.id})
      <4>1. Different(Of(t, P, dropped))
        BY <1>1, <2>3, <3>2 DEF Agree, Told
      <4> QED BY <2>2, <3>2, <4>1, FewerDiffer
    <3> QED BY <3>1, <3>2
  <2> HIDE DEF Q, T
  <2> QED BY <2>3 DEF Told
<1>6. Claimed(Q, T, kept)
  <2>1. ASSUME NEW p \in A
        PROVE  p.id \in r.links
    BY DEF Named
  <2>2. ASSUME NEW p \in Without(P, s.links), p.source = "subscription", p.id \notin kept
        PROVE  \E t \in Without(S, {s.id}) : p.id \in t.links
    <3>1. p \in P /\ p.id \notin s.links
      BY DEF Without
    <3>2. PICK t \in S : p.id \in t.links
      BY <2>2, <3>1 DEF Agree, Claimed
    <3> QED BY <1>0, <1>2, <3>1, <3>2
  <2> QED BY <2>1, <2>2 DEF Claimed
<1> QED BY <1>4, <1>5, <1>6, <1>7 DEF Agree

\* s is removed with the profiles of subscriptions that it links.
LEMMA AgreeDeleted ==
  ASSUME NEW P, NEW S, NEW dropped, NEW kept, Agree(P, S, dropped, kept),
         NEW s, IsCopy(s, S), NEW Q \in SUBSET P,
         \A p \in P \ Q : p.id \in s.links,
         \A p \in Q : ~(p.source = "subscription" /\ p.id \in s.links)
  PROVE  Agree(Q, Without(S, {s.id}), dropped, kept)
<1> DEFINE T == Without(S, {s.id})
<1>0. PICK t0 \in S : t0.id = s.id /\ t0.links = s.links
  BY DEF IsCopy
<1>1. \A t \in T : t \in S /\ t # t0
  BY <1>0 DEF Without
<1>2. \A t \in S \ T : t = t0
  BY <1>0 DEF Without, IsCopy
<1>3. \A t \in T : t.links \cap s.links \subseteq dropped
  BY <1>0, <1>1 DEF Agree, Apart
<1>4. Linked(Q, T, dropped)
  <2>1. ASSUME NEW t \in T, NEW id \in t.links
        PROVE  id \in Named(Q) \cup dropped
    <3>1. CASE id \in s.links
      BY <1>3, <2>1, <3>1
    <3>2. CASE id \notin s.links
      <4>1. id \in Named(P) \cup dropped
        BY <1>1, <2>1 DEF Agree, Linked
      <4> QED BY <3>2, <4>1 DEF Named
    <3> QED BY <3>1, <3>2
  <2> HIDE DEF T
  <2> QED BY <2>1 DEF Linked
<1>5. Apart(T, dropped)
  BY <1>1 DEF Agree, Apart
<1>6. Claimed(Q, T, kept)
  BY <1>0, <1>2 DEF Agree, Claimed
<1>7. Told(Q, T, dropped)
  BY <1>1, FewerTold DEF Agree, Of
<1> QED BY <1>4, <1>5, <1>6, <1>7 DEF Agree

\* s is removed and its profiles are left on purpose.
LEMMA AgreeKept ==
  ASSUME NEW P, NEW S, NEW dropped, NEW kept, Agree(P, S, dropped, kept),
         NEW s, IsCopy(s, S)
  PROVE  Agree(P, Without(S, {s.id}), dropped, kept \cup s.links)
<1>0. PICK t0 \in S : t0.id = s.id /\ t0.links = s.links
  BY DEF IsCopy
<1>1. \A t \in S \ Without(S, {s.id}) : t = t0
  BY <1>0 DEF Without, IsCopy
<1>2. Without(S, {s.id}) \subseteq S
  BY DEF Without
<1>3. Told(P, Without(S, {s.id}), dropped)
  BY <1>2, FewerTold DEF Agree
<1> QED BY <1>0, <1>1, <1>2, <1>3 DEF Agree, Linked, Apart, Claimed

-----------------------------------------------------------------------------
(* The stores agree between commands, and within one that runs alone up to *)
(* what it is going to write.                                              *)

\* The sources as they will be once a command is done: a refresh links its
\* source to what it was given, a deletion removes it.
Intended(label, cmd, l, S) ==
  IF label = "updateSource"
    THEN Without(S, Named(l.source))
           \cup {[s EXCEPT !.links = Ids(l.given)] : s \in l.source}
  ELSE IF label = "deleteSource" /\ ~cmd.keep THEN Without(S, Named(l.source))
  ELSE S
\* The source that is going to be changed is stored, with the same links.
IsStored(label, cmd, l, S) ==
  label \in Changing \/ (cmd.name = "update" /\ label \in Requesting) =>
    \A s \in l.source : \E t \in S : t.id = s.id /\ t.links = s.links
Fits(label, cmd, l, P, S, dropped, kept) ==
  IsStored(label, cmd, l, S) /\ Agree(P, Intended(label, cmd, l, S), dropped, kept)

Dropped(c) ==
  history.dropped \cup (IF Cmd(c).name = "profile delete" THEN {Cmd(c).id} ELSE {})
Kept(c) ==
  history.kept \cup (IF Cmd(c).name = "delete" /\ Cmd(c).keep THEN Source(c).links ELSE {})
After(c, f) == IF Loc(c).target = f THEN Loc(c).next ELSE files[f].data

Stage(c) ==
  IF At(c, "save")
    THEN Fits(Loc(c).after, Cmd(c), Loc(c), After(c, "profiles"), After(c, "sources"),
              Dropped(c), Kept(c))
  ELSE At(c, "restore") \/ At(c, "rewrite")
         \/ Fits(cli[c].pc, Cmd(c), Loc(c), files.profiles.data, files.sources.data,
                 history.dropped, history.kept)

\* What a command is about to take out of profiles.json.
Proposes(c) ==
  (At(c, "save") /\ Loc(c).target = "profiles"
     /\ Cmd(c).name \in {"import", "update", "delete"})
    => \A p \in files.profiles.data \ Loc(c).next :
         /\ p.id \in Source(c).links
         /\ Cmd(c).name # "import"
         /\ Cmd(c).name = "delete" => p.source = "subscription"

Agreed == Agree(files.profiles.data, files.sources.data, history.dropped, history.kept)
FoundAgreed(c) ==
  \A f0 \in cli[c].before :
    Agree(f0.profiles.data, f0.sources.data, history.dropped, history.kept)
AgreeInv ==
  history.alone =>
    /\ \A c \in Procs : Proposes(c)
    /\ Faultless =>
         /\ Apart(files.sources.data, history.dropped)
         /\ Quiet => Agreed
         /\ \A c \in Procs : Running(c) => Stage(c) /\ FoundAgreed(c)

\* What a step of a command that runs alone leads to.
Goes(c) ==
  /\ (Running(c) => Stage(c))'
  /\ (At(c, "ok") => Agreed)'
  /\ (At(c, "idle") => history.crashed)'

LEMMA FitsSame ==
  ASSUME NEW label, NEW cmd, NEW l, NEW m, l.source = m.source, l.given = m.given,
         NEW P, NEW S, NEW dropped, NEW kept, Fits(label, cmd, l, P, S, dropped, kept)
  PROVE  Fits(label, cmd, m, P, S, dropped, kept)
BY DEF Fits, IsStored, Intended

LEMMA GoesReturn ==
  ASSUME Processes, NEW c \in Procs, Return(c, "failed")
  PROVE  Goes(c)
<1>1. cli'[c].pc = "failed"
  BY ReturnGoes
<1> QED BY <1>1 DEF Goes, Running, At

LEMMA GoesSet ==
  ASSUME Processes, NEW c \in Procs, NEW label, NEW l, Set(c, label, l),
         label \notin {"ok", "idle", "save"},
         \/ label \in {"restore", "rewrite"}
         \/ Fits(label, Cmd(c), l, files'.profiles.data, files'.sources.data,
                 history'.dropped, history'.kept)
  PROVE  Goes(c)
<1>1. cli'[c] = [pc |-> label, cmd |-> cli[c].cmd, loc |-> l, before |-> cli[c].before]
  BY SetMakes
<1>2. cli'[c].pc = label /\ cli'[c].cmd = cli[c].cmd /\ cli'[c].loc = l
  BY <1>1
<1>3. Stage(c)'
  BY <1>2 DEF Stage, At, Cmd, Loc
<1> QED BY <1>2, <1>3 DEF Goes, At

LEMMA GoesRollback ==
  ASSUME Processes, NEW c \in Procs, NEW undo, Rollback(c, undo)
  PROVE  Goes(c)
BY GoesReturn, GoesSet DEF Rollback

\* Nothing that the stores' agreement is about has changed.
Same == UNCHANGED files /\ history'.dropped = history.dropped /\ history'.kept = history.kept

LEMMA WillSaveMakes ==
  ASSUME StoresInv, NEW c \in Procs, NEW f, NEW next, NEW after, NEW undo,
         WillSave(c, f, next, after, undo)
  PROVE  /\ cli'[c].pc = "save" /\ cli'[c].cmd = cli[c].cmd
         /\ cli'[c].loc = [target |-> f, next |-> next, after |-> after, undo |-> undo,
                           given |-> Loc(c).given, source |-> Loc(c).source,
                           snapshot |-> Loc(c).snapshot]
<1> DEFINE l == Filled(Loc(c), f, next, after, undo)
<1>1. Loc(c) = [target |-> Loc(c).target, next |-> Loc(c).next,
                after |-> Loc(c).after, undo |-> Loc(c).undo,
                given |-> Loc(c).given, source |-> Loc(c).source,
                snapshot |-> Loc(c).snapshot]
  BY ReadyNow DEF IsLocal
<1>2. l = [target |-> f, next |-> next, after |-> after, undo |-> undo,
           given |-> Loc(c).given, source |-> Loc(c).source,
           snapshot |-> Loc(c).snapshot]
  BY <1>1, SaveFields
<1>3. Set(c, "save", l) /\ Processes
  BY DEF WillSave, Filled, StoresInv
<1> HIDE DEF l
<1>4. cli'[c] = [pc |-> "save", cmd |-> cli[c].cmd, loc |-> l, before |-> cli[c].before]
  BY <1>3, SetMakes
<1> QED BY <1>2, <1>4

LEMMA GoesSave ==
  ASSUME StoresInv, NEW c \in Procs, Same, NEW f, NEW next, NEW after, NEW undo,
         WillSave(c, f, next, after, undo),
         Fits(after, Cmd(c), Loc(c), IF f = "profiles" THEN next ELSE files.profiles.data,
              IF f = "sources" THEN next ELSE files.sources.data, Dropped(c), Kept(c))
  PROVE  Goes(c)
<1>1. /\ cli'[c].pc = "save" /\ cli'[c].cmd = cli[c].cmd
      /\ cli'[c].loc = [target |-> f, next |-> next, after |-> after, undo |-> undo,
                        given |-> Loc(c).given, source |-> Loc(c).source,
                        snapshot |-> Loc(c).snapshot]
  BY WillSaveMakes
<1>2. /\ cli'[c].loc.target = f /\ cli'[c].loc.next = next /\ cli'[c].loc.after = after
      /\ cli'[c].loc.source = Loc(c).source /\ cli'[c].loc.given = Loc(c).given
  BY <1>1
<1>3. /\ Dropped(c)' = Dropped(c) /\ Kept(c)' = Kept(c)
      /\ After(c, "profiles")' = IF f = "profiles" THEN next ELSE files.profiles.data
      /\ After(c, "sources")' = IF f = "sources" THEN next ELSE files.sources.data
  BY <1>1, <1>2 DEF Same, Dropped, Kept, After, Source, Cmd, Loc
<1>4. Fits(after, Cmd(c), cli'[c].loc, After(c, "profiles")', After(c, "sources")',
           Dropped(c)', Kept(c)')
  BY <1>2, <1>3, FitsSame
<1>5. Stage(c)'
  BY <1>1, <1>2, <1>4 DEF Stage, At, Cmd, Loc
<1> QED BY <1>1, <1>5 DEF Goes, At

\* What a process knows at a step that writes no store.
LEMMA FitsNow ==
  ASSUME NEW c, Stage(c), cli[c].pc \notin {"save", "restore", "rewrite"}
  PROVE  Fits(cli[c].pc, Cmd(c), Loc(c), files.profiles.data, files.sources.data,
              history.dropped, history.kept)
BY DEF Stage, At

\* Only a step that changes subscriptions.json last intends other sources.
LEMMA FitsRead ==
  ASSUME NEW label, NEW cmd, NEW l, NEW P, NEW S, NEW dropped, NEW kept,
         label # "updateSource", label = "deleteSource" => cmd.keep
  PROVE  Fits(label, cmd, l, P, S, dropped, kept)
           <=> IsStored(label, cmd, l, S) /\ Agree(P, S, dropped, kept)
BY DEF Fits, Intended

LEMMA AgreesNow ==
  ASSUME NEW c, Stage(c),
         cli[c].pc \notin {"save", "restore", "rewrite", "updateSource", "deleteSource"}
  PROVE  /\ IsStored(cli[c].pc, Cmd(c), Loc(c), files.sources.data)
         /\ Agree(files.profiles.data, files.sources.data, history.dropped, history.kept)
BY FitsNow, FitsRead

LEMMA IdsOfSources ==
  ASSUME StoresInv
  PROVE  \A t, u \in files.sources.data : t.id = u.id => t = u
BY StoreLoads, UniqueMeansInjective DEF Loadable

LEMMA SourceNow ==
  ASSUME StoresInv, NEW c \in Procs,
         cli[c].pc \in Requesting \cup Changing \cup {"addSource"}
  PROVE  /\ Source(c) \in Loc(c).source /\ Loc(c).source = {Source(c)}
         /\ IsSource(Source(c))
         /\ Cmd(c).name \in {"subscribe", "import"} => Source(c).links = {}
<1>1. IsLocal(Loc(c)) /\ Ready(cli[c].pc, Cmd(c), Loc(c))
  BY ReadyNow
<1>2. Loc(c).source # {} /\ \A r, s \in Loc(c).source : r = s
  BY <1>1 DEF IsLocal, Ready
<1>3. Source(c) \in Loc(c).source /\ Loc(c).source = {Source(c)}
  BY <1>2, TheSource
<1> QED BY <1>1, <1>3 DEF IsLocal, Ready

LEMMA CopyNow ==
  ASSUME StoresInv, NEW c \in Procs, cli[c].pc \in Changing,
         IsStored(cli[c].pc, Cmd(c), Loc(c), files.sources.data)
  PROVE  IsCopy(Source(c), files.sources.data)
<1>1. Source(c) \in Loc(c).source
  BY SourceNow
<1> QED BY <1>1, IdsOfSources DEF IsStored, IsCopy

-----------------------------------------------------------------------------
(* The steps, one by one.                                                  *)

LEMMA AgreeReturns ==
  ASSUME StoresInv, NEW c \in Procs, Refused(c) \/ Crash(c)
  PROVE  Goes(c)
<1>1. CASE Refused(c)
  BY <1>1, GoesReturn DEF Refused, StoresInv
<1>2. CASE Crash(c)
  <2>1. history'.crashed /\ cli'[c].pc = "idle"
    BY <1>2, ReturnGoes DEF Crash, StoresInv, IsHistory
  <2> QED BY <2>1 DEF Goes, Running, At
<1> QED BY <1>1, <1>2

LEMMA AgreeReads ==
  ASSUME StoresInv, NEW c \in Procs, Stage(c), GetSource(c)
  PROVE  Goes(c)
<1> DEFINE found == {s \in files.sources.data : s.id = Cmd(c).id}
           next  == IF Cmd(c).name = "update" THEN "prepare"
                    ELSE IF Cmd(c).keep THEN "deleteSource" ELSE "checkStores"
           l == WithSources(Loc(c), found)
<1>1. /\ At(c, "getSource") /\ UNCHANGED <<files, history>>
      /\ Return(c, "failed") \/ Set(c, next, l)
  BY DEF GetSource, WithSources
<1>2. Processes /\ IsLocal(Loc(c)) /\ cli[c].pc = "getSource"
  BY <1>1, ReadyNow DEF StoresInv, At
<1>3. l.source = found
  <2>1. (\A r, s \in found : r = s) /\ \A s \in found : IsSource(s)
    BY IdsOfSources, StoreLoads DEF Loadable, IsValid
  <2> HIDE DEF found
  <2> QED BY <1>2, <2>1, SourceChanged
<1>4. Agree(files.profiles.data, files.sources.data, history.dropped, history.kept)
  BY <1>2, AgreesNow
<1>5. IsStored(next, Cmd(c), l, files.sources.data)
  <2>1. \A s \in l.source : s \in files.sources.data
    BY <1>3
  <2> HIDE DEF l, next
  <2> QED BY <2>1 DEF IsStored
<1>6. next \notin {"ok", "idle", "save", "updateSource"} /\ (next = "deleteSource" => Cmd(c).keep)
  OBVIOUS
<1> HIDE DEF next, l
<1>7. Fits(next, Cmd(c), l, files.profiles.data, files.sources.data,
           history.dropped, history.kept)
  BY <1>4, <1>5, <1>6, FitsRead
<1>8. CASE Return(c, "failed")
  BY <1>2, <1>8, GoesReturn
<1>9. CASE Set(c, next, l)
  BY <1>1, <1>2, <1>6, <1>7, <1>9, GoesSet
<1> QED BY <1>1, <1>8, <1>9

\* A step that changes nothing but where the command is.
LEMMA GoesGoto ==
  ASSUME StoresInv, NEW c \in Procs, Same, NEW label, Goto(c, label),
         label \notin {"ok", "idle", "save", "updateSource", "restore", "rewrite"},
         label = "deleteSource" => Cmd(c).keep,
         Agree(files.profiles.data, files.sources.data, history.dropped, history.kept),
         IsStored(label, Cmd(c), Loc(c), files.sources.data)
  PROVE  Goes(c)
<1>1. Fits(label, Cmd(c), Loc(c), files.profiles.data, files.sources.data,
           history.dropped, history.kept)
  BY FitsRead
<1>2. Fits(label, Cmd(c), Loc(c), files'.profiles.data, files'.sources.data,
           history'.dropped, history'.kept)
  BY <1>1 DEF Same
<1> QED BY <1>2, GoesSet DEF Goto, StoresInv

LEMMA AgreeClientID ==
  ASSUME StoresInv, NEW c \in Procs, Stage(c), ClientIDStep(c)
  PROVE  Goes(c)
<1>1. Processes /\ IsHistory
  BY DEF StoresInv
<1>2. cli[c].pc \in Requesting
  BY DEF ClientIDStep, ReadClientID, RetryClientID, CreateClientID, WriteClientID,
         SyncClientID, Requests, At, Requesting
<1>3. Return(c, "failed") \/ \E label \in Requesting : Goto(c, label)
  BY DEF ClientIDStep, ReadClientID, RetryClientID, CreateClientID, WriteClientID,
         SyncClientID, UseClientID, Requesting
<1>4. Same
  BY <1>1 DEF ClientIDStep, ReadClientID, RetryClientID, CreateClientID, WriteClientID,
              SyncClientID, UseClientID, Same, IsHistory
<1>5. /\ IsStored(cli[c].pc, Cmd(c), Loc(c), files.sources.data)
      /\ Agree(files.profiles.data, files.sources.data, history.dropped, history.kept)
  BY <1>2, AgreesNow DEF Requesting
<1>6. CASE Return(c, "failed")
  BY <1>1, <1>6, GoesReturn
<1>7. ASSUME NEW label \in Requesting, Goto(c, label)
      PROVE  Goes(c)
  <2>1. IsStored(label, Cmd(c), Loc(c), files.sources.data)
    BY <1>2, <1>5 DEF IsStored, Requesting, Changing
  <2> QED BY <1>4, <1>5, <1>7, <2>1, GoesGoto DEF Requesting
<1> QED BY <1>3, <1>6, <1>7

LEMMA AgreeFetch ==
  ASSUME StoresInv, NEW c \in Procs, Stage(c), Fetch(c)
  PROVE  Goes(c)
<1>1. Processes /\ UNCHANGED <<files, history>> /\ cli[c].pc \in {"prepare", "fetch"}
  BY DEF StoresInv, Fetch, At
<1>2. CASE Return(c, "failed")
  BY <1>1, <1>2, GoesReturn
<1>3. CASE ~Return(c, "failed")
  <2> DEFINE next == IF Cmd(c).name = "import" THEN "addSource" ELSE "snapshot"
  <2>1. PICK ps, s :
           /\ s = Source(c) \/ \E name : s = [Source(c) EXCEPT !.name = name]
           /\ Set(c, next, Fetched(Loc(c), ps, {s}, FetchReads))
    BY <1>3, FetchMakes
  <2> DEFINE l == Fetched(Loc(c), ps, {s}, FetchReads)
  <2>2. Source(c) \in Loc(c).source /\ IsSource(Source(c))
    BY <1>1, SourceNow DEF Requesting
  <2>3. s.id = Source(c).id /\ s.links = Source(c).links
    BY <2>1, <2>2, RenamedSource
  <2>4. l.source = {s}
    BY ReadyNow, FetchedFields
  <2>5. /\ IsStored(cli[c].pc, Cmd(c), Loc(c), files.sources.data)
        /\ Agree(files.profiles.data, files.sources.data, history.dropped, history.kept)
    BY <1>1, AgreesNow
  <2>6. Cmd(c).name \in {"import", "update"}
    BY <1>1, ReadyNow DEF Ready, Requesting
  <2>7. IsStored(next, Cmd(c), l, files.sources.data)
    <3>1. Cmd(c).name = "update" =>
            \E t \in files.sources.data : t.id = Source(c).id /\ t.links = Source(c).links
      BY <1>1, <2>2, <2>5 DEF IsStored, Requesting
    <3> HIDE DEF l
    <3> QED BY <2>3, <2>4, <2>6, <3>1 DEF IsStored, Changing
  <2>8. next \in {"addSource", "snapshot"}
    OBVIOUS
  <2> HIDE DEF l, next
  <2>9. Fits(next, Cmd(c), l, files.profiles.data, files.sources.data,
             history.dropped, history.kept)
    BY <2>5, <2>7, <2>8, FitsRead
  <2>10. Set(c, next, l)
    BY <2>1 DEF l
  <2> QED BY <1>1, <2>8, <2>9, <2>10, GoesSet
<1> QED BY <1>2, <1>3

LEMMA AgreeSnapshot ==
  ASSUME StoresInv, NEW c \in Procs, Stage(c), TakeSnapshot(c)
  PROVE  Goes(c)
<1> DEFINE next == IF Cmd(c).name = "delete" THEN "dropProfiles" ELSE "replace"
           taken == Loc(c).snapshot \cup {[of |-> "profiles", file |-> files.profiles]}
           l == WithSnapshot(Loc(c), taken)
<1>1. /\ Processes /\ UNCHANGED <<files, history>> /\ cli[c].pc = "snapshot"
      /\ Set(c, next, l) \/ \E undo : Rollback(c, undo)
  BY DEF StoresInv, TakeSnapshot, At, WithSnapshot
<1>2. CASE \E undo : Rollback(c, undo)
  BY <1>1, <1>2, GoesRollback
<1>3. CASE Set(c, next, l)
  <2>1. l.source = Loc(c).source
    <3>1. IsLocal(Loc(c))
      BY ReadyNow
    <3>2. \A s \in taken : s.of \in Stores /\ IsFile(s.of, s.file)
      BY <3>1 DEF IsLocal, StoresInv, Files, Stores
    <3> HIDE DEF taken
    <3> QED BY <3>1, <3>2, SnapshotChanged
  <2>2. /\ IsStored(cli[c].pc, Cmd(c), Loc(c), files.sources.data)
        /\ Agree(files.profiles.data, files.sources.data, history.dropped, history.kept)
    BY <1>1, AgreesNow
  <2>3. next \in {"dropProfiles", "replace"}
    OBVIOUS
  <2> HIDE DEF l, next
  <2>4. IsStored(next, Cmd(c), l, files.sources.data)
    BY <1>1, <2>1, <2>2 DEF IsStored, Changing
  <2>5. Fits(next, Cmd(c), l, files.profiles.data, files.sources.data,
             history.dropped, history.kept)
    BY <2>2, <2>3, <2>4, FitsRead
  <2> QED BY <1>1, <1>3, <2>3, <2>5, GoesSet
<1> QED BY <1>1, <1>2, <1>3

LEMMA AgreeChecks ==
  ASSUME StoresInv, NEW c \in Procs, Stage(c), CheckStores(c)
  PROVE  Goes(c)
<1>1. /\ Processes /\ Same /\ cli[c].pc = "checkStores"
      /\ Return(c, "failed") \/ Goto(c, "snapshot")
  BY DEF StoresInv, CheckStores, At, Same
<1>2. /\ IsStored(cli[c].pc, Cmd(c), Loc(c), files.sources.data)
      /\ Agree(files.profiles.data, files.sources.data, history.dropped, history.kept)
  BY <1>1, AgreesNow
<1>3. IsStored("snapshot", Cmd(c), Loc(c), files.sources.data)
  BY <1>1, <1>2 DEF IsStored, Changing
<1> QED BY <1>1, <1>2, <1>3, GoesReturn, GoesGoto

\* A command is about to write one store, and then done with it: the stores will
\* agree then.
LEMMA FitsLast ==
  ASSUME NEW cmd, NEW l, NEW P, NEW S, NEW dropped, NEW kept, Agree(P, S, dropped, kept)
  PROVE  Fits("ok", cmd, l, P, S, dropped, kept)
BY FitsRead DEF IsStored, Changing, Requesting

LEMMA AgreeAdds ==
  ASSUME StoresInv, NEW c \in Procs, Stage(c), AddProfiles(c)
  PROVE  Goes(c)
<1> DEFINE P == files.profiles.data
           added == {Loc(c).given[i] : i \in DOMAIN Loc(c).given}
<1>1. /\ Processes /\ Same /\ cli[c].pc = "addProfiles"
      /\ \/ Return(c, "failed")
         \/ /\ WillSave(c, "profiles", P \cup added, "ok", {})
            /\ Ids(Loc(c).given) \cap Named(P) = {}
  BY DEF StoresInv, AddProfiles, At, Same, NewToStore
<1>2. CASE Return(c, "failed")
  BY <1>1, <1>2, GoesReturn
<1>3. CASE /\ WillSave(c, "profiles", P \cup added, "ok", {})
           /\ Ids(Loc(c).given) \cap Named(P) = {}
  <2>1. Cmd(c).name = "add" /\ Good(Loc(c).given, Sources \ {"subscription"})
    BY <1>1, ReadyNow DEF Ready
  <2>2. \A p \in added : p.source # "subscription"
    BY <2>1 DEF Good
  <2>3. Dropped(c) = history.dropped /\ Kept(c) = history.kept
    BY <2>1 DEF Dropped, Kept
  <2>4. Agree(P, files.sources.data, history.dropped, history.kept)
    BY <1>1, AgreesNow
  <2>5. Named(added) \cap Named(P) = {}
    BY <1>3 DEF Named, Ids
  <2> HIDE DEF added, P
  <2>6. Fits("ok", Cmd(c), Loc(c), P \cup added, files.sources.data, Dropped(c), Kept(c))
    BY <2>2, <2>3, <2>4, <2>5, AgreeAdded, FitsLast
  <2> QED BY <1>1, <1>3, <2>6, GoesSave
<1> QED BY <1>1, <1>2, <1>3

LEMMA AgreeDrops ==
  ASSUME StoresInv, NEW c \in Procs, Stage(c), DeleteProfile(c)
  PROVE  Goes(c)
<1> DEFINE P == files.profiles.data
           next == Without(P, {Cmd(c).id})
<1>1. /\ Processes /\ Same /\ cli[c].pc = "deleteProfile"
      /\ Return(c, "failed") \/ WillSave(c, "profiles", next, "ok", {})
  BY DEF StoresInv, DeleteProfile, At, Same
<1>2. CASE Return(c, "failed")
  BY <1>1, <1>2, GoesReturn
<1>3. CASE WillSave(c, "profiles", next, "ok", {})
  <2>1. Cmd(c).name = "profile delete"
    BY <1>1, ReadyNow DEF Ready
  <2>2. Dropped(c) = history.dropped \cup {Cmd(c).id} /\ Kept(c) = history.kept
    BY <2>1 DEF Dropped, Kept
  <2>3. Agree(P, files.sources.data, history.dropped, history.kept)
    BY <1>1, AgreesNow
  <2>4. Agree(next, files.sources.data, Dropped(c), Kept(c))
    <3>1. Agree(next, files.sources.data, history.dropped \cup {Cmd(c).id}, history.kept)
      BY <2>3, AgreeDropped
    <3> HIDE DEF next
    <3> QED BY <2>2, <3>1
  <2> HIDE DEF next
  <2>5. Fits("ok", Cmd(c), Loc(c), next, files.sources.data, Dropped(c), Kept(c))
    BY <2>4, FitsLast
  <2> QED BY <1>1, <1>3, <2>5, GoesSave
<1> QED BY <1>1, <1>2, <1>3

LEMMA AgreeSubscribes ==
  ASSUME StoresInv, NEW c \in Procs, Stage(c), AddSource(c)
  PROVE  Goes(c)
<1> DEFINE P == files.profiles.data
           s == Source(c)
           next == files.sources.data \cup {s}
           after == IF Cmd(c).name = "import" THEN "snapshot" ELSE "ok"
<1>1. /\ Processes /\ Same /\ cli[c].pc = "addSource"
      /\ Return(c, "failed") \/ WillSave(c, "sources", next, after, {})
  BY DEF StoresInv, AddSource, At, Same
<1>2. CASE Return(c, "failed")
  BY <1>1, <1>2, GoesReturn
<1>3. CASE WillSave(c, "sources", next, after, {})
  <2>1. Cmd(c).name \in {"subscribe", "import"}
    BY <1>1, ReadyNow DEF Ready
  <2>2. Dropped(c) = history.dropped /\ Kept(c) = history.kept
    BY <2>1 DEF Dropped, Kept
  <2>3. Agree(P, files.sources.data, history.dropped, history.kept)
    BY <1>1, AgreesNow
  <2>4. s.links = {} /\ Loc(c).source = {s}
    BY <1>1, <2>1, SourceNow
  <2>5. Agree(P, next, history.dropped, history.kept)
    BY <2>3, <2>4, AgreeNewSource
  <2>6. IsStored(after, Cmd(c), Loc(c), next)
    BY <2>4 DEF IsStored
  <2>7. after \in {"snapshot", "ok"}
    OBVIOUS
  <2> HIDE DEF next, after
  <2>8. Fits(after, Cmd(c), Loc(c), P, next, Dropped(c), Kept(c))
    BY <2>2, <2>5, <2>6, <2>7, FitsRead
  <2> QED BY <1>1, <1>3, <2>8, GoesSave
<1> QED BY <1>1, <1>2, <1>3

LEMMA AgreeLinks ==
  ASSUME StoresInv, NEW c \in Procs, Stage(c), UpdateSource(c)
  PROVE  Goes(c)
<1> DEFINE P == files.profiles.data
           S == files.sources.data
           s == [Source(c) EXCEPT !.links = Ids(Loc(c).given)]
           next == Without(S, {s.id}) \cup {s}
<1>1. /\ Processes /\ Same /\ cli[c].pc = "updateSource"
      /\ Rollback(c, Stores) \/ WillSave(c, "sources", next, "ok", Stores)
  BY DEF StoresInv, UpdateSource, At, Same
<1>2. CASE Rollback(c, Stores)
  BY <1>1, <1>2, GoesRollback
<1>3. CASE WillSave(c, "sources", next, "ok", Stores)
  <2>1. Cmd(c).name \in {"import", "update"}
    BY <1>1, ReadyNow DEF Ready
  <2>2. Dropped(c) = history.dropped /\ Kept(c) = history.kept
    BY <2>1 DEF Dropped, Kept
  <2>3. Loc(c).source = {Source(c)} /\ IsSource(Source(c))
    BY <1>1, SourceNow DEF Changing
  <2>4. Agree(P, Intended("updateSource", Cmd(c), Loc(c), S), history.dropped, history.kept)
    BY <1>1, FitsNow DEF Fits
  <2>5. next = Intended("updateSource", Cmd(c), Loc(c), S)
    <3>1. s.id = Source(c).id
      BY <2>3, LinkedSource
    <3>2. Named(Loc(c).source) = {s.id}
      BY <2>3, <3>1 DEF Named
    <3>3. {[r EXCEPT !.links = Ids(Loc(c).given)] : r \in Loc(c).source} = {s}
      BY <2>3
    <3> HIDE DEF s
    <3> QED BY <3>2, <3>3 DEF Intended
  <2> HIDE DEF next
  <2>6. Fits("ok", Cmd(c), Loc(c), P, next, Dropped(c), Kept(c))
    BY <2>2, <2>4, <2>5, FitsLast
  <2> QED BY <1>1, <1>3, <2>6, GoesSave
<1> QED BY <1>1, <1>2, <1>3

LEMMA AgreeReplaces ==
  ASSUME StoresInv, NEW c \in Procs, Stage(c), ReplaceSubscriptionProfiles(c)
  PROVE  Goes(c)
<1> DEFINE P == files.profiles.data
           S == files.sources.data
           given == Loc(c).given
           A == {given[i] : i \in DOMAIN given}
           next == Without(P, Owned(c)) \cup A
           undo == IF Cmd(c).name = "import" THEN Stores ELSE {"profiles"}
<1>1. /\ Processes /\ Same /\ cli[c].pc = "replace"
      /\ Rollback(c, undo) \/ (~Collides(c) /\ WillSave(c, "profiles", next, "updateSource", undo))
  BY DEF StoresInv, ReplaceSubscriptionProfiles, At, Same
<1> HIDE DEF undo
<1>2. CASE Rollback(c, undo)
  BY <1>1, <1>2, GoesRollback
<1>3. CASE ~Collides(c) /\ WillSave(c, "profiles", next, "updateSource", undo)
  <2> DEFINE r == [Source(c) EXCEPT !.links = Ids(given)]
  <2>1. Cmd(c).name \in {"import", "update"}
    BY <1>1, ReadyNow DEF Ready
  <2>2. Dropped(c) = history.dropped /\ Kept(c) = history.kept
    BY <2>1 DEF Dropped, Kept
  <2>3. /\ Loc(c).source = {Source(c)} /\ IsSource(Source(c))
        /\ Cmd(c).name = "import" => Source(c).links = {}
    BY <1>1, SourceNow DEF Changing
  <2>4. Owned(c) = Source(c).links
    BY <2>1, <2>3 DEF Owned, Previous
  <2>5. IsStored("replace", Cmd(c), Loc(c), S) /\ Agree(P, S, history.dropped, history.kept)
    BY <1>1, AgreesNow
  <2>6. IsCopy(Source(c), S)
    BY <1>1, <2>5, CopyNow DEF Changing
  <2>7. Named(A) = Ids(given)
    BY DEF Named, Ids
  <2>8. r.links = Named(A)
    <3>1. r.links = Ids(given)
      BY <2>3, LinkedSource
    <3> QED BY <2>7, <3>1
  <2>9. Named(A) \cap (Named(P) \ Source(c).links) = {}
    <3>1. Ids(given) \cap (Named(P) \ Owned(c)) = {}
      BY <1>3 DEF Collides
    <3> QED BY <2>4, <2>7, <3>1
  <2>10. Intended("updateSource", Cmd(c), Loc(c), S) = Without(S, {Source(c).id}) \cup {r}
    <3>1. Named(Loc(c).source) = {Source(c).id}
      BY <2>3 DEF Named
    <3>2. {[s EXCEPT !.links = Ids(Loc(c).given)] : s \in Loc(c).source} = {r}
      BY <2>3
    <3> HIDE DEF r
    <3> QED BY <3>1, <3>2 DEF Intended
  <2>11. next = Without(P, Source(c).links) \cup A
    BY <2>4
  <2>16. Numbered => Different(A)
    <3>1. NamesApart(given)
      BY <1>1, ReadyNow DEF Ready
    <3> QED BY <3>1 DEF NamesApart, Different
  <2> HIDE DEF A, r
  <2>12. Agree(Without(P, Source(c).links) \cup A, Without(S, {Source(c).id}) \cup {r},
               history.dropped, history.kept)
    BY <2>5, <2>6, <2>8, <2>9, <2>16, AgreeRefreshed
  <2>13. IsStored("updateSource", Cmd(c), Loc(c), S)
    BY <2>5 DEF IsStored, Changing
  <2> HIDE DEF next
  <2>14. Agree(next, Intended("updateSource", Cmd(c), Loc(c), S), history.dropped,
               history.kept)
    BY <2>10, <2>11, <2>12
  <2>15. Fits("updateSource", Cmd(c), Loc(c), next, S, Dropped(c), Kept(c))
    BY <2>2, <2>13, <2>14 DEF Fits
  <2> QED BY <1>1, <1>3, <2>15, GoesSave
<1> QED BY <1>1, <1>2, <1>3

LEMMA AgreeDeletesProfiles ==
  ASSUME StoresInv, NEW c \in Procs, Stage(c), DeleteSubscriptionProfiles(c)
  PROVE  Goes(c)
<1> DEFINE P == files.profiles.data
           S == files.sources.data
           removed == OwnedBy(Source(c))
<1>1. /\ Processes /\ Same /\ cli[c].pc = "dropProfiles"
      /\ \/ Return(c, "failed")
         \/ (Source(c).links = {} \/ removed = {}) /\ Goto(c, "deleteSource")
         \/ WillSave(c, "profiles", P \ removed, "deleteSource", {})
  BY DEF StoresInv, DeleteSubscriptionProfiles, At, Same
<1>2. Cmd(c).name = "delete" /\ ~Cmd(c).keep
  BY <1>1, ReadyNow DEF Ready
<1>3. Dropped(c) = history.dropped /\ Kept(c) = history.kept
  BY <1>2 DEF Dropped, Kept
<1>4. Loc(c).source = {Source(c)}
  BY <1>1, SourceNow DEF Changing
<1>5. IsStored("dropProfiles", Cmd(c), Loc(c), S) /\ Agree(P, S, history.dropped, history.kept)
  BY <1>1, AgreesNow
<1>6. IsCopy(Source(c), S)
  BY <1>1, <1>5, CopyNow DEF Changing
<1>7. IsStored("deleteSource", Cmd(c), Loc(c), S)
  BY <1>5 DEF IsStored, Changing
<1>8. Intended("deleteSource", Cmd(c), Loc(c), S) = Without(S, {Source(c).id})
  BY <1>2, <1>4 DEF Intended, Named
<1>9. ASSUME NEW Q \in SUBSET P, \A p \in P \ Q : p \in removed,
             Source(c).links = {} \/ \A p \in Q : p \notin removed
      PROVE  Fits("deleteSource", Cmd(c), Loc(c), Q, S, history.dropped, history.kept)
  <2>1. \A p \in P \ Q : p.id \in Source(c).links
    BY <1>9 DEF OwnedBy
  <2>2. \A p \in Q : ~(p.source = "subscription" /\ p.id \in Source(c).links)
    BY <1>9 DEF OwnedBy
  <2>3. Agree(Q, Without(S, {Source(c).id}), history.dropped, history.kept)
    BY <1>5, <1>6, <2>1, <2>2, AgreeDeleted
  <2> QED BY <1>7, <1>8, <2>3 DEF Fits
<1>10. CASE Return(c, "failed")
  BY <1>1, <1>10, GoesReturn
<1>11. CASE (Source(c).links = {} \/ removed = {}) /\ Goto(c, "deleteSource")
  <2>1. Fits("deleteSource", Cmd(c), Loc(c), P, S, history.dropped, history.kept)
    BY <1>9, <1>11
  <2>2. Fits("deleteSource", Cmd(c), Loc(c), files'.profiles.data, files'.sources.data,
             history'.dropped, history'.kept)
    BY <1>1, <2>1 DEF Same
  <2> QED BY <1>1, <1>11, <2>2, GoesSet DEF Goto
<1>12. CASE WillSave(c, "profiles", P \ removed, "deleteSource", {})
  <2>1. Fits("deleteSource", Cmd(c), Loc(c), P \ removed, S, history.dropped, history.kept)
    BY <1>9
  <2> DEFINE next == P \ removed
  <2>3. /\ WillSave(c, "profiles", next, "deleteSource", {})
        /\ Fits("deleteSource", Cmd(c), Loc(c), next, S, Dropped(c), Kept(c))
    BY <1>3, <1>12, <2>1
  <2> HIDE DEF next, removed
  <2> QED BY <1>1, <2>3, GoesSave
<1> QED BY <1>1, <1>10, <1>11, <1>12

LEMMA AgreeDeletesSource ==
  ASSUME StoresInv, NEW c \in Procs, Stage(c), DeleteSource(c)
  PROVE  Goes(c)
<1> DEFINE P == files.profiles.data
           S == files.sources.data
           undo == IF Cmd(c).keep THEN {} ELSE {"profiles"}
           next == Without(S, {Source(c).id})
<1>1. /\ Processes /\ Same /\ cli[c].pc = "deleteSource"
      /\ Rollback(c, undo) \/ WillSave(c, "sources", next, "ok", undo)
  BY DEF StoresInv, DeleteSource, At, Same
<1> HIDE DEF undo
<1>2. CASE Rollback(c, undo)
  BY <1>1, <1>2, GoesRollback
<1>3. CASE WillSave(c, "sources", next, "ok", undo)
  <2>1. Cmd(c).name = "delete"
    BY <1>1, ReadyNow DEF Ready
  <2>2. Loc(c).source = {Source(c)}
    BY <1>1, SourceNow DEF Changing
  <2>3. /\ IsStored("deleteSource", Cmd(c), Loc(c), S)
        /\ Agree(P, Intended("deleteSource", Cmd(c), Loc(c), S), history.dropped, history.kept)
    BY <1>1, FitsNow DEF Fits
  <2>4. Agree(P, next, Dropped(c), Kept(c))
    <3>1. CASE Cmd(c).keep
      <4>1. IsCopy(Source(c), S)
        BY <1>1, <2>3, CopyNow DEF Changing
      <4>2. Agree(P, S, history.dropped, history.kept)
        BY <2>3, <3>1 DEF Intended
      <4>3. Agree(P, next, history.dropped, history.kept \cup Source(c).links)
        BY <4>1, <4>2, AgreeKept
      <4>4. Dropped(c) = history.dropped /\ Kept(c) = history.kept \cup Source(c).links
        BY <2>1, <3>1 DEF Dropped, Kept
      <4> HIDE DEF next
      <4> QED BY <4>3, <4>4
    <3>2. CASE ~Cmd(c).keep
      <4>1. Intended("deleteSource", Cmd(c), Loc(c), S) = next
        BY <2>2, <3>2 DEF Intended, Named
      <4>2. Dropped(c) = history.dropped /\ Kept(c) = history.kept
        BY <2>1, <3>2 DEF Dropped, Kept
      <4> HIDE DEF next
      <4> QED BY <2>3, <4>1, <4>2
    <3> QED BY <3>1, <3>2
  <2> HIDE DEF next
  <2>5. Fits("ok", Cmd(c), Loc(c), P, next, Dropped(c), Kept(c))
    BY <2>4, FitsLast
  <2> QED BY <1>1, <1>3, <2>5, GoesSave
<1> QED BY <1>1, <1>2, <1>3
-----------------------------------------------------------------------------
(* What a command takes out of profiles.json.                              *)

\* A command proposes to take out of profiles.json only what it may.
LEMMA ProposesSave ==
  ASSUME StoresInv, NEW c \in Procs, UNCHANGED files, NEW f, NEW next, NEW after, NEW undo,
         WillSave(c, f, next, after, undo),
         (f = "profiles" /\ Cmd(c).name \in {"import", "update", "delete"})
           => \A p \in files.profiles.data \ next :
                /\ p.id \in Source(c).links
                /\ Cmd(c).name # "import"
                /\ Cmd(c).name = "delete" => p.source = "subscription"
  PROVE  Proposes(c)'
<1>1. /\ cli'[c].pc = "save" /\ cli'[c].cmd = cli[c].cmd
      /\ cli'[c].loc = [target |-> f, next |-> next, after |-> after, undo |-> undo,
                        given |-> Loc(c).given, source |-> Loc(c).source,
                        snapshot |-> Loc(c).snapshot]
  BY WillSaveMakes
<1>2. cli'[c].loc.target = f /\ cli'[c].loc.next = next /\ cli'[c].loc.source = Loc(c).source
  BY <1>1
<1>3. Source(c)' = Source(c)
  BY <1>2 DEF Source, Loc
<1> QED BY <1>1, <1>2, <1>3 DEF Proposes, At, Loc, Cmd

\* Nothing is about to be written after a command has returned, begun or gone on
\* to put something back.
Saves(c) == cli'[c].pc = "save"

LEMMA ReturnSavesNot ==
  ASSUME Processes, NEW c \in Procs, NEW result \in {"idle", "ok", "failed"},
         Return(c, result)
  PROVE  ~Saves(c)
BY ReturnGoes DEF Saves

LEMMA SetSavesNot ==
  ASSUME Processes, NEW c \in Procs, NEW label, label # "save", NEW l, Set(c, label, l)
  PROVE  ~Saves(c)
BY SetGoes DEF Saves

LEMMA RollbackSavesNot ==
  ASSUME Processes, NEW c \in Procs, NEW undo, Rollback(c, undo)
  PROVE  ~Saves(c)
BY ReturnSavesNot, SetSavesNot DEF Rollback

LEMMA ProposesReplacement ==
  ASSUME StoresInv, NEW c \in Procs, ReplaceSubscriptionProfiles(c),
         Saves(c)
  PROVE  Proposes(c)'
<1> DEFINE P == files.profiles.data
           next == Without(P, Owned(c))
                     \cup {Loc(c).given[i] : i \in DOMAIN Loc(c).given}
           undo == IF Cmd(c).name = "import" THEN Stores ELSE {"profiles"}
<1>1. /\ Processes /\ UNCHANGED files /\ cli[c].pc = "replace"
      /\ Rollback(c, undo) \/ WillSave(c, "profiles", next, "updateSource", undo)
  BY DEF StoresInv, ReplaceSubscriptionProfiles, At
<1> HIDE DEF undo
<1>2. ~Rollback(c, undo)
  BY <1>1, RollbackSavesNot
<1>3. Cmd(c).name \in {"import", "update"}
  BY <1>1, ReadyNow DEF Ready
<1>4. \A p \in P \ next : p.id \in Owned(c)
  BY DEF Without
<1>5. Owned(c) = {} \/ (Owned(c) = Source(c).links /\ Cmd(c).name # "import")
  BY DEF Owned, Previous
<1> HIDE DEF next
<1> QED BY <1>1, <1>2, <1>3, <1>4, <1>5, ProposesSave

LEMMA ProposesDeletion ==
  ASSUME StoresInv, NEW c \in Procs, DeleteSubscriptionProfiles(c), Saves(c)
  PROVE  Proposes(c)'
<1> DEFINE P == files.profiles.data
           next == P \ OwnedBy(Source(c))
<1>1. /\ Processes /\ UNCHANGED files /\ cli[c].pc = "dropProfiles"
      /\ \/ Return(c, "failed")
         \/ Goto(c, "deleteSource")
         \/ WillSave(c, "profiles", next, "deleteSource", {})
  BY DEF StoresInv, DeleteSubscriptionProfiles, At
<1>2. WillSave(c, "profiles", next, "deleteSource", {})
  BY <1>1, ReturnSavesNot, SetSavesNot DEF Goto
<1>3. Cmd(c).name = "delete"
  BY <1>1, ReadyNow DEF Ready
<1>4. \A p \in P \ next : p.id \in Source(c).links /\ p.source = "subscription"
  BY DEF OwnedBy
<1> HIDE DEF next
<1> QED BY <1>1, <1>2, <1>3, <1>4, ProposesSave

LEMMA ProposesElse ==
  ASSUME StoresInv, NEW c \in Procs, Saves(c),
         AddProfiles(c) \/ DeleteProfile(c) \/ AddSource(c) \/ UpdateSource(c) \/ DeleteSource(c)
  PROVE  Proposes(c)'
<1>1. Processes /\ UNCHANGED files
  BY DEF StoresInv, AddProfiles, DeleteProfile, AddSource, UpdateSource, DeleteSource
<1>2. \/ Return(c, "failed") \/ \E undo : Rollback(c, undo)
      \/ /\ Cmd(c).name \in {"add", "profile delete"}
         /\ \E next : WillSave(c, "profiles", next, "ok", {})
      \/ \E next, after, undo : WillSave(c, "sources", next, after, undo)
  <2>1. Ready(cli[c].pc, Cmd(c), Loc(c))
    BY ReadyNow
  <2> QED BY <2>1 DEF AddProfiles, DeleteProfile, AddSource, UpdateSource, DeleteSource,
                      Ready, At
<1>3. ~Return(c, "failed") /\ ~\E undo : Rollback(c, undo)
  BY <1>1, ReturnSavesNot, RollbackSavesNot
<1> QED BY <1>1, <1>2, <1>3, ProposesSave

\* Every other step goes on without a write, or starts.
LEMMA ProposesStep ==
  ASSUME StoresInv, NEW c \in Procs, BeginsNow(c) \/ GoesOn(c)
  PROVE  Proposes(c)'
<1>1. Processes
  BY DEF StoresInv
<1> SUFFICES ASSUME Saves(c) PROVE Proposes(c)'
  BY DEF Proposes, At, Saves
<1>2. ~BeginsNow(c)
  <2>1. ASSUME NEW cmd, NEW label, NEW l, Starts(c, cmd, label, l) PROVE FALSE
    BY <1>1, <2>1 DEF Starts, Begin, Processes, Saves
  <2> QED BY <2>1, CommandStarts
<1>3. ~Fetch(c)
  <2>1. ASSUME Fetch(c) PROVE FALSE
    <3>1. ~Return(c, "failed")
      BY <1>1, ReturnSavesNot
    <3>2. PICK ps, s :
            Set(c, IF Cmd(c).name = "import" THEN "addSource" ELSE "snapshot",
                Fetched(Loc(c), ps, {s}, FetchReads))
      BY <2>1, <3>1, FetchMakes
    <3> QED BY <1>1, <3>2, SetSavesNot
  <2> QED BY <2>1
<1>4. ~(\/ Refused(c) \/ CheckStores(c) \/ ClientIDStep(c) \/ GetSource(c)
        \/ TakeSnapshot(c) \/ Restore(c) \/ Rewrite(c) \/ Crash(c) \/ Save(c))
  <2>1. ASSUME \/ Return(c, "failed") \/ Return(c, "idle") \/ Return(c, "ok")
               \/ \E undo : Rollback(c, undo)
               \/ \E label, l : label # "save" /\ Set(c, label, l)
        PROVE  FALSE
    BY <1>1, <2>1, ReturnSavesNot, SetSavesNot, RollbackSavesNot
  <2>2. ~Save(c)
    <3>1. ASSUME Save(c) PROVE FALSE
      <4>1. At(c, "save")
        BY <3>1 DEF Save
      <4>2. Loc(c).after # "save"
        BY <1>1, <4>1 DEF Processes, IsProcess, MaySave, At, Loc
      <4>3. Continue(c) \/ Rollback(c, Loc(c).undo)
        BY <3>1 DEF Save
      <4> QED BY <2>1, <4>2, <4>3 DEF Continue, Goto
    <3> QED BY <3>1
  <2>3. ~(Refused(c) \/ Crash(c) \/ ClientIDStep(c) \/ CheckStores(c))
    BY <2>1 DEF Refused, CheckStores, ClientIDStep, ReadClientID, RetryClientID,
                CreateClientID, WriteClientID, SyncClientID, UseClientID, Crash, Goto
  <2>4. ~(Restore(c) \/ Rewrite(c))
    BY <2>1 DEF Restore, Rewrite, Undone, Goto
  <2>5. ~GetSource(c)
    BY <2>1 DEF GetSource
  <2>6. ~TakeSnapshot(c)
    BY <2>1 DEF TakeSnapshot
  <2> QED BY <2>2, <2>3, <2>4, <2>5, <2>6
<1> QED BY <1>2, <1>3, <1>4, ProposesReplacement, ProposesDeletion, ProposesElse DEF GoesOn

-----------------------------------------------------------------------------
(* The steps that write a store or put one back.                           *)

LEMMA AgreeSaves ==
  ASSUME StoresInv, NEW c \in Procs, Stage(c), Save(c), ~history'.unsynced,
         Apart(files.sources.data, history.dropped)
  PROVE  Goes(c) /\ Apart(files'.sources.data, history'.dropped)
<1> DEFINE f == Loc(c).target
           P == After(c, "profiles")
           S == After(c, "sources")
<1>1. /\ Processes /\ DOMAIN files = Stores /\ IsHistory
      /\ At(c, "save") /\ MaySave(Cmd(c), Loc(c))
  BY DEF StoresInv, Files, Processes, IsProcess, Save, At, Cmd, Loc
<1>2. CASE Rollback(c, Loc(c).undo) /\ UNCHANGED <<files, history>>
  BY <1>1, <1>2, GoesRollback
<1>3. CASE /\ files' = [files EXCEPT ![f] = Holds(Loc(c).next)]
           /\ Continue(c) /\ history' = Saved(c)
  <2>1. files'.profiles.data = P /\ files'.sources.data = S
    BY <1>1, <1>3 DEF Stores, Holds, After
  <2>2. history'.dropped = Dropped(c) /\ history'.kept = Kept(c)
    BY <1>1, <1>3 DEF Saved, Dropped, Kept, IsHistory
  <2>3. Fits(Loc(c).after, Cmd(c), Loc(c), P, S, Dropped(c), Kept(c))
    BY <1>1 DEF Stage
  <2> HIDE DEF P, S
  <2>4. Fits(Loc(c).after, Cmd(c), Loc(c), files'.profiles.data, files'.sources.data,
             history'.dropped, history'.kept)
    BY <2>1, <2>2, <2>3
  <2>5. Apart(files'.sources.data, history'.dropped)
    <3>1. CASE f = "sources"
      <4>1. Loc(c).after \notin {"updateSource", "deleteSource"}
        BY <1>1, <3>1 DEF MaySave, Leads
      <4> QED BY <2>4, <4>1, FitsRead DEF Agree
    <3>2. CASE f = "profiles"
      <4>1. files'.sources.data = files.sources.data
        BY <2>1, <3>2 DEF After, S
      <4> QED BY <2>2, <4>1 DEF Apart, Dropped
    <3> QED BY <1>1, <3>1, <3>2 DEF MaySave, Stores
  <2>6. Goes(c)
    <3>1. CASE Loc(c).after = "ok"
      <4>1. Return(c, "ok")
        BY <1>3, <3>1 DEF Continue
      <4>2. cli'[c].pc = "ok"
        BY <1>1, <4>1, ReturnGoes
      <4>3. Agreed'
        BY <2>4, <3>1, FitsRead DEF Agreed
      <4> QED BY <4>2, <4>3 DEF Goes, Running, At
    <3>2. CASE Loc(c).after # "ok"
      <4>1. Goto(c, Loc(c).after) /\ Loc(c).after \notin {"ok", "idle", "save"}
        BY <1>1, <1>3, <3>2 DEF Continue, MaySave
      <4> QED BY <1>1, <2>4, <4>1, GoesSet DEF Goto
    <3> QED BY <3>1, <3>2
  <2> QED BY <2>5, <2>6
<1>4. ~ history' = [Saved(c) EXCEPT !.unsynced = TRUE]
  BY <1>1 DEF Saved, IsHistory
<1> QED BY <1>2, <1>3, <1>4 DEF Save

LEMMA AgreeUndoes ==
  ASSUME StoresInv, NEW c \in Procs, Tracks(c), FoundAgreed(c), Restore(c) \/ Rewrite(c),
         IsFunction, Apart(files.sources.data, history.dropped)
  PROVE  Goes(c) /\ Apart(files'.sources.data, history'.dropped)
<1> DEFINE f == Undoing(c)
<1>1. Processes /\ IsHistory /\ DOMAIN files = Stores
  BY DEF StoresInv, Files
<1>2. Goes(c)
  BY <1>1, GoesRollback, GoesSet DEF Restore, Rewrite, Undone, Goto
<1>3. PICK f0 \in cli[c].before : Found(c, f0)
  BY DEF Tracks
<1>4. Snapshot(c, f) = f0[f]
  BY <1>3, PutsBackFound DEF Restore, Rewrite
<1>5. history'.dropped = history.dropped
  BY <1>1 DEF Restore, Rewrite, IsHistory
<1>6. \E file \in {files[f], NoFile, Torn, f0[f]} : files' = [files EXCEPT ![f] = file]
  <2>1. files = [files EXCEPT ![f] = files[f]]
    BY DEF IsFunction
  <2> QED BY <1>4, <2>1 DEF Restore, Rewrite
<1>7. \A file \in {files.sources, NoFile, Torn, f0.sources} : Apart(file.data, history.dropped)
  BY <1>3 DEF FoundAgreed, Agree, Apart, NoFile, Torn
<1>8. Apart(files'.sources.data, history.dropped)
  BY <1>1, <1>6, <1>7 DEF Stores
<1> QED BY <1>2, <1>5, <1>8

-----------------------------------------------------------------------------
(* The invariant, and what follows from it.                                *)

LEMMA AgreeGoesOn ==
  ASSUME StoresInv, NEW c \in Procs, GoesOn(c), Stage(c), FoundAgreed(c), Tracks(c),
         IsFunction, Sound', Apart(files.sources.data, history.dropped)
  PROVE  Goes(c) /\ Apart(files'.sources.data, history'.dropped)
<1>1. Processes /\ IsHistory
  BY DEF StoresInv
<1>2. CASE Save(c)
  BY <1>2, AgreeSaves DEF Sound
<1>3. CASE Restore(c) \/ Rewrite(c)
  BY <1>3, AgreeUndoes
<1>4. CASE ~(Save(c) \/ Restore(c) \/ Rewrite(c))
  <2>1. Goes(c)
    BY <1>4, AgreeReturns, AgreeAdds, AgreeDrops, AgreeSubscribes, AgreeChecks,
       AgreeDeletesProfiles, AgreeClientID, AgreeReads, AgreeFetch, AgreeSnapshot,
       AgreeReplaces, AgreeLinks, AgreeDeletesSource DEF GoesOn
  <2>2. UNCHANGED files
    BY <1>4 DEF GoesOn, Refused, AddProfiles, DeleteProfile, AddSource, CheckStores,
                DeleteSubscriptionProfiles, ClientIDStep, ReadClientID, RetryClientID,
                CreateClientID, WriteClientID, SyncClientID, GetSource, Fetch,
                TakeSnapshot, ReplaceSubscriptionProfiles, UpdateSource, DeleteSource, Crash
  <2>3. history'.dropped = history.dropped
    BY <1>1, <1>4 DEF GoesOn, Refused, AddProfiles, DeleteProfile, AddSource, CheckStores,
                DeleteSubscriptionProfiles, ClientIDStep, ReadClientID, RetryClientID,
                CreateClientID, WriteClientID, SyncClientID, GetSource, Fetch, UseClientID,
                TakeSnapshot, ReplaceSubscriptionProfiles, UpdateSource, DeleteSource, Crash,
                IsHistory
  <2> QED BY <2>1, <2>2, <2>3
<1> QED BY <1>2, <1>3, <1>4

\* What the user has deleted and what a deletion has left only grows.
LEMMA HistoryGrows ==
  ASSUME StoresInv, NEW c \in Procs, GoesOn(c)
  PROVE  /\ history.dropped \subseteq history'.dropped /\ history.kept \subseteq history'.kept
         /\ Faultless' => Faultless
<1>1. IsHistory
  BY DEF StoresInv
<1>2. \/ UNCHANGED history
      \/ \E ids : history' = [history EXCEPT !.ids = ids]
      \/ \E unsynced : history' = [history EXCEPT !.unsynced = unsynced] /\ unsynced
      \/ Save(c) \/ Restore(c) \/ Rewrite(c) \/ Crash(c)
  BY DEF GoesOn, Refused, AddProfiles, DeleteProfile, AddSource, CheckStores,
         DeleteSubscriptionProfiles, ClientIDStep, ReadClientID, RetryClientID,
         CreateClientID, WriteClientID, SyncClientID, GetSource, Fetch, UseClientID,
         TakeSnapshot, ReplaceSubscriptionProfiles, UpdateSource, DeleteSource
<1>3. CASE Save(c)
  <2>1. \/ UNCHANGED history \/ history' = Saved(c)
        \/ history' = [Saved(c) EXCEPT !.unsynced = TRUE]
    BY <1>3, Zenon DEF Save
  <2>2. /\ history.dropped \subseteq Saved(c).dropped /\ history.kept \subseteq Saved(c).kept
        /\ Saved(c).crashed = history.crashed /\ Saved(c).unsynced = history.unsynced
        /\ Saved(c).unrestored = history.unrestored
    BY <1>1 DEF Saved, IsHistory
  <2>3. CASE history' = [Saved(c) EXCEPT !.unsynced = TRUE]
    <3>1. /\ history'.dropped = Saved(c).dropped /\ history'.kept = Saved(c).kept
          /\ history'.unsynced
      BY <1>1, <2>3 DEF Saved, IsHistory
    <3> QED
      BY <2>2, <3>1 DEF Faultless
  <2> QED
    BY <2>1, <2>2, <2>3 DEF Faultless
<1>4. CASE Restore(c) \/ Rewrite(c) \/ Crash(c)
  BY <1>1, <1>4 DEF Restore, Rewrite, Crash, IsHistory, Faultless
<1> QED BY <1>1, <1>2, <1>3, <1>4 DEF IsHistory, Faultless

\* A command that begins finds stores that agree.
LEMMA AgreeBegins ==
  ASSUME StoresInv, NEW c \in Procs, BeginsNow(c), history'.alone, AgreeInv
  PROVE  /\ history.alone /\ Same /\ (Faultless' => Faultless)
         /\ Faultless => Stage(c)' /\ FoundAgreed(c)'
<1>1. PICK cmd, label, l : Starts(c, cmd, label, l)
  BY CommandStarts
<1>2. Processes /\ IsHistory
  BY DEF StoresInv
<1>3. /\ history.alone /\ Same /\ (Faultless' => Faultless) /\ Quiet
  BY <1>1, <1>2 DEF Starts, Begin, IsHistory, Same, Faultless, Quiet
<1>4. /\ cli'[c].pc = label /\ cli'[c].cmd = cmd /\ cli'[c].loc = l
      /\ cli'[c].before = {files}
  BY <1>1, <1>2, <1>3 DEF Starts, Begin, Processes, Quiet
<1>5. ASSUME Faultless
      PROVE  Stage(c)' /\ FoundAgreed(c)'
  <2>1. Agree(files.profiles.data, files.sources.data, history.dropped, history.kept)
    BY <1>3, <1>5 DEF AgreeInv, Agreed
  <2>2. Agree(files'.profiles.data, files'.sources.data, history'.dropped, history'.kept)
    BY <1>3, <2>1 DEF Same
  <2>3. IsStored(label, cmd, l, files'.sources.data)
    BY <1>1 DEF Starts, IsStored, Changing, Requesting
  <2>4. Fits(label, cmd, l, files'.profiles.data, files'.sources.data,
             history'.dropped, history'.kept)
    BY <1>1, <2>2, <2>3, FitsRead DEF Starts
  <2>5. Stage(c)'
    BY <1>1, <1>4, <2>4 DEF Stage, Starts, At, Cmd, Loc
  <2>6. FoundAgreed(c)'
    BY <1>3, <1>4, <2>2 DEF FoundAgreed, Same
  <2> QED BY <2>5, <2>6
<1> QED BY <1>3, <1>5

\* A command returns or goes on, and keeps what it has found.
LEMMA SetKeepsBefore ==
  ASSUME Processes, NEW c \in Procs, NEW label, NEW l, Set(c, label, l)
  PROVE  cli'[c].before = cli[c].before
<1>1. cli'[c] = [pc |-> label, cmd |-> cli[c].cmd, loc |-> l, before |-> cli[c].before]
  BY SetMakes
<1> QED BY <1>1

LEMMA ReturnStops ==
  ASSUME Processes, NEW c \in Procs, NEW result \in {"idle", "ok", "failed"},
         Return(c, result)
  PROVE  ~Running(c)'
BY ReturnGoes DEF Running

LEMMA RollbackKeepsBefore ==
  ASSUME Processes, NEW c \in Procs, NEW undo, Rollback(c, undo)
  PROVE  Running(c)' => cli'[c].before = cli[c].before
BY SetKeepsBefore, ReturnStops DEF Rollback

LEMMA BeforeKept ==
  ASSUME StoresInv, NEW c \in Procs, GoesOn(c)
  PROVE  Running(c)' => cli'[c].before = cli[c].before
<1>1. Processes
  BY DEF StoresInv
<1> SUFFICES ASSUME Running(c)', cli'[c].before # cli[c].before PROVE FALSE
  OBVIOUS
<1>2. /\ \A result \in {"idle", "ok", "failed"} : ~Return(c, result)
      /\ \A undo : ~Rollback(c, undo)
      /\ \A label, l : ~Set(c, label, l)
  BY <1>1, SetKeepsBefore, ReturnStops, RollbackKeepsBefore
<1>3. /\ \A label : ~Goto(c, label)
      /\ \A f, next, after, undo : ~WillSave(c, f, next, after, undo)
  BY <1>2 DEF Goto, WillSave
<1>4. ~(Refused(c) \/ CheckStores(c) \/ ClientIDStep(c) \/ Crash(c) \/ AddProfiles(c)
        \/ DeleteProfile(c) \/ AddSource(c))
  BY <1>2, <1>3 DEF Refused, CheckStores, ClientIDStep, ReadClientID, RetryClientID,
     CreateClientID, WriteClientID, SyncClientID, UseClientID, Crash, AddProfiles,
     DeleteProfile, AddSource
<1>5. ~(Save(c) \/ Restore(c) \/ Rewrite(c))
  BY <1>2, <1>3 DEF Save, Continue, Restore, Rewrite, Undone
<1>6. ~(ReplaceSubscriptionProfiles(c) \/ UpdateSource(c) \/ DeleteSource(c)
        \/ DeleteSubscriptionProfiles(c))
  BY <1>2, <1>3 DEF ReplaceSubscriptionProfiles, UpdateSource, DeleteSource,
     DeleteSubscriptionProfiles
<1>7. ~(GetSource(c) \/ TakeSnapshot(c))
  BY <1>2 DEF GetSource, TakeSnapshot
<1>8. ~Fetch(c)
  BY <1>2, FetchMakes
<1> QED BY <1>4, <1>5, <1>6, <1>7, <1>8 DEF GoesOn

LEMMA AgreeStep == StoresInv /\ UndoInv /\ UndoInv' /\ AgreeInv /\ [Next]_vars => AgreeInv'
<1> SUFFICES ASSUME StoresInv, UndoInv, UndoInv', AgreeInv, [Next]_vars, history'.alone
             PROVE  /\ \A c \in Procs : Proposes(c)'
                    /\ Faultless' =>
                         /\ Apart(files'.sources.data, history'.dropped)
                         /\ (Quiet => Agreed)'
                         /\ \A c \in Procs : (Running(c) => Stage(c) /\ FoundAgreed(c))'
  BY DEF AgreeInv
<1>1. CASE UNCHANGED vars
  BY <1>1 DEF vars, AgreeInv, Faultless, Quiet, Agreed, Running, Proposes, Stage, At, Cmd,
              Loc, Source, Dropped, Kept, After, FoundAgreed
<1>2. ASSUME NEW c \in Procs, BeginsNow(c) \/ GoesOn(c)
      PROVE  \A d \in Procs : Proposes(d)'
  <2>1. Only(c) /\ Running(c)' => \A d \in Procs \ {c} : ~Running(d)'
    BY DEF UndoInv, OneRuns
  <2>2. Proposes(c)'
    BY <1>2, ProposesStep
  <2>3. \A d \in Procs \ {c} : ~Running(d)'
    <3>1. CASE BeginsNow(c)
      BY <3>1, BeginsAlone DEF Only, Running
    <3>2. CASE GoesOn(c)
      BY <3>2, GoesOnAlone DEF UndoInv, OneRuns, Only, Running
    <3> QED BY <1>2, <3>1, <3>2
  <2>4. \A d \in Procs : ~Running(d)' => Proposes(d)'
    BY DEF Proposes, Running, At
  <2> QED BY <2>2, <2>3, <2>4
<1>3. ASSUME NEW c \in Procs, BeginsNow(c), Faultless'
      PROVE  /\ Apart(files'.sources.data, history'.dropped)
             /\ (Quiet => Agreed)'
             /\ \A d \in Procs : (Running(d) => Stage(d) /\ FoundAgreed(d))'
  <2>1. /\ history.alone /\ Same /\ Faultless
        /\ Stage(c)' /\ FoundAgreed(c)'
    BY <1>3, AgreeBegins
  <2>2. Quiet /\ \A d \in Procs \ {c} : ~Running(d)'
    BY <1>3, BeginsAlone DEF Only, Running, Quiet
  <2>3. Apart(files'.sources.data, history'.dropped) /\ Agreed'
    BY <2>1, <2>2 DEF AgreeInv, Agreed, Same
  <2> QED BY <2>1, <2>2, <2>3
<1>4. ASSUME NEW c \in Procs, GoesOn(c), Faultless'
      PROVE  /\ Apart(files'.sources.data, history'.dropped)
             /\ (Quiet => Agreed)'
             /\ \A d \in Procs : (Running(d) => Stage(d) /\ FoundAgreed(d))'
  <2>1. /\ history.alone /\ Running(c) /\ Faultless /\ Sound' /\ Sound
        /\ \A d \in Procs \ {c} : ~Running(d)'
        /\ history.dropped \subseteq history'.dropped /\ history.kept \subseteq history'.kept
    BY <1>4, GoesOnAlone, HistoryGrows DEF UndoInv, OneRuns, Only, Running, Faultless, Sound
  <2>2. /\ Tracks(c) /\ IsFunction /\ IsFunction' /\ Stage(c) /\ FoundAgreed(c)
        /\ Apart(files.sources.data, history.dropped)
    BY <2>1 DEF UndoInv, AgreeInv
  <2>3. Goes(c) /\ Apart(files'.sources.data, history'.dropped)
    BY <1>4, <2>1, <2>2, AgreeGoesOn
  <2>4. Honest(c)
    BY <1>4, <2>1, <2>2, GoesOnHonest
  <2>5. \A f0 \in cli[c].before :
          Agree(f0.profiles.data, f0.sources.data, history'.dropped, history'.kept)
    BY <2>1, <2>2, AgreeMore DEF FoundAgreed
  <2>6. Running(c)' => FoundAgreed(c)'
    BY <1>4, <2>5, BeforeKept DEF FoundAgreed
  <2>7. ~Running(c)' => Agreed'
    <3>1. CASE cli'[c].pc = "ok" \/ cli'[c].pc = "idle"
      BY <1>4, <2>3, <3>1 DEF Goes, At, Faultless
    <3>2. CASE cli'[c].pc = "failed"
      <4>1. cli[c].before = {files'}
        BY <2>4, <3>2 DEF Honest, Running
      <4> QED BY <2>5, <4>1 DEF Agreed
    <3> QED BY <3>1, <3>2 DEF Running
  <2> QED BY <1>4, <2>1, <2>3, <2>6, <2>7 DEF Goes, Quiet
<1> QED BY <1>1, <1>2, <1>3, <1>4, NextSplit

LEMMA AgreeInit == Init => AgreeInv
<1> SUFFICES ASSUME Init PROVE AgreeInv
  OBVIOUS
<1>1. /\ files.profiles.data = {} /\ files.sources.data = {}
      /\ \A c \in Procs : cli[c].pc = "idle"
  BY DEF Init, Stores, NoFile, Idle
<1> QED BY <1>1 DEF AgreeInv, Agreed, Agree, Linked, Apart, Claimed, Told, Proposes, Running, At

\* The invariant that the properties of what the stores say of each other are
\* read off: between commands they agree, and a command that runs alone is about to
\* make them agree again.
THEOREM AgreeInvAlways == Spec => []AgreeInv
<1>1. Init => AgreeInv
  BY AgreeInit
<1>2. Spec => [](StoresInv /\ UndoInv)
  BY StoresInit, StoresStep, UndoInit, UndoStep, PTL DEF Spec
<1>3. (StoresInv /\ UndoInv) /\ (StoresInv /\ UndoInv)' /\ AgreeInv /\ [Next]_vars => AgreeInv'
  BY AgreeStep
<1> QED BY <1>1, <1>2, <1>3, PTL DEF Spec

\* No profile belongs to two subscriptions unless the user has deleted it from
\* under the first, whatever the servers send (ReplaceSubscriptionProfiles).
THEOREM OwnedOnceAlways == Spec => []OwnedOnce
<1>1. AgreeInv => OwnedOnce
  BY DEF AgreeInv, OwnedOnce, Apart
<1> QED BY <1>1, AgreeInvAlways, PTL

\* Between commands every link points to a profile that is stored.
THEOREM LinkedProfilesStoredAlways == Spec => []LinkedProfilesStored
<1>1. AgreeInv => LinkedProfilesStored
  BY DEF AgreeInv, LinkedProfilesStored, Settled, Agreed, Agree, Linked
<1> QED BY <1>1, AgreeInvAlways, PTL

\* ... and no profile of a subscription is left behind.
THEOREM NoOrphansAlways == Spec => []NoOrphans
<1>1. AgreeInv => NoOrphans
  BY DEF AgreeInv, NoOrphans, Settled, Agreed, Agree, Claimed
<1> QED BY <1>1, AgreeInvAlways, PTL

\* The profiles of a subscription have different names, whatever names the
\* server sends (deduplicateDisplayNames, applyWrapperName): this needs that two
\* numbers are never written alike, which is all that is assumed of ToString.
THEOREM NamesDistinctAlways == ASSUME Numbered PROVE Spec => []NamesDistinct
<1>1. AgreeInv => NamesDistinct
  <2> SUFFICES ASSUME AgreeInv, Settled, NEW s \in files.sources.data,
                      NEW i \in (s.links \cap Named(files.profiles.data)) \ history.dropped,
                      NEW j \in (s.links \cap Named(files.profiles.data)) \ history.dropped,
                      i # j
               PROVE  NameKey(Profile(i).name) # NameKey(Profile(j).name)
    BY DEF NamesDistinct
  <2> DEFINE own == Of(s, files.profiles.data, history.dropped)
  <2>1. Different(own)
    BY DEF AgreeInv, Settled, Agreed, Agree, Told
  <2>2. \A id \in Named(files.profiles.data) :
          Profile(id) \in files.profiles.data /\ Profile(id).id = id
    BY DEF Named, Profile
  <2>3. /\ Profile(i) \in own /\ Profile(j) \in own
        /\ Profile(i).id = i /\ Profile(j).id = j
    BY <2>2 DEF Of
  <2> QED BY <2>1, <2>3 DEF Different
<1> QED BY <1>1, AgreeInvAlways, PTL

\* A refresh and a deletion take only profiles that their source links, and a
\* deletion only those of subscriptions.
THEOREM OthersProfilesStayAlways == Spec => OthersProfilesStay
<1> DEFINE Stays(c) ==
      (At(c, "save") /\ Loc(c).target = "profiles" /\ history.alone
         /\ Cmd(c).name \in {"import", "update", "delete"})
        => \A p \in files.profiles.data \ files'.profiles.data :
             /\ p.id \in Source(c).links
             /\ Cmd(c).name # "import"
             /\ Cmd(c).name = "delete" => p.source = "subscription"
<1>1. ASSUME StoresInv, UndoInv, AgreeInv, [Next]_vars, NEW c \in Procs
      PROVE  Stays(c)
  <2> SUFFICES ASSUME At(c, "save"), Loc(c).target = "profiles", history.alone,
                      Cmd(c).name \in {"import", "update", "delete"}
               PROVE  \A p \in files.profiles.data \ files'.profiles.data :
                        /\ p.id \in Source(c).links
                        /\ Cmd(c).name # "import"
                        /\ Cmd(c).name = "delete" => p.source = "subscription"
    OBVIOUS
  <2>1. \A p \in files.profiles.data \ Loc(c).next :
          /\ p.id \in Source(c).links
          /\ Cmd(c).name # "import"
          /\ Cmd(c).name = "delete" => p.source = "subscription"
    BY <1>1 DEF AgreeInv, Proposes
  <2>2. CASE UNCHANGED vars
    BY <2>2 DEF vars
  <2>3. CASE ~UNCHANGED vars
    <3>1. PICK d \in Procs : BeginsNow(d) \/ GoesOn(d)
      BY <1>1, <2>3, NextSplit
    <3>2. CASE BeginsNow(d)
      <4>1. PICK cmd, label, l : Starts(d, cmd, label, l)
        BY <3>2, CommandStarts
      <4> QED BY <4>1 DEF Starts, Begin
    <3>3. CASE GoesOn(d)
      <4>1. d = c
        BY <1>1, <3>3, GoesOnAlone DEF UndoInv, OneRuns, Running, At
      <4>2. Save(c) \/ UNCHANGED files
        BY <3>3, <4>1 DEF GoesOn, Refused, AddProfiles, DeleteProfile, AddSource,
           CheckStores, DeleteSubscriptionProfiles, ClientIDStep, ReadClientID,
           RetryClientID, CreateClientID, WriteClientID, SyncClientID, GetSource, Fetch,
           TakeSnapshot, ReplaceSubscriptionProfiles, UpdateSource, DeleteSource, Crash,
           Restore, Rewrite, At, Requests
      <4>3. UNCHANGED files \/ files'.profiles.data = Loc(c).next
        BY <1>1, <4>2 DEF Save, Holds, StoresInv, Files, Stores
      <4> QED BY <2>1, <4>3
    <3> QED BY <3>1, <3>2, <3>3
  <2> QED BY <2>2, <2>3
<1>2. StoresInv /\ UndoInv /\ AgreeInv /\ [Next]_vars => \A c \in Procs : Stays(c)
  BY <1>1
<1>3. Spec => [](StoresInv /\ UndoInv)
  BY StoresInit, StoresStep, UndoInit, UndoStep, PTL DEF Spec
<1> QED BY <1>2, <1>3, AgreeInvAlways, PTL DEF Spec, OthersProfilesStay
=============================================================================

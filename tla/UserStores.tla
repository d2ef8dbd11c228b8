----------------------------- MODULE UserStores -----------------------------
(***************************************************************************)
(* The files of a user, profiles.json, subscriptions.json and client-id,   *)
(* and the podlaz processes that change them: `profile add | import |      *)
(* delete`, `import`, and `subscription add | update | delete`.  There is  *)
(* no lock: a process loads a file, computes, and writes it back, and      *)
(* another one may run between any two of these steps.  A refresh changes  *)
(* both files one after the other, and puts back what it had read before   *)
(* when one of them fails.                                                 *)
(***************************************************************************)
EXTENDS Imports

CONSTANTS
  Procs,   \* the processes of a behaviour; each runs one command after another
  Worlds   \* by name: what users ask for and what servers send, with the bounds

ASSUME StoresAssumption ==
  /\ Procs # {}
  /\ \A w \in DOMAIN Worlds : Worlds[w].commands \in Nat /\ Worlds[w].faults \in Nat

\* What files hold and servers send, and the name of a link, is made of lists.
ASSUME ContentsAssumption ==
  \A w \in DOMAIN Worlds :
    /\ \A link \in Worlds[w].links : IsLink(link)
    /\ \A content \in Worlds[w].local : IsContent(content)
    /\ \A url \in DOMAIN Worlds[w].feeds : \A content \in Worlds[w].feeds[url] :
         IsContent(content)

VARIABLES
  world,     \* the name of the world this behaviour is in
  files,     \* profiles.json and subscriptions.json
  clientID,  \* client-id
  cli,       \* the processes
  budget,    \* bounds: the commands and the faults that may still come
  history    \* what only the properties read

vars == <<world, files, clientID, cli, budget, history>>

-----------------------------------------------------------------------------
(* Data.  A store holds a set: the code sorts it by id before it writes.   *)

Stores   == {"profiles", "sources"}
NoFile   == [state |-> "absent", data |-> {}]
Torn     == [state |-> "torn", data |-> {}]
Holds(S) == [state |-> "ok", data |-> S]

\* client-id: an id is the process that made it and when.
NoClientID == [state |-> "absent", id |-> <<>>]
NewFile    == [state |-> "empty", id |-> <<>>]

Named(S)  == {x.id : x \in S}
Unique(S) == Cardinality(Named(S)) = Cardinality(S)
Without(S, ids) == {x \in S : x.id \notin ids}

\* A URL is known by its scheme, its host and the last part of its path.
ValidURL(url) == /\ url.scheme \in {"file", "http", "https"}
                 /\ url.scheme # "file" => url.host # ""
FallbackSourceName(url) ==
  LET words == SelectSeq(<<url.host, url.base>>,
                         LAMBDA w : w # "" /\ w \notin UnsafeTexts)
  IN  IF words = <<>> THEN <<"subscription">> ELSE words
ValidSource(s) == s.id # NoId /\ s.name # <<>> /\ ValidURL(s.url)
NewSource(name, url) ==
  LET n == IF name = <<>> THEN FallbackSourceName(url) ELSE name
  IN  [id |-> NormalizeID(n), name |-> n, url |-> url, links |-> {}]

\* The first name the provider offers that is safe to show; only a source
\* that has kept its fallback id takes it.
ProviderSourceName(content) ==
  LET offered == content.header \o
                   (IF content.shape = "object" THEN <<content.name>> ELSE <<>>)
      safe == SelectSeq(offered, LAMBDA n : ~unsafeDisplayName(n))
  IN  IF safe = <<>> THEN <<>> ELSE Head(safe)
RefreshProviderDisplayName(s, name) ==
  IF name = <<>> \/ s.id # NormalizeID(FallbackSourceName(s.url)) THEN s
  ELSE [s EXCEPT !.name = name]

LoadsProfiles == /\ files.profiles.state # "torn" /\ Unique(files.profiles.data)
                 /\ \A p \in files.profiles.data : Valid(p)
LoadsSources  == /\ files.sources.state # "torn" /\ Unique(files.sources.data)
                 /\ \A s \in files.sources.data : ValidSource(s)

\* The local variables of a process: the store it is about to write, what it
\* writes and where it goes then, what it puts back if it fails, the profiles
\* it has fetched or been given, the source, and the snapshots of the stores.
NoCommand == [name |-> "none"]
NoLocal == [target |-> "none", next |-> {}, after |-> "none", undo |-> {},
            given |-> <<>>, source |-> {}, snapshot |-> {}]
Idle == [pc |-> "idle", cmd |-> NoCommand, loc |-> NoLocal, before |-> {}]

World == Worlds[world]
Init ==
  /\ world \in DOMAIN Worlds
  /\ files = [f \in Stores |-> NoFile] /\ clientID = NoClientID
  /\ cli = [c \in Procs |-> Idle]
  /\ budget = [commands |-> World.commands, faults |-> World.faults]
  /\ history = [alone |-> TRUE, crashed |-> FALSE, unsynced |-> FALSE,
                unrestored |-> FALSE, kept |-> {}, dropped |-> {}, ids |-> {}]

Running(c)  == cli[c].pc \notin {"idle", "ok", "failed"}
At(c, label) == cli[c].pc = label
Loc(c) == cli[c].loc
Cmd(c) == cli[c].cmd
Source(c) == CHOOSE s \in Loc(c).source : TRUE
Set(c, pc, loc) == cli' = [cli EXCEPT ![c].pc = pc, ![c].loc = loc]
Goto(c, pc) == Set(c, pc, Loc(c))
Return(c, result) == cli' = [cli EXCEPT ![c] = [Idle EXCEPT !.pc = result]]
Fault == budget.faults > 0 /\ budget' = [budget EXCEPT !.faults = @ - 1]

-----------------------------------------------------------------------------
(* Writing and putting back a store.                                       *)

\* BUG: when both stores were written, only subscriptions.json is put back.
RollbackSourcesOnly(c, undo) ==
  LET rest == IF undo = Stores THEN {"sources"} ELSE undo
  IN  IF rest = {} THEN Return(c, "failed")
      ELSE Set(c, "restore", [Loc(c) EXCEPT !.undo = rest])
Rollback(c, undo) ==
  IF undo = {} THEN Return(c, "failed")
  ELSE Set(c, "restore", [Loc(c) EXCEPT !.undo = undo])

WillSave(c, f, next, after, undo) ==
  Set(c, "save", [Loc(c) EXCEPT !.target = f, !.next = next, !.after = after,
                                !.undo = undo])

Continue(c) == IF Loc(c).after = "ok" THEN Return(c, "ok") ELSE Goto(c, Loc(c).after)
Saved(c) ==
  [history EXCEPT
    !.dropped = @ \cup (IF Cmd(c).name = "profile delete" THEN {Cmd(c).id} ELSE {}),
    !.kept = @ \cup (IF Cmd(c).name = "delete" /\ Cmd(c).keep THEN Source(c).links
                     ELSE {})]

\* BUG: the file is written in place.
SaveInPlace(c) ==
  LET f == Loc(c).target IN
  /\ At(c, "save")
  /\ \/ /\ files' = [files EXCEPT ![f] = Holds(Loc(c).next)]
        /\ Continue(c) /\ history' = Saved(c)
        /\ UNCHANGED budget
     \/ /\ Fault /\ Rollback(c, Loc(c).undo)
        /\ files' = [files EXCEPT ![f] = Torn]
        /\ UNCHANGED history
  /\ UNCHANGED <<world, clientID>>

\* A temporary file is written, synced and renamed over the store, then the
\* directory is synced.  Until the rename an error leaves the store as it is.
Save(c) ==
  LET f == Loc(c).target IN
  /\ At(c, "save")
  /\ \/ /\ files' = [files EXCEPT ![f] = Holds(Loc(c).next)]
        /\ Continue(c) /\ history' = Saved(c)
        /\ UNCHANGED budget
     \/ /\ Fault /\ Rollback(c, Loc(c).undo)
        /\ UNCHANGED <<files, history>>
     \/ /\ Fault /\ Rollback(c, Loc(c).undo)
        /\ files' = [files EXCEPT ![f] = Holds(Loc(c).next)]
        /\ history' = [Saved(c) EXCEPT !.unsynced = TRUE]
  /\ UNCHANGED <<world, clientID>>

Snapshot(c, f) == (CHOOSE s \in Loc(c).snapshot : s.of = f).file
Undoing(c) == IF "profiles" \in Loc(c).undo THEN "profiles" ELSE "sources"
Undone(c) == Rollback(c, Loc(c).undo \ {Undoing(c)})

\* A store is put back by os.WriteFile, which truncates it first; one that was
\* not there is removed.  An error is reported and the next store put back.
Restore(c) ==
  LET f == Undoing(c) IN
  /\ At(c, "restore")
  /\ \/ /\ Snapshot(c, f).state = "absent"
        /\ files' = [files EXCEPT ![f] = NoFile]
        /\ Undone(c) /\ UNCHANGED <<budget, history>>
     \/ /\ Snapshot(c, f).state # "absent"
        /\ files' = [files EXCEPT ![f] = Torn]
        /\ Goto(c, "rewrite") /\ UNCHANGED <<budget, history>>
     \/ /\ Fault /\ Undone(c)
        /\ history' = [history EXCEPT !.unrestored = TRUE]
        /\ UNCHANGED files
  /\ UNCHANGED <<world, clientID>>

Rewrite(c) ==
  LET f == Undoing(c) IN
  /\ At(c, "rewrite")
  /\ Undone(c)
  /\ \/ /\ files' = [files EXCEPT ![f] = Snapshot(c, f)]
        /\ history' = [history EXCEPT !.unrestored = @ \/ Snapshot(c, f) = Torn]
        /\ UNCHANGED budget
     \/ /\ Fault
        /\ history' = [history EXCEPT !.unrestored = TRUE]
        /\ UNCHANGED files
  /\ UNCHANGED <<world, clientID>>

-----------------------------------------------------------------------------
(* Commands on profiles.                                                   *)

Begin(c, cmd, pc, loc) ==
  LET alone == history.alone /\ \A d \in Procs : ~Running(d)
  IN  /\ ~Running(c) /\ budget.commands > 0
      /\ World.overlap \/ \A d \in Procs : ~Running(d)
      /\ budget' = [budget EXCEPT !.commands = @ - 1]
      /\ cli' = [cli EXCEPT ![c] =
           [pc |-> pc, cmd |-> cmd, loc |-> loc,
            before |-> IF alone THEN {files} ELSE {}]]
      /\ history' = [history EXCEPT !.alone = alone]
      /\ UNCHANGED <<world, files, clientID>>

\* profile add, profile import and import of a local file: what they are given
\* is parsed before the store is opened.
Adds(c, given) ==
  Begin(c, [name |-> "add"], IF given = <<>> THEN "refused" ELSE "addProfiles",
        [NoLocal EXCEPT !.given = given])
ProfileAdd(c) ==
  \E m \in World.manual :
    Adds(c, OnlyValid(NewManual(m.name, m.server, m.port, m.protocol)))
ProfileImport(c) == \E link \in World.links : Adds(c, ImportShareURI(link))
LocalImport(c) ==
  \E content \in World.local : Adds(c, ImportLocalContent(content).profiles)
Refused(c) == /\ At(c, "refused") /\ Return(c, "failed")
              /\ UNCHANGED <<world, files, clientID, budget, history>>

NewToStore(given) == Distinct(given) /\ Ids(given) \cap Named(files.profiles.data) = {}

AddProfiles(c) ==
  LET given == Loc(c).given
      added == {given[i] : i \in DOMAIN given}
  IN  /\ At(c, "addProfiles")
      /\ IF LoadsProfiles /\ (\A p \in added : Valid(p)) /\ NewToStore(given)
           THEN WillSave(c, "profiles", files.profiles.data \cup added, "ok", {})
           ELSE Return(c, "failed")
      /\ UNCHANGED <<world, files, clientID, budget, history>>

ProfileDelete(c) ==
  \E id \in Named(files.profiles.data) :
    Begin(c, [name |-> "profile delete", id |-> id], "deleteProfile", NoLocal)
DeleteProfile(c) ==
  /\ At(c, "deleteProfile")
  /\ IF LoadsProfiles /\ Cmd(c).id \in Named(files.profiles.data)
       THEN WillSave(c, "profiles", Without(files.profiles.data, {Cmd(c).id}), "ok", {})
       ELSE Return(c, "failed")
  /\ UNCHANGED <<world, files, clientID, budget, history>>

-----------------------------------------------------------------------------
(* Commands on subscriptions.                                              *)

WithSourceOf(s) == [NoLocal EXCEPT !.source = {s}]
SubscriptionAdd(c) ==
  \E url \in DOMAIN World.feeds, name \in World.names :
    Begin(c, [name |-> "subscribe"], "addSource", WithSourceOf(NewSource(name, url)))
SubscriptionImport(c) ==
  \E url \in DOMAIN World.feeds :
    Begin(c, [name |-> "import"], "prepare", WithSourceOf(NewSource(<<>>, url)))
SubscriptionUpdate(c) ==
  \E id \in Named(files.sources.data) :
    Begin(c, [name |-> "update", id |-> id], "getSource", NoLocal)
SubscriptionDelete(c) ==
  \E id \in Named(files.sources.data), keep \in BOOLEAN :
    Begin(c, [name |-> "delete", id |-> id, keep |-> keep], "getSource", NoLocal)

GetSource(c) ==
  LET found == {s \in files.sources.data : s.id = Cmd(c).id}
      next  == IF Cmd(c).name = "update" THEN "prepare"
               ELSE IF Cmd(c).keep THEN "deleteSource" ELSE "checkStores"
  IN  /\ At(c, "getSource")
      /\ IF LoadsSources /\ found # {}
           THEN Set(c, next, [Loc(c) EXCEPT !.source = found])
           ELSE Return(c, "failed")
      /\ UNCHANGED <<world, files, clientID, budget, history>>

\* What the server or the file sends is parsed, and subscriptions.json read.
Fetch(c) ==
  LET s == Source(c) IN
  /\ At(c, "prepare") \/ At(c, "fetch")
  /\ At(c, "prepare") => s.url.scheme = "file" \/ ~ValidSource(s)
  /\ \E content \in UNION {World.feeds[u] : u \in {s.url} \cap DOMAIN World.feeds} :
       LET parsed == ParseSubscriptionContent(content)
           named  == RefreshProviderDisplayName(s, ProviderSourceName(content))
       IN  IF ValidSource(s) /\ parsed.ok
             THEN Set(c, IF Cmd(c).name = "import" THEN "addSource" ELSE "snapshot",
                      [Loc(c) EXCEPT !.given = parsed.profiles, !.source = {named},
                         !.snapshot = {[of |-> "sources", file |-> files.sources]}])
             ELSE Return(c, "failed")
  /\ UNCHANGED <<world, files, clientID, budget, history>>

AddSource(c) ==
  LET s == Source(c) IN
  /\ At(c, "addSource")
  /\ IF ValidSource(s) /\ LoadsSources /\ s.id \notin Named(files.sources.data)
       THEN WillSave(c, "sources", files.sources.data \cup {s},
                     IF Cmd(c).name = "import" THEN "snapshot" ELSE "ok", {})
       ELSE Return(c, "failed")
  /\ UNCHANGED <<world, files, clientID, budget, history>>

\* BUG: what was read is not kept.
SnapshotDropped(c) ==
  /\ At(c, "snapshot")
  /\ Goto(c, IF Cmd(c).name = "delete" THEN "dropProfiles" ELSE "replace")
  /\ UNCHANGED <<world, files, clientID, budget, history>>
TakeSnapshot(c) ==
  /\ At(c, "snapshot")
  /\ \/ /\ Set(c, IF Cmd(c).name = "delete" THEN "dropProfiles" ELSE "replace",
               [Loc(c) EXCEPT !.snapshot =
                  @ \cup {[of |-> "profiles", file |-> files.profiles]}])
        /\ UNCHANGED budget
     \/ /\ Fault
        /\ Rollback(c, IF Cmd(c).name = "import" THEN {"sources"} ELSE {})
  /\ UNCHANGED <<world, files, clientID, history>>

\* The profiles of a refresh replace those the source was linked to; none may
\* have the id of another profile.
Previous(c) == IF Cmd(c).name = "import" THEN {} ELSE Source(c).links
\* BUG: every profile of a subscription is taken for one of this source.
PreviousBySource(c) ==
  {p.id : p \in {q \in files.profiles.data : q.source = "subscription"}}
Owned(c) == Previous(c)
\* BUG: the new profiles are not compared with the others.
CollidesWithNone(c) == FALSE
Collides(c) ==
  Ids(Loc(c).given) \cap (Named(files.profiles.data) \ Owned(c)) # {}

ReplaceSubscriptionProfiles(c) ==
  LET given == Loc(c).given
      undo  == IF Cmd(c).name = "import" THEN Stores ELSE {"profiles"}
  IN  /\ At(c, "replace")
      /\ IF /\ LoadsProfiles /\ Distinct(given) /\ ~Collides(c)
            /\ \A i \in DOMAIN given : Valid(given[i]) /\ given[i].source = "subscription"
           THEN WillSave(c, "profiles",
                         Without(files.profiles.data, Owned(c))
                           \cup {given[i] : i \in DOMAIN given},
                         "updateSource", undo)
           ELSE Rollback(c, undo)
      /\ UNCHANGED <<world, files, clientID, budget, history>>

UpdateSource(c) ==
  LET s == [Source(c) EXCEPT !.links = Ids(Loc(c).given)] IN
  /\ At(c, "updateSource")
  /\ IF ValidSource(s) /\ LoadsSources /\ s.id \in Named(files.sources.data)
       THEN WillSave(c, "sources", Without(files.sources.data, {s.id}) \cup {s},
                     "ok", Stores)
       ELSE Rollback(c, Stores)
  /\ UNCHANGED <<world, files, clientID, budget, history>>

\* subscription delete first counts what it will leave, for its output.
CheckStores(c) ==
  /\ At(c, "checkStores")
  /\ IF LoadsSources /\ (Source(c).links # {} => LoadsProfiles)
       THEN Goto(c, "snapshot") ELSE Return(c, "failed")
  /\ UNCHANGED <<world, files, clientID, budget, history>>

\* BUG: what the source links is removed, whoever added it since.
LinkedTo(s) == {p \in files.profiles.data : p.id \in s.links}
OwnedBy(s) == {p \in files.profiles.data : p.id \in s.links /\ p.source = "subscription"}
DeleteSubscriptionProfiles(c) ==
  LET removed == OwnedBy(Source(c)) IN
  /\ At(c, "dropProfiles")
  /\ IF Source(c).links = {} THEN Goto(c, "deleteSource")
     ELSE IF ~LoadsProfiles THEN Return(c, "failed")
     ELSE IF removed = {} THEN Goto(c, "deleteSource")
     ELSE WillSave(c, "profiles", files.profiles.data \ removed, "deleteSource", {})
  /\ UNCHANGED <<world, files, clientID, budget, history>>

DeleteSource(c) ==
  LET undo == IF Cmd(c).keep THEN {} ELSE {"profiles"} IN
  /\ At(c, "deleteSource")
  /\ IF LoadsSources /\ Source(c).id \in Named(files.sources.data)
       THEN WillSave(c, "sources", Without(files.sources.data, {Source(c).id}),
                     "ok", undo)
       ELSE Rollback(c, undo)
  /\ UNCHANGED <<world, files, clientID, budget, history>>
-----------------------------------------------------------------------------
(* The client id, which every request to a server carries.  The first that  *)
(* needs it creates the file, which is empty until the id is written.       *)

Requests(c) == At(c, "prepare") /\ ValidSource(Source(c))
               /\ Source(c).url.scheme # "file"
UseClientID(c) == /\ Goto(c, "fetch")
                  /\ history' = [history EXCEPT !.ids = @ \cup {clientID.id}]

ReadClientID(c) ==
  /\ Requests(c)
  /\ \/ /\ clientID.state = "ok" /\ UseClientID(c)
     \/ /\ clientID.state = "empty" /\ Goto(c, "retryID") /\ UNCHANGED history
     \/ /\ clientID.state = "absent" /\ Goto(c, "createID") /\ UNCHANGED history
  /\ UNCHANGED <<world, files, clientID, budget>>

\* It is read up to 100 times, one millisecond apart.
RetryClientID(c) ==
  /\ At(c, "retryID")
  /\ IF clientID.state = "ok" THEN UseClientID(c)
     ELSE Return(c, "failed") /\ UNCHANGED history
  /\ UNCHANGED <<world, files, clientID, budget>>

\* BUG: a file that is there is opened and truncated.
CreateOverOther(c) ==
  /\ At(c, "createID")
  /\ clientID' = NewFile /\ Goto(c, "writeID")
  /\ UNCHANGED <<world, files, budget, history>>
CreateClientID(c) ==
  /\ At(c, "createID")
  /\ \/ /\ clientID.state = "absent"
        /\ clientID' = NewFile /\ Goto(c, "writeID")
        /\ UNCHANGED budget
     \/ /\ clientID.state # "absent"
        /\ Goto(c, "retryID") /\ UNCHANGED <<clientID, budget>>
     \/ /\ Fault /\ Return(c, "failed") /\ UNCHANGED clientID
  /\ UNCHANGED <<world, files, history>>

\* An error removes the file.
WriteClientID(c) ==
  /\ At(c, "writeID")
  /\ \/ /\ clientID' = [state |-> "ok", id |-> <<c, budget.commands>>]
        /\ Goto(c, "syncID") /\ UNCHANGED budget
     \/ /\ Fault /\ clientID' = NoClientID /\ Return(c, "failed")
  /\ UNCHANGED <<world, files, history>>

SyncClientID(c) ==
  /\ At(c, "syncID")
  /\ \/ UseClientID(c) /\ UNCHANGED <<clientID, budget>>
     \/ /\ Fault /\ clientID' = NoClientID /\ Return(c, "failed")
        /\ history' = [history EXCEPT !.unsynced = TRUE]
  /\ UNCHANGED <<world, files>>

-----------------------------------------------------------------------------
\* A process is killed.  Between a truncation and a write the store stays empty.
Crash(c) ==
  /\ Running(c) /\ Fault
  /\ Return(c, "idle")
  /\ history' = [history EXCEPT !.crashed = TRUE,
                                !.unrestored = @ \/ At(c, "rewrite")]
  /\ UNCHANGED <<world, files, clientID>>

Next ==
  \E c \in Procs :
    \/ ProfileAdd(c) \/ ProfileImport(c) \/ LocalImport(c) \/ Refused(c)
    \/ AddProfiles(c) \/ ProfileDelete(c) \/ DeleteProfile(c)
    \/ SubscriptionAdd(c) \/ SubscriptionImport(c) \/ SubscriptionUpdate(c)
    \/ SubscriptionDelete(c) \/ GetSource(c) \/ Fetch(c) \/ AddSource(c)
    \/ TakeSnapshot(c) \/ ReplaceSubscriptionProfiles(c) \/ UpdateSource(c)
    \/ CheckStores(c) \/ DeleteSubscriptionProfiles(c) \/ DeleteSource(c)
    \/ Save(c) \/ Restore(c) \/ Rewrite(c)
    \/ ReadClientID(c) \/ RetryClientID(c) \/ CreateClientID(c)
    \/ WriteClientID(c) \/ SyncClientID(c) \/ Crash(c)

Spec == Init /\ [][Next]_vars

-----------------------------------------------------------------------------
(* Properties.                                                             *)

Labels == {"idle", "ok", "failed", "refused", "addProfiles", "deleteProfile",
           "addSource", "prepare", "fetch", "getSource", "snapshot", "replace",
           "updateSource", "checkStores", "dropProfiles", "deleteSource", "save",
           "restore", "rewrite", "retryID", "createID", "writeID", "syncID"}

\* Every process is at a step of its command, and has read what it is about to
\* put back before it wrote anything over it.
TypeOK ==
  /\ \A f \in Stores : /\ files[f].state \in {"absent", "ok", "torn"}
                       /\ files[f].state # "ok" => files[f].data = {}
  /\ clientID.state \in {"absent", "empty", "ok"}
  /\ \A c \in Procs : /\ At(c, "save") => Loc(c).target \in Stores
                      /\ cli[c].pc \in Labels
                      /\ cli[c].pc \in {"save", "restore", "rewrite"} =>
                            Loc(c).undo \subseteq {s.of : s \in Loc(c).snapshot}
                      /\ Cardinality(Loc(c).source) <= 1
  /\ budget.commands \in 0..World.commands /\ budget.faults \in 0..World.faults

Faultless == ~history.crashed /\ ~history.unsynced /\ ~history.unrestored
Quiet     == \A c \in Procs : ~Running(c)
Settled   == Quiet /\ history.alone /\ Faultless
Profile(id) == CHOOSE p \in files.profiles.data : p.id = id

\* Both stores can be loaded: whatever commands overlap and wherever they fail
\* or are killed, a store is unreadable only while one is put back from a
\* snapshot, or since that was interrupted (profile.Store.load, sub.Store.load).
StoresReadable ==
  \/ LoadsProfiles /\ LoadsSources
  \/ history.unrestored
  \/ \E c \in Procs : At(c, "rewrite")

\* A command that fails while no other runs leaves both stores as it has found
\* them, even when it had written one: only the sync of a directory, reported
\* after the rename, and a failing restore change them
\* (rollbackSourceWorkflowState, runSubscriptionDelete).
FailedCommandChangesNothing ==
  [][\A c \in Procs :
       (Running(c) /\ cli'[c].pc = "failed" /\ cli[c].before # {} /\ history'.alone
          /\ ~history'.unsynced /\ ~history'.unrestored)
         => cli[c].before = {files'}]_vars

\* A refresh removes or changes only profiles that its source links, and a
\* deleted subscription takes no profile with it that another command has added
\* (ReplaceSubscriptionProfiles, DeleteSubscriptionProfiles).
OthersProfilesStay ==
  [][\A c \in Procs :
       (At(c, "save") /\ Loc(c).target = "profiles" /\ history.alone
          /\ Cmd(c).name \in {"import", "update", "delete"})
         => \A p \in files.profiles.data \ files'.profiles.data :
              /\ p.id \in Source(c).links
              /\ Cmd(c).name # "import"
              /\ Cmd(c).name = "delete" => p.source = "subscription"]_vars

\* No profile belongs to two subscriptions, unless the user has deleted it from
\* under the first; a refresh that is refused or whose write fails leaves no such
\* link either (the collision check of ReplaceSubscriptionProfiles).
OwnedOnce ==
  (history.alone /\ Faultless) =>
    \A s, t \in files.sources.data :
      s # t => s.links \cap t.links \subseteq history.dropped

\* What is stored for subscriptions and what the subscriptions link agree once
\* every command is done: no profile is left behind by a refresh, except those
\* that `delete --keep-profiles` leaves on purpose.
NoOrphans ==
  Settled =>
    \A p \in files.profiles.data : p.source = "subscription" =>
      \/ p.id \in history.kept
      \/ \E s \in files.sources.data : p.id \in s.links

\* ... and no link points to a profile that is not there, unless the user has
\* deleted that profile.
LinkedProfilesStored ==
  Settled => \A s \in files.sources.data :
               s.links \subseteq Named(files.profiles.data) \cup history.dropped

\* The profiles of a subscription can be told apart by their names, without
\* regard to case, whatever names the provider sends (deduplicateDisplayNames,
\* applyWrapperName).
NamesDistinct ==
  Settled => \A s \in files.sources.data :
    \A i, j \in (s.links \cap Named(files.profiles.data)) \ history.dropped :
      i # j => NameKey(Profile(i).name) # NameKey(Profile(j).name)

\* As long as a VLESS profile keeps its id, a refresh makes no difference to
\* what Xray is made to connect to (importedVLESSProfileID, GenerateXrayConfig):
\* the id that the user has chosen never comes to mean another server.
SameIdSameOutbound ==
  [][\A p \in files.profiles.data : \A q \in files'.profiles.data :
       (p.id = q.id /\ p.protocol = "vless" /\ p.source # "manual")
         => Outbound(p) = Outbound(q)]_vars

\* A stored profile that a TUN connection accepts also connects with the local
\* proxies only, the mode that users fall back to (ValidateXrayConnectProfile).
TunRunsProxyOnly ==
  \A p \in files.profiles.data :
    ValidateXrayConnectProfile(p, "tun") => ValidateXrayConnectProfile(p, "proxy-only")

\* Servers see one client id, whichever process has created it and whoever was
\* about to create another one, unless its sync has failed after it was read
\* (LoadOrCreateClientID).
OneClientId == Cardinality(history.ids) <= 1 \/ history.unsynced
=============================================================================

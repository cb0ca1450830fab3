---------------------------- MODULE ConfigStore ----------------------------
(* internal/config and the commands that save through it: hookspot          *)
(* processes that read a record, take their time, and write it back whole,  *)
(* beside each other and through crashes.                                   *)
EXTENDS FiniteSets

CONSTANTS
    Procs,              \* processes; each runs one command
    Projects, NoProject, NoKey,
    Seed,               \* the files that were there before
    Absent,             \* no file
    EnvironmentKey      \* HOOKSPOT_CLI_KEY is set

Paths == {"global", "local", "explicit"}
Inodes == Procs \cup {Seed}

ASSUME NamesAssumption ==
    /\ Seed \notin Procs /\ Absent \notin Inodes
    /\ NoProject \notin Projects /\ NoKey \notin Inodes
    /\ EnvironmentKey \in BOOLEAN

VARIABLES
    windows,    \* the build: it writes with write_windows.go, not with write_unix.go
    disk,       \* disk[path]: the inode of the file there; one is named after its writer
    older,      \* older[path]: what the directory, never synced, may still name on the disk
    data,       \* data[inode]: its record, and how much of it is written
    temps,      \* processes whose temporary file has its name
    pc, command, selection,
    target, source,   \* Store.path, and the path the record is read from
    seen,       \* the inode Lstat saw at it
    record, exists    \* Store.record and Store.exists

files == <<disk, older, data, temps>>
store == <<target, source, seen, record, exists>>
vars == <<windows, files, pc, command, selection, store>>

----------------------------------------------------------------------------
(* Records.  A process's key is named after it.                             *)

NewRecord == [key |-> NoKey, project |-> NoProject]

Stored(r, state) == [record |-> r, state |-> state]

\* SaveLogin's record.
LoginRecord(r, key, uid) ==
    [key |-> key, project |-> IF uid = NoProject THEN r.project ELSE uid]

\* The records a command may save.
Saves(p, r) ==
    CASE command[p] = "login" -> {[r EXCEPT !.key = p]}
      [] command[p] = "browser login" ->
            {LoginRecord(r, p, uid) : uid \in Projects \cup {NoProject}}
      [] command[p] = "logout" -> {[r EXCEPT !.key = NoKey]}
      [] command[p] = "use" -> {[r EXCEPT !.project = uid] : uid \in Projects}

At(p, place) == pc[p] = place
Goto(p, place) == pc' = [pc EXCEPT ![p] = place]

\* Only login may create a file named on the command line.
MayCreate(p) == command[p] \in {"login", "browser login"} \/ selection[p] # "explicit"

----------------------------------------------------------------------------
(* New: the choice of a path, and the record there.                         *)

Start(p, c, s) ==
    /\ At(p, "new")
    /\ s = "--local" => c = "use"
    /\ command' = [command EXCEPT ![p] = c]
    /\ selection' = [selection EXCEPT ![p] = s]
    /\ Goto(p, "select")
    /\ UNCHANGED <<files, store>>

\* selectPath, or newLocalStore's Lstat of the local file: a missing one is
\* seeded from the global record.
Select(p) ==
    /\ At(p, "select")
    /\ LET found == disk["local"] # Absent
           read == CASE selection[p] = "explicit" -> "explicit"
                     [] OTHER -> IF found THEN "local" ELSE "global"
       IN  /\ source' = [source EXCEPT ![p] = read]
           /\ target' = [target EXCEPT ![p] = IF selection[p] = "--local" THEN "local" ELSE read]
    /\ Goto(p, "inspect")
    /\ UNCHANGED <<files, command, selection, seen, record, exists>>

\* newStoreAt's Lstat.
Inspect(p) ==
    /\ At(p, "inspect")
    /\ seen' = [seen EXCEPT ![p] = disk[source[p]]]
    /\ Goto(p, IF disk[source[p]] # Absent THEN "open" ELSE IF MayCreate(p) THEN "run" ELSE "failed")
    /\ UNCHANGED <<files, command, selection, target, source, record, exists>>

\* A store newLocalStore seeds does not exist yet.
ReadExists(p) == source[p] = target[p]

\* openConfigFile refuses a file that was replaced since the Lstat.
Open(p) ==
    /\ At(p, "open")
    /\ \/ /\ disk[source[p]] = seen[p] /\ data[seen[p]].state \in {"written", "synced"}
          /\ record' = [record EXCEPT ![p] = data[seen[p]].record]
          /\ exists' = [exists EXCEPT ![p] = ReadExists(p)]
          /\ Goto(p, "run")
       \/ Goto(p, "failed") /\ UNCHANGED <<record, exists>>
    /\ UNCHANGED <<files, command, selection, target, source, seen>>

----------------------------------------------------------------------------
(* The command, which may wait minutes for a browser, and its save.         *)

NeedsKey(p) == command[p] = "use" /\ record[p].key = NoKey /\ ~ EnvironmentKey

NothingToClear(p) == command[p] = "logout" /\ (~ exists[p] \/ record[p].key = NoKey)

\* The command has nothing to save, or fails before it does: the folders are not
\* private, or anything before them.
Stop(p) ==
    /\ At(p, "run")
    /\ Goto(p, IF NothingToClear(p) THEN "done" ELSE "failed")
    /\ UNCHANGED <<files, command, selection, store>>

\* persist, through prepareConfigDirectory and validateConfigTarget's Lstat;
\* record is the one being saved from here.
Save(p) ==
    /\ At(p, "run") /\ ~ NeedsKey(p) /\ ~ NothingToClear(p)
    /\ \E r \in Saves(p, record[p]) : record' = [record EXCEPT ![p] = r]
    /\ Goto(p, "create")
    /\ UNCHANGED <<files, command, selection, target, source, seen, exists>>

\* writeFileAtomic: CreateTemp ...
CreateTemp(p) ==
    /\ At(p, "create")
    /\ temps' = temps \cup {p}
    /\ data' = [data EXCEPT ![p] = Stored(NewRecord, "empty")]
    /\ Goto(p, "write")
    /\ UNCHANGED <<disk, older, command, selection, store>>

Write(p) ==
    /\ At(p, "write")
    /\ data' = [data EXCEPT ![p] = Stored(record[p], "written")]
    /\ Goto(p, "sync")
    /\ UNCHANGED <<disk, older, temps, command, selection, store>>

\* Mutant: the temporary file is not synced.
SkipSync(p) ==
    /\ At(p, "sync")
    /\ Goto(p, "publish")
    /\ UNCHANGED <<files, command, selection, store>>

\* Sync and Close.
Sync(p) ==
    /\ At(p, "sync")
    /\ data' = [data EXCEPT ![p].state = "synced"]
    /\ Goto(p, "publish")
    /\ UNCHANGED <<disk, older, temps, command, selection, store>>

\* Mutant: a new file is renamed into place as well.
RenameAlways(p) == TRUE

\* A link refuses a file that is there by now; a rename replaces it.
MayPublish(p) == exists[p] \/ disk[target[p]] = Absent

Publish(p) ==
    /\ ~ windows
    /\ At(p, "publish") /\ MayPublish(p)
    /\ disk' = [disk EXCEPT ![target[p]] = p]
    /\ older' = [older EXCEPT ![target[p]] = @ \cup {disk[target[p]]}]
    /\ temps' = IF exists[p] THEN temps \ {p} ELSE temps
    /\ Goto(p, "cleanup")
    /\ UNCHANGED <<data, command, selection, store>>

\* Mutant: the move is not written through.
MoveLazily(p) ==
    /\ windows
    /\ At(p, "publish") /\ MayPublish(p)
    /\ disk' = [disk EXCEPT ![target[p]] = p]
    /\ older' = [older EXCEPT ![target[p]] = @ \cup {disk[target[p]]}]
    /\ temps' = temps \ {p}
    /\ Goto(p, "cleanup")
    /\ UNCHANGED <<data, command, selection, store>>

\* On Windows a new file is moved into place too, without MOVEFILE_REPLACE_EXISTING,
\* and the directory is on the disk before MoveFileEx returns.
Move(p) ==
    /\ windows
    /\ At(p, "publish") /\ MayPublish(p)
    /\ disk' = [disk EXCEPT ![target[p]] = p]
    /\ older' = [older EXCEPT ![target[p]] = {}]
    /\ temps' = temps \ {p}
    /\ Goto(p, "cleanup")
    /\ UNCHANGED <<data, command, selection, store>>

\* Mutant: an error after the publication is reported.
FailLate(p) ==
    /\ pc[p] \in {"create", "write", "sync", "publish", "cleanup"}
    /\ temps' = temps \ {p}
    /\ Goto(p, "failed")
    /\ UNCHANGED <<disk, older, data, command, selection, store>>

\* Any step of the save fails, also a link over a file that is there, and the
\* deferred Remove runs.  Its own error, which the code ignores, is left out: the
\* file it would leave is one that no command reads.
Fail(p) ==
    /\ pc[p] \in {"create", "write", "sync", "publish"}
    /\ temps' = temps \ {p}
    /\ Goto(p, "failed")
    /\ UNCHANGED <<disk, older, data, command, selection, store>>

\* The deferred Remove after a publication.
Cleanup(p) ==
    /\ At(p, "cleanup")
    /\ temps' = temps \ {p}
    /\ Goto(p, "done")
    /\ UNCHANGED <<disk, older, data, command, selection, store>>

----------------------------------------------------------------------------
(* Crashes.                                                                 *)

Ended == {"new", "done", "failed", "crashed"}

Crash(p) ==
    /\ pc[p] \notin Ended
    /\ Goto(p, "crashed")
    /\ UNCHANGED <<files, command, selection, store>>

\* The system gets round to writing a directory.
Flush(path) ==
    /\ older[path] # {}
    /\ older' = [older EXCEPT ![path] = {}]
    /\ UNCHANGED <<disk, data, temps, pc, command, selection, store>>

Survives(inode) ==
    IF data[inode].state = "written" THEN Stored(data[inode].record, "torn") ELSE data[inode]

\* The machine stops: processes end, what was not synced is lost in part, and a
\* directory may be an older one.
PowerLoss ==
    /\ \E p \in Procs : pc[p] # "new"
    /\ pc' = [p \in Procs |-> IF pc[p] \in Ended THEN pc[p] ELSE "crashed"]
    /\ data' = [inode \in Inodes |-> Survives(inode)]
    /\ \E after \in [Paths -> Inodes \cup {Absent}] :
          /\ \A path \in Paths : after[path] \in {disk[path]} \cup older[path]
          /\ disk' = after
    /\ older' = [path \in Paths |-> {}]
    /\ UNCHANGED <<temps, command, selection, store>>

Init ==
    /\ windows \in BOOLEAN
    /\ disk \in [Paths -> {Seed, Absent}]
    /\ older = [path \in Paths |-> {}]
    /\ \E k \in {Seed, NoKey}, uid \in Projects \cup {NoProject} :
          data = [inode \in Inodes |->
                    IF inode = Seed THEN Stored([key |-> k, project |-> uid], "synced")
                    ELSE Stored(NewRecord, "none")]
    /\ temps = {}
    /\ pc = [p \in Procs |-> "new"]
    /\ command = [p \in Procs |-> "none"] /\ selection = [p \in Procs |-> "none"]
    /\ target = [p \in Procs |-> "global"] /\ source = [p \in Procs |-> "global"]
    /\ seen = [p \in Procs |-> Absent]
    /\ record = [p \in Procs |-> NewRecord] /\ exists = [p \in Procs |-> FALSE]

Commands == {"login", "browser login", "logout", "use"}
Selections == {"default", "explicit", "--local"}

Step ==
    \/ \E p \in Procs :
          \/ \E c \in Commands, s \in Selections : Start(p, c, s)
          \/ Select(p) \/ Inspect(p) \/ Open(p)
          \/ Stop(p) \/ Save(p)
          \/ CreateTemp(p) \/ Write(p) \/ Sync(p) \/ Publish(p) \/ Move(p) \/ Cleanup(p)
          \/ Fail(p) \/ Crash(p)
    \/ \E path \in Paths : Flush(path)
    \/ PowerLoss

\* Every process on the machine is of one build.
Next == Step /\ UNCHANGED windows

Spec == Init /\ [][Next]_vars

----------------------------------------------------------------------------
(* Properties.                                                              *)

Record == [key : Inodes \cup {NoKey}, project : Projects \cup {NoProject}]

\* Every variable has its type, and a store that exists saves to the file it
\* was read from.
TypeOK ==
    /\ windows \in BOOLEAN
    /\ disk \in [Paths -> Inodes \cup {Absent}]
    /\ older \in [Paths -> SUBSET (Inodes \cup {Absent})]
    /\ data \in [Inodes -> [record : Record, state : {"none", "empty", "written", "synced", "torn"}]]
    /\ temps \subseteq Procs
    /\ pc \in [Procs -> Ended \cup {"select", "inspect", "open", "run", "create", "write", "sync",
                                    "publish", "cleanup"}]
    /\ command \in [Procs -> Commands \cup {"none"}]
    /\ selection \in [Procs -> Selections \cup {"none"}]
    /\ target \in [Procs -> Paths] /\ source \in [Procs -> Paths]
    /\ seen \in [Procs -> Inodes \cup {Absent}]
    /\ record \in [Procs -> Record] /\ exists \in [Procs -> BOOLEAN]
    /\ \A p \in Procs : exists[p] => source[p] = target[p] /\ seen[p] # Absent

\* A config file is one whole record, whoever crashed in the middle of a save
\* and however much of the disk a power loss took back.
ConfigIsNeverTorn ==
    \A path \in Paths : disk[path] # Absent => data[disk[path]].state \in {"written", "synced"}

Publishes(p) == \E path \in Paths : disk'[path] = p /\ disk[path] # p

\* A store that found no file never replaces one that appeared since.
CreatingNeverOverwrites ==
    [][\A p \in Procs : At(p, "publish") /\ Publishes(p) /\ ~ exists[p]
                          => disk[target[p]] = Absent]_vars

\* A command that reports a failure, or whose save never started, has changed
\* no config file; and a temporary file outlives its save only through a crash,
\* where the Remove of it does not fail.
FailedSavesLeaveNothing ==
    /\ \A p \in temps : pc[p] \in {"write", "sync", "publish", "cleanup", "crashed"}
    /\ \A p \in Procs : pc[p] \notin {"cleanup", "done", "crashed"} =>
        \A path \in Paths : p \notin {disk[path]} \cup older[path]

KeepsTheRest(p, before) ==
    /\ command[p] \in {"login", "logout"} => record[p].project = before.project
    /\ command[p] = "browser login" => record[p].project \in Projects \cup {before.project}
    /\ command[p] = "use" => record[p].key = before.key

\* A save that replaces the very file it read, or that makes a local copy of the
\* global one, keeps the field it does not own.
SavesOwnTheirField ==
    [][\A p \in Procs :
          /\ At(p, "publish") /\ Publishes(p) /\ seen[p] # Absent
          /\ exists[p] => disk[target[p]] = seen[p]
          => KeepsTheRest(p, data[seen[p]].record)]_vars

\* What a publication replaces is what its store had read, but for the one field
\* the command is about; where it had read nothing, it replaces nothing.
PublicationsAreSafe == CreatingNeverOverwrites /\ SavesOwnTheirField

\* On Windows what a save has put in place goes only to a later save: no power
\* loss takes it back.
SavesAreDurable ==
    [][\A p \in Procs, path \in Paths :
          windows /\ disk[path] = p /\ disk'[path] # p =>
              \E q \in Procs : At(q, "publish") /\ Publishes(q) /\ target[q] = path]_vars

\* "ClearCLIKey removes only the persisted key, preserving the project": the
\* project on the disk outlives a logout.
LogoutPreservesTheProject ==
    [][\A p \in Procs : command[p] = "logout" /\ At(p, "publish") /\ Publishes(p) =>
          record[p].project = data[disk[target[p]]].record.project]_vars
=============================================================================

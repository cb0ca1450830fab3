------------------------- MODULE ConfigStoreProofs -------------------------
(* For any number of processes and projects: what the files hold through    *)
(* failures, kills and power losses.                                        *)
EXTENDS ConfigStore, TLAPS

----------------------------------------------------------------------------
(* The inductive invariant.                                                 *)

\* A process that has put a file in place, or ended: it writes nothing more.
Left == {"cleanup", "done", "crashed"}

Saving == {"create", "write", "sync", "publish"}

\* What a process knows of the file it read.
ReadOK ==
    /\ \A p \in Procs : pc[p] # "new" => command[p] \in Commands
    /\ \A p \in Procs : At(p, "open") => seen[p] # Absent
    /\ \A p \in Procs : pc[p] \in {"new", "select", "inspect"} => ~ exists[p]
    /\ \A p \in Procs : seen[p] \in Procs => pc[seen[p]] \in Left

\* What a path names, and what it may be taken back to, is on the disk whole; so is
\* what is about to be published.
OnDisk(inode) == inode # Absent => data[inode].state = "synced"

SyncedOK ==
    /\ \A path \in Paths : \A inode \in {disk[path]} \cup older[path] : OnDisk(inode)
    /\ \A p \in Procs : At(p, "publish") => data[p].state = "synced"

\* A process that read a file holds that file's record until it saves, and then one
\* that differs in its own field.
KeptOK ==
    \A p \in Procs : seen[p] # Absent =>
        /\ At(p, "run") => record[p] = data[seen[p]].record
        /\ pc[p] \in Saving => KeepsTheRest(p, data[seen[p]].record)

\* On Windows no directory is behind.
ThroughOK == windows => \A path \in Paths : older[path] = {}

\* TypeOK in two parts, the files and the processes.
FilesOK ==
    /\ windows \in BOOLEAN
    /\ disk \in [Paths -> Inodes \cup {Absent}]
    /\ older \in [Paths -> SUBSET (Inodes \cup {Absent})]
    /\ data \in [Inodes -> [record : Record, state : {"none", "empty", "written", "synced", "torn"}]]
    /\ temps \subseteq Procs

ProcsOK ==
    /\ pc \in [Procs -> Ended \cup {"select", "inspect", "open", "run", "create", "write", "sync",
                                    "publish", "cleanup"}]
    /\ command \in [Procs -> Commands \cup {"none"}]
    /\ selection \in [Procs -> Selections \cup {"none"}]
    /\ target \in [Procs -> Paths] /\ source \in [Procs -> Paths]
    /\ seen \in [Procs -> Inodes \cup {Absent}]
    /\ record \in [Procs -> Record] /\ exists \in [Procs -> BOOLEAN]
    /\ \A p \in Procs : exists[p] => source[p] = target[p] /\ seen[p] # Absent

StoreInv == FilesOK /\ ProcsOK /\ ReadOK /\ FailedSavesLeaveNothing /\ SyncedOK /\ KeptOK /\ ThroughOK

LEMMA TypeParts == TypeOK <=> FilesOK /\ ProcsOK
BY DEF TypeOK, FilesOK, ProcsOK

----------------------------------------------------------------------------
(* The initial states and the steps of a process that touch no file.        *)

\* Before anything ran the only files are the ones that were there.
LEMMA InitStoreInv == Init => StoreInv
<1> SUFFICES ASSUME Init PROVE StoreInv
    OBVIOUS
<1>1. PICK k \in {Seed, NoKey}, uid \in Projects \cup {NoProject} :
          data = [inode \in Inodes |->
                    IF inode = Seed THEN Stored([key |-> k, project |-> uid], "synced")
                    ELSE Stored(NewRecord, "none")]
    BY DEF Init
<1> USE NamesAssumption DEF Init, Inodes, Stored, NewRecord
<1>2. FilesOK
    BY <1>1 DEF FilesOK, Record
<1>3. ProcsOK
    BY DEF ProcsOK, Record, Ended, Paths
<1>4. ReadOK
    BY DEF ReadOK, At
<1>5. FailedSavesLeaveNothing
    BY DEF FailedSavesLeaveNothing
<1>6. SyncedOK
    BY <1>1 DEF SyncedOK, OnDisk, At
<1>7. KeptOK /\ ThroughOK
    BY DEF KeptOK, ThroughOK, At, Saving
<1>8. QED
    BY <1>2, <1>3, <1>4, <1>5, <1>6, <1>7 DEF StoreInv

\* A step of one process that puts no file in place and writes none leaves what is
\* on the disk whole.
LEMMA FilesStay ==
    ASSUME NEW p \in Procs, NEW place, StoreInv, Goto(p, place),
           UNCHANGED <<windows, disk, older, data>>, temps' \subseteq temps,
           place # "publish", place \in Left \/ pc[p] \notin Left,
           p \notin temps' \/ place \in {"write", "sync", "publish", "cleanup", "crashed"}
    PROVE  FailedSavesLeaveNothing' /\ SyncedOK' /\ ThroughOK'
<1> USE DEF StoreInv, Goto, At, Left
<1>1. FailedSavesLeaveNothing'
    BY DEF FailedSavesLeaveNothing, FilesOK, ProcsOK
<1>2. SyncedOK'
    BY DEF SyncedOK, OnDisk, FilesOK, ProcsOK
<1>3. ThroughOK'
    BY DEF ThroughOK
<1>4. QED
    BY <1>1, <1>2, <1>3

\* A step that reads nothing and goes on from where it was leaves what the processes
\* know of the files they read.
LEMMA ReadStays ==
    ASSUME NEW p \in Procs, NEW place, StoreInv, Goto(p, place),
           UNCHANGED <<command, seen, exists>>,
           place \notin {"new", "select", "inspect", "open"}, pc[p] # "new",
           place \in Left \/ pc[p] \notin Left
    PROVE  ReadOK'
BY DEF StoreInv, ReadOK, ProcsOK, Goto, At, Left

\* A record in hand still keeps the rest of what was read when neither changed.
LEMMA KeptStays ==
    ASSUME NEW p \in Procs, NEW place, StoreInv, Goto(p, place),
           UNCHANGED <<command, seen, record>>,
           \A q \in Procs : seen[q] \in Inodes => data'[seen[q]].record = data[seen[q]].record,
           place # "run", place \in Saving => pc[p] \in Saving
    PROVE  KeptOK'
<1> USE DEF StoreInv, Goto, At
<1> SUFFICES ASSUME NEW q \in Procs, seen[q] # Absent
             PROVE  /\ pc'[q] = "run" => record[q] = data'[seen[q]].record
                    /\ pc'[q] \in Saving => KeepsTheRest(q, data[seen[q]].record)'
    BY DEF KeptOK
<1>1. seen[q] \in Inodes /\ data'[seen[q]].record = data[seen[q]].record
    BY DEF ProcsOK
<1>2. pc'[q] = "run" => pc[q] = "run"
    BY DEF ProcsOK
<1>3. pc'[q] \in Saving => pc[q] \in Saving
    BY DEF ProcsOK
<1>4. KeepsTheRest(q, data[seen[q]].record) => KeepsTheRest(q, data[seen[q]].record)'
    BY <1>1 DEF KeepsTheRest
<1>5. QED
    BY <1>1, <1>2, <1>3, <1>4 DEF KeptOK

LEMMA StartKeeps ==
    ASSUME NEW p \in Procs, NEW c \in Commands, NEW s \in Selections, StoreInv,
           UNCHANGED windows, Start(p, c, s)
    PROVE  StoreInv'
<1> USE DEF Start, StoreInv, At, Goto, store
<1>1. FailedSavesLeaveNothing' /\ SyncedOK' /\ ThroughOK'
    <2>1. UNCHANGED <<disk, older, data, temps>> /\ p \notin temps
        BY DEF FailedSavesLeaveNothing, files
    <2>2. QED
        BY <2>1, FilesStay DEF Left
<1>2. FilesOK' /\ ProcsOK'
    BY DEF FilesOK, ProcsOK, files, Ended
<1>3. ReadOK'
    BY DEF ReadOK, ProcsOK, Left
<1>4. KeptOK'
    BY DEF KeptOK, ProcsOK, files, Saving, KeepsTheRest
<1>5. QED
    BY <1>1, <1>2, <1>3, <1>4

LEMMA SelectKeeps ==
    ASSUME NEW p \in Procs, StoreInv, UNCHANGED windows, Select(p)
    PROVE  StoreInv'
<1> USE DEF Select, StoreInv, At, Goto
<1>1. FailedSavesLeaveNothing' /\ SyncedOK' /\ ThroughOK'
    <2>1. UNCHANGED <<disk, older, data, temps>> /\ p \notin temps
        BY DEF FailedSavesLeaveNothing, files
    <2>2. QED
        BY <2>1, FilesStay DEF Left
<1>2. FilesOK' /\ ProcsOK'
    BY DEF FilesOK, ProcsOK, files, Ended, ReadOK, Paths
<1>3. ReadOK'
    BY DEF ReadOK, ProcsOK, Left
<1>4. KeptOK'
    BY DEF KeptOK, ProcsOK, files, Saving, KeepsTheRest
<1>5. QED
    BY <1>1, <1>2, <1>3, <1>4

LEMMA InspectKeeps ==
    ASSUME NEW p \in Procs, StoreInv, UNCHANGED windows, Inspect(p)
    PROVE  StoreInv'
<1> USE DEF Inspect, StoreInv, At, Goto
<1>0. source[p] \in Paths /\ disk[source[p]] \in Inodes \cup {Absent}
    BY DEF FilesOK, ProcsOK
<1>1. FailedSavesLeaveNothing' /\ SyncedOK' /\ ThroughOK'
    <2>1. UNCHANGED <<disk, older, data, temps>> /\ p \notin temps
        BY DEF FailedSavesLeaveNothing, files
    <2>2. QED
        BY <2>1, FilesStay DEF Left
<1>2. FilesOK' /\ ProcsOK'
    BY <1>0 DEF FilesOK, ProcsOK, files, Ended, ReadOK
<1>3. ReadOK'
    \* What the disk names a process has left.
    <2>1. disk[source[p]] \in Procs => pc[disk[source[p]]] \in Left
        BY <1>0 DEF FailedSavesLeaveNothing, Left
    <2>2. QED
        BY <1>0, <2>1 DEF ReadOK, ProcsOK, Left
<1>4. KeptOK'
    BY <1>0 DEF KeptOK, ProcsOK, files, Saving, KeepsTheRest
<1>5. QED
    BY <1>1, <1>2, <1>3, <1>4

LEMMA OpenKeeps ==
    ASSUME NEW p \in Procs, StoreInv, UNCHANGED windows, Open(p)
    PROVE  StoreInv'
<1> USE DEF Open, StoreInv, At, Goto, ReadExists
<1>0. seen[p] \in Inodes /\ data[seen[p]].record \in Record
    BY DEF ReadOK, ProcsOK, FilesOK
<1>1. FailedSavesLeaveNothing' /\ SyncedOK' /\ ThroughOK'
    <2>1. UNCHANGED <<disk, older, data, temps>> /\ p \notin temps
        BY DEF FailedSavesLeaveNothing, files
    <2>2. QED
        BY <2>1, FilesStay DEF Left
<1>2. FilesOK' /\ ProcsOK'
    BY <1>0 DEF FilesOK, ProcsOK, files, Ended, ReadOK
<1>3. ReadOK'
    BY <1>0 DEF ReadOK, ProcsOK, Left
<1>4. KeptOK'
    <2>1. CASE pc' = [pc EXCEPT ![p] = "run"] /\ record' = [record EXCEPT ![p] = data[seen[p]].record]
        <3> SUFFICES ASSUME NEW q \in Procs, seen[q] # Absent
                     PROVE  /\ pc'[q] = "run" => record'[q] = data[seen[q]].record
                            /\ pc'[q] \in Saving => KeepsTheRest(q, data[seen[q]].record)'
            BY DEF KeptOK, files
        <3>1. CASE q = p
            BY <2>1, <3>1 DEF ProcsOK, Saving
        <3>2. CASE q # p
            <4>1. pc'[q] = pc[q] /\ record'[q] = record[q]
                BY <2>1, <3>2 DEF ProcsOK
            <4>2. KeepsTheRest(q, data[seen[q]].record) => KeepsTheRest(q, data[seen[q]].record)'
                BY <4>1 DEF KeepsTheRest, files
            <4>3. QED
                BY <4>1, <4>2 DEF KeptOK
        <3>3. QED
            BY <3>1, <3>2
    <2>2. CASE pc' = [pc EXCEPT ![p] = "failed"] /\ UNCHANGED record
        BY <2>2, KeptStays DEF Saving, files
    <2>3. QED
        BY <2>1, <2>2
<1>5. QED
    BY <1>1, <1>2, <1>3, <1>4

LEMMA StopKeeps ==
    ASSUME NEW p \in Procs, StoreInv, UNCHANGED windows, Stop(p)
    PROVE  StoreInv'
<1> USE DEF Stop, StoreInv, At
<1> DEFINE place == IF NothingToClear(p) THEN "done" ELSE "failed"
<1>1. Goto(p, place) /\ UNCHANGED <<disk, older, data, temps, command, selection, target, source,
                                    seen, record, exists>> /\ p \notin temps
    BY DEF FailedSavesLeaveNothing, files, store
<1>2. FailedSavesLeaveNothing' /\ SyncedOK' /\ ThroughOK'
    BY <1>1, FilesStay DEF Left
<1>3. FilesOK' /\ ProcsOK'
    BY <1>1 DEF FilesOK, ProcsOK, Goto, Ended
<1>4. ReadOK'
    BY <1>1, ReadStays DEF Left
<1>5. KeptOK'
    BY <1>1, KeptStays DEF Saving
<1>6. QED
    BY <1>2, <1>3, <1>4, <1>5

----------------------------------------------------------------------------
(* A save's steps.                                                          *)

\* What a command saves keeps the field it does not own.
LEMMA SavesKeepTheRest ==
    ASSUME NEW p \in Procs, command[p] \in Commands, NEW before \in Record,
           NEW r \in Saves(p, before)
    PROVE  /\ r \in Record
           /\ command[p] \in {"login", "logout"} => r.project = before.project
           /\ command[p] = "browser login" => r.project \in Projects \cup {before.project}
           /\ command[p] = "use" => r.key = before.key
<1>1. CASE command[p] = "login"
    BY <1>1 DEF Saves, Record, Inodes
<1>2. CASE command[p] = "browser login"
    <2>1. PICK uid \in Projects \cup {NoProject} : r = LoginRecord(before, p, uid)
        BY <1>2 DEF Saves
    <2>2. QED
        BY <1>2, <2>1 DEF LoginRecord, Record, Inodes
<1>3. CASE command[p] = "logout"
    BY <1>3 DEF Saves, Record
<1>4. CASE command[p] = "use"
    <2>1. PICK uid \in Projects : r = [before EXCEPT !.project = uid]
        BY <1>4 DEF Saves
    <2>2. QED
        BY <1>4, <2>1 DEF Record
<1>5. QED
    BY <1>1, <1>2, <1>3, <1>4 DEF Commands

LEMMA SaveKeeps ==
    ASSUME NEW p \in Procs, StoreInv, UNCHANGED windows, Save(p)
    PROVE  StoreInv'
<1> USE DEF Save, StoreInv, At
<1>1. PICK r \in Saves(p, record[p]) : record' = [record EXCEPT ![p] = r]
    OBVIOUS
<1>2. command[p] \in Commands /\ record[p] \in Record
    BY DEF ReadOK, ProcsOK
<1>3. /\ r \in Record
      /\ command[p] \in {"login", "logout"} => r.project = record[p].project
      /\ command[p] = "browser login" => r.project \in Projects \cup {record[p].project}
      /\ command[p] = "use" => r.key = record[p].key
    BY <1>2, SavesKeepTheRest
<1>4. Goto(p, "create") /\ UNCHANGED <<disk, older, data, temps, command, selection, target, source,
                                        seen, exists>> /\ p \notin temps
    BY DEF FailedSavesLeaveNothing, files
<1>5. FailedSavesLeaveNothing' /\ SyncedOK' /\ ThroughOK'
    BY <1>4, FilesStay DEF Left
<1>6. FilesOK' /\ ProcsOK'
    BY <1>1, <1>3, <1>4 DEF FilesOK, ProcsOK, Goto
<1>7. ReadOK'
    BY <1>4, ReadStays DEF Left
<1>8. KeptOK'
    <2> SUFFICES ASSUME NEW q \in Procs, seen[q] # Absent
                 PROVE  /\ pc'[q] = "run" => record'[q] = data[seen[q]].record
                        /\ pc'[q] \in Saving => KeepsTheRest(q, data[seen[q]].record)'
        BY <1>4 DEF KeptOK
    <2>1. CASE q = p
        <3>1. record[p] = data[seen[p]].record
            BY <2>1 DEF KeptOK
        <3>2. KeepsTheRest(q, data[seen[q]].record)'
            BY <1>1, <1>3, <1>4, <2>1, <3>1 DEF KeepsTheRest, ProcsOK
        <3>3. QED
            BY <1>4, <2>1, <3>2 DEF Goto, ProcsOK
    <2>2. CASE q # p
        <3>1. pc'[q] = pc[q] /\ record'[q] = record[q]
            BY <1>1, <1>4, <2>2 DEF Goto, ProcsOK
        <3>2. KeepsTheRest(q, data[seen[q]].record) => KeepsTheRest(q, data[seen[q]].record)'
            BY <1>4, <3>1 DEF KeepsTheRest
        <3>3. QED
            BY <3>1, <3>2 DEF KeptOK
    <2>3. QED
        BY <2>1, <2>2
<1>9. QED
    BY <1>5, <1>6, <1>7, <1>8

\* Writing a temporary file touches no file a path names and none that was read.
LEMMA TempIsPrivate ==
    ASSUME NEW p \in Procs, StoreInv, pc[p] \in Saving
    PROVE  /\ \A path \in Paths : p \notin {disk[path]} \cup older[path]
           /\ \A q \in Procs : seen[q] # p
BY DEF StoreInv, FailedSavesLeaveNothing, ReadOK, Saving, Left

LEMMA CreateTempKeeps ==
    ASSUME NEW p \in Procs, StoreInv, UNCHANGED windows, CreateTemp(p)
    PROVE  StoreInv'
<1> USE DEF CreateTemp, StoreInv, At
<1>1. /\ \A path \in Paths : p \notin {disk[path]} \cup older[path]
      /\ \A q \in Procs : seen[q] # p
    BY TempIsPrivate DEF Saving
<1>2. Goto(p, "write") /\ UNCHANGED <<command, selection, target, source, seen, record, exists>>
    BY DEF store
<1>3. \A inode \in Inodes : inode # p => data'[inode] = data[inode]
    BY DEF FilesOK
<1>4. FilesOK'
    BY NamesAssumption DEF FilesOK, Stored, NewRecord, Record, Inodes
<1>5. ProcsOK' /\ FailedSavesLeaveNothing'
    BY <1>2 DEF ProcsOK, Goto, FailedSavesLeaveNothing, FilesOK
<1>6. ReadOK'
    BY <1>2, ReadStays DEF Left
<1>7. SyncedOK' /\ ThroughOK'
    BY <1>1, <1>2, <1>3 DEF SyncedOK, OnDisk, ThroughOK, FilesOK, ProcsOK, Goto, Inodes
<1>8. KeptOK'
    BY <1>1, <1>2, <1>3, KeptStays DEF Saving
<1>9. QED
    BY <1>4, <1>5, <1>6, <1>7, <1>8

LEMMA WriteKeeps ==
    ASSUME NEW p \in Procs, StoreInv, UNCHANGED windows, Write(p)
    PROVE  StoreInv'
<1> USE DEF Write, StoreInv, At
<1>1. /\ \A path \in Paths : p \notin {disk[path]} \cup older[path]
      /\ \A q \in Procs : seen[q] # p
    BY TempIsPrivate DEF Saving
<1>2. Goto(p, "sync") /\ UNCHANGED <<command, selection, target, source, seen, record, exists>>
    BY DEF store
<1>3. \A inode \in Inodes : inode # p => data'[inode] = data[inode]
    BY DEF FilesOK
<1>4. FilesOK'
    BY DEF FilesOK, ProcsOK, Stored, Inodes
<1>5. ProcsOK' /\ FailedSavesLeaveNothing'
    BY <1>2 DEF ProcsOK, Goto, FailedSavesLeaveNothing, FilesOK
<1>6. ReadOK'
    BY <1>2, ReadStays DEF Left
<1>7. SyncedOK' /\ ThroughOK'
    BY <1>1, <1>2, <1>3 DEF SyncedOK, OnDisk, ThroughOK, FilesOK, ProcsOK, Goto, Inodes
<1>8. KeptOK'
    BY <1>1, <1>2, <1>3, KeptStays DEF Saving
<1>9. QED
    BY <1>4, <1>5, <1>6, <1>7, <1>8

LEMMA SyncKeeps ==
    ASSUME NEW p \in Procs, StoreInv, UNCHANGED windows, Sync(p)
    PROVE  StoreInv'
<1> USE DEF Sync, StoreInv, At
<1>1. /\ \A path \in Paths : p \notin {disk[path]} \cup older[path]
      /\ \A q \in Procs : seen[q] # p
    BY TempIsPrivate DEF Saving
<1>2. Goto(p, "publish") /\ UNCHANGED <<command, selection, target, source, seen, record, exists>>
    BY DEF store
<1>3. /\ data'[p].state = "synced"
      /\ \A inode \in Inodes : inode # p => data'[inode] = data[inode]
    BY DEF FilesOK, Inodes
<1>4. FilesOK'
    BY DEF FilesOK, Inodes
<1>5. ProcsOK' /\ FailedSavesLeaveNothing'
    BY <1>2 DEF ProcsOK, Goto, FailedSavesLeaveNothing, FilesOK
<1>6. ReadOK'
    BY <1>2, ReadStays DEF Left
<1>7. SyncedOK' /\ ThroughOK'
    BY <1>1, <1>2, <1>3 DEF SyncedOK, OnDisk, ThroughOK, FilesOK, ProcsOK, Goto, Inodes
<1>8. KeptOK'
    BY <1>1, <1>2, <1>3, KeptStays DEF Saving
<1>9. QED
    BY <1>4, <1>5, <1>6, <1>7, <1>8

\* A link, a rename or a move puts a synced file in place of one that was whole.
LEMMA PublishingKeeps ==
    ASSUME NEW p \in Procs, StoreInv, UNCHANGED windows, At(p, "publish"), Goto(p, "cleanup"),
           disk' = [disk EXCEPT ![target[p]] = p],
           older' \in [Paths -> SUBSET (Inodes \cup {Absent})],
           \A path \in Paths : older'[path] \subseteq older[path] \cup {disk[path]},
           windows => \A path \in Paths : older'[path] = {},
           temps' \subseteq temps, UNCHANGED <<data, command, selection, store>>
    PROVE  StoreInv'
<1> USE DEF StoreInv, At, store
<1>1. target[p] \in Paths /\ p \in Inodes
    BY DEF ProcsOK, Inodes
<1>2. FilesOK' /\ ProcsOK'
    BY <1>1 DEF FilesOK, ProcsOK, Goto
<1>3. ReadOK'
    BY ReadStays DEF Left
<1>4. KeptOK'
    BY KeptStays DEF Saving
<1>5. SyncedOK'
    BY <1>1, <1>2 DEF SyncedOK, OnDisk, FilesOK, ProcsOK, Goto
<1>6. FailedSavesLeaveNothing'
    BY <1>1 DEF FailedSavesLeaveNothing, FilesOK, ProcsOK, Goto
<1>7. QED
    BY <1>2, <1>3, <1>4, <1>5, <1>6 DEF ThroughOK

LEMMA PublishKeeps ==
    ASSUME NEW p \in Procs, StoreInv, UNCHANGED windows, Publish(p)
    PROVE  StoreInv'
<1>1. target[p] \in Paths /\ disk[target[p]] \in Inodes \cup {Absent}
    BY DEF StoreInv, FilesOK, ProcsOK
<1>2. /\ older' \in [Paths -> SUBSET (Inodes \cup {Absent})]
      /\ \A path \in Paths : older'[path] \subseteq older[path] \cup {disk[path]}
    BY <1>1 DEF Publish, StoreInv, FilesOK
<1>3. QED
    BY <1>2, PublishingKeeps DEF Publish

LEMMA MoveKeeps ==
    ASSUME NEW p \in Procs, StoreInv, UNCHANGED windows, Move(p)
    PROVE  StoreInv'
<1>1. /\ older' \in [Paths -> SUBSET (Inodes \cup {Absent})]
      /\ \A path \in Paths : older'[path] \subseteq older[path] \cup {disk[path]}
      /\ windows => \A path \in Paths : older'[path] = {}
    BY DEF Move, StoreInv, FilesOK, ProcsOK, ThroughOK
<1>2. QED
    BY <1>1, PublishingKeeps DEF Move

LEMMA FailKeeps ==
    ASSUME NEW p \in Procs, StoreInv, UNCHANGED windows, Fail(p)
    PROVE  StoreInv'
<1> USE DEF Fail, StoreInv
<1>1. /\ Goto(p, "failed") /\ temps' \subseteq temps /\ p \notin temps'
      /\ UNCHANGED <<disk, older, data, command, selection, target, source, seen, record, exists>>
    BY DEF store
<1>2. FailedSavesLeaveNothing' /\ SyncedOK' /\ ThroughOK'
    BY <1>1, FilesStay DEF Left
<1>3. FilesOK' /\ ProcsOK'
    BY <1>1 DEF FilesOK, ProcsOK, Goto, Ended
<1>4. ReadOK' /\ KeptOK'
    BY <1>1, ReadStays, KeptStays DEF Left, Saving
<1>5. QED
    BY <1>2, <1>3, <1>4

LEMMA CleanupKeeps ==
    ASSUME NEW p \in Procs, StoreInv, UNCHANGED windows, Cleanup(p)
    PROVE  StoreInv'
<1> USE DEF Cleanup, StoreInv, At
<1>1. /\ Goto(p, "done") /\ temps' \subseteq temps /\ p \notin temps'
      /\ UNCHANGED <<disk, older, data, command, selection, target, source, seen, record, exists>>
    BY DEF store
<1>2. FailedSavesLeaveNothing' /\ SyncedOK' /\ ThroughOK'
    BY <1>1, FilesStay DEF Left
<1>3. FilesOK' /\ ProcsOK'
    BY <1>1 DEF FilesOK, ProcsOK, Goto, Ended
<1>4. ReadOK' /\ KeptOK'
    BY <1>1, ReadStays, KeptStays DEF Left, Saving
<1>5. QED
    BY <1>2, <1>3, <1>4

----------------------------------------------------------------------------
(* Crashes.                                                                 *)

LEMMA CrashKeeps ==
    ASSUME NEW p \in Procs, StoreInv, UNCHANGED windows, Crash(p)
    PROVE  StoreInv'
<1> USE DEF Crash, StoreInv
<1>1. /\ Goto(p, "crashed") /\ pc[p] # "new"
      /\ UNCHANGED <<disk, older, data, temps, command, selection, target, source, seen, record,
                     exists>>
    BY DEF files, store, Ended
<1>2. FailedSavesLeaveNothing' /\ SyncedOK' /\ ThroughOK'
    BY <1>1, FilesStay DEF Left
<1>3. FilesOK' /\ ProcsOK'
    BY <1>1 DEF FilesOK, ProcsOK, Goto, Ended
<1>4. ReadOK' /\ KeptOK'
    BY <1>1, ReadStays, KeptStays DEF Left, Saving
<1>5. QED
    BY <1>2, <1>3, <1>4

LEMMA FlushKeeps ==
    ASSUME NEW path \in Paths, StoreInv, UNCHANGED windows, Flush(path)
    PROVE  StoreInv'
<1> USE DEF Flush, StoreInv, store
<1>1. /\ older' \in [Paths -> SUBSET (Inodes \cup {Absent})]
      /\ \A other \in Paths : older'[other] \subseteq older[other]
    BY DEF FilesOK
<1>2. FilesOK' /\ ProcsOK'
    BY <1>1 DEF FilesOK, ProcsOK
<1>3. ReadOK' /\ KeptOK'
    BY DEF ReadOK, KeptOK, KeepsTheRest, At
<1>4. FailedSavesLeaveNothing' /\ SyncedOK' /\ ThroughOK'
    BY <1>1 DEF FailedSavesLeaveNothing, SyncedOK, OnDisk, ThroughOK, At
<1>5. QED
    BY <1>2, <1>3, <1>4

\* A power loss tears only what was not synced, which no path names, and every record
\* stays what was written.
LEMMA PowerLossKeeps ==
    ASSUME StoreInv, UNCHANGED windows, PowerLoss
    PROVE  StoreInv'
<1> USE DEF PowerLoss, StoreInv
<1>1. \A p \in Procs : pc'[p] \in {"done", "failed", "crashed"} \/ (pc'[p] = "new" /\ pc[p] = "new")
    BY DEF Ended
<1>2. \A p \in Procs : pc'[p] = pc[p] \/ (pc'[p] = "crashed" /\ pc[p] # "new")
    BY DEF Ended
<1>3. \A inode \in Inodes : /\ data'[inode].record = data[inode].record
                            /\ data[inode].state = "synced" => data'[inode].state = "synced"
                            /\ data'[inode] \in [record : Record,
                                   state : {"none", "empty", "written", "synced", "torn"}]
    BY DEF Survives, Stored, FilesOK
<1>4. /\ disk' \in [Paths -> Inodes \cup {Absent}]
      /\ \A path \in Paths : disk'[path] \in {disk[path]} \cup older[path] /\ older'[path] = {}
    OBVIOUS
<1>5. FilesOK'
    BY <1>3, <1>4 DEF FilesOK, Survives
<1>6. ProcsOK'
    BY <1>1 DEF ProcsOK, Ended, store
<1>7. ReadOK'
    BY <1>1, <1>2 DEF ReadOK, ProcsOK, At, Left, store
<1>8. FailedSavesLeaveNothing'
    BY <1>2, <1>4 DEF FailedSavesLeaveNothing, FilesOK, ProcsOK
<1>9. SyncedOK' /\ ThroughOK'
    BY <1>1, <1>3, <1>4 DEF SyncedOK, OnDisk, ThroughOK, At, FilesOK
<1>10. KeptOK'
    BY <1>1 DEF KeptOK, At, Saving
<1>11. QED
    BY <1>5, <1>6, <1>7, <1>8, <1>9, <1>10

----------------------------------------------------------------------------
(* The theorems.                                                            *)

LEMMA NextKeeps == StoreInv /\ [Next]_vars => StoreInv'
<1> SUFFICES ASSUME StoreInv, [Next]_vars PROVE StoreInv'
    OBVIOUS
<1>0. UNCHANGED windows
    BY DEF Next, vars
<1>1. ASSUME NEW p \in Procs, NEW c \in Commands, NEW s \in Selections, Start(p, c, s)
      PROVE  StoreInv'
    BY <1>0, <1>1, StartKeeps
<1>2. ASSUME NEW p \in Procs, Select(p) \/ Inspect(p) \/ Open(p) \/ Stop(p) \/ Save(p)
      PROVE  StoreInv'
    BY <1>0, <1>2, SelectKeeps, InspectKeeps, OpenKeeps, StopKeeps, SaveKeeps
<1>3. ASSUME NEW p \in Procs, CreateTemp(p) \/ Write(p) \/ Sync(p) \/ Publish(p) \/ Move(p)
      PROVE  StoreInv'
    BY <1>0, <1>3, CreateTempKeeps, WriteKeeps, SyncKeeps, PublishKeeps, MoveKeeps
<1>4. ASSUME NEW p \in Procs, Cleanup(p) \/ Fail(p) \/ Crash(p)
      PROVE  StoreInv'
    BY <1>0, <1>4, CleanupKeeps, FailKeeps, CrashKeeps
<1>5. ASSUME NEW path \in Paths, Flush(path)
      PROVE  StoreInv'
    BY <1>0, <1>5, FlushKeeps
<1>6. CASE PowerLoss
    BY <1>0, <1>6, PowerLossKeeps
<1>7. CASE UNCHANGED vars
    BY <1>7 DEF vars, files, store, StoreInv, FilesOK, ProcsOK, ReadOK, FailedSavesLeaveNothing,
                SyncedOK, OnDisk, KeptOK, KeepsTheRest, ThroughOK, At
<1>8. QED
    BY <1>1, <1>2, <1>3, <1>4, <1>5, <1>6, <1>7 DEF Next, Step

THEOREM StoreInvariance == Spec => []StoreInv
<1>1. QED
    BY InitStoreInv, NextKeeps, PTL DEF Spec

\* Every variable has its type, and a store that exists saves to the file it was read
\* from, for any number of processes and projects.
THEOREM TypeCorrect == Spec => []TypeOK
<1>1. StoreInv => TypeOK
    BY TypeParts DEF StoreInv
<1>2. QED
    BY <1>1, StoreInvariance, PTL

\* However many processes save at once, and whatever crashes or power loss comes
\* between their steps, a config file is one whole record.
THEOREM NeverTorn == Spec => []ConfigIsNeverTorn
<1>1. StoreInv => ConfigIsNeverTorn
    BY DEF StoreInv, SyncedOK, OnDisk, ConfigIsNeverTorn
<1>2. QED
    BY <1>1, StoreInvariance, PTL

\* A save that failed, or never started, has changed no config file, and only a
\* crash leaves a temporary file behind.
THEOREM FailuresLeaveNothing == Spec => []FailedSavesLeaveNothing
<1>1. StoreInv => FailedSavesLeaveNothing
    BY DEF StoreInv
<1>2. QED
    BY <1>1, StoreInvariance, PTL

\* Only a process about to publish puts its file anywhere, by a link, a rename or a
\* move to its target.
LEMMA PublishersPublish ==
    ASSUME NEW p \in Procs, StoreInv, [Next]_vars, At(p, "publish"), Publishes(p)
    PROVE  MayPublish(p) /\ UNCHANGED <<command, record>>
<1> USE DEF StoreInv
<1>1. PICK path \in Paths : disk'[path] = p /\ disk[path] # p
    BY DEF Publishes
<1>2. p \notin {disk[path]} \cup older[path]
    BY DEF FailedSavesLeaveNothing, At
<1>3. CASE UNCHANGED disk
    BY <1>1, <1>3
<1>4. CASE PowerLoss
    BY <1>1, <1>2, <1>4 DEF PowerLoss
<1>5. ASSUME NEW q \in Procs, Publish(q) \/ Move(q)
      PROVE  MayPublish(p) /\ UNCHANGED <<command, record>>
    <2>1. q = p
        BY <1>1, <1>5 DEF Publish, Move, FilesOK, ProcsOK
    <2>2. QED
        BY <1>5, <2>1 DEF Publish, Move, store
<1>6. QED
    BY <1>3, <1>4, <1>5 DEF Next, Step, vars, files, Start, Select, Inspect, Open, Stop, Save,
       CreateTemp, Write, Sync, Cleanup, Fail, Crash, Flush

\* A new file replaces none, and a save keeps the field its command does not own, for
\* any number of processes.
THEOREM PublicationsCorrect == Spec => PublicationsAreSafe
<1>1. ASSUME StoreInv, [Next]_vars, NEW p \in Procs, At(p, "publish"), Publishes(p), ~ exists[p]
      PROVE  disk[target[p]] = Absent
    BY <1>1, PublishersPublish DEF MayPublish
<1>2. ASSUME StoreInv, NEW p \in Procs, At(p, "publish"), seen[p] # Absent
      PROVE  KeepsTheRest(p, data[seen[p]].record)
    BY <1>2 DEF StoreInv, KeptOK, At, Saving
<1>3. StoreInv /\ [Next]_vars =>
          [\A p \in Procs : At(p, "publish") /\ Publishes(p) /\ ~ exists[p]
                              => disk[target[p]] = Absent]_vars
    BY <1>1
<1>4. StoreInv /\ [Next]_vars =>
          [\A p \in Procs :
              /\ At(p, "publish") /\ Publishes(p) /\ seen[p] # Absent
              /\ exists[p] => disk[target[p]] = seen[p]
              => KeepsTheRest(p, data[seen[p]].record)]_vars
    BY <1>2
<1>5. Spec => CreatingNeverOverwrites
    BY <1>3, StoreInvariance, PTL DEF Spec, CreatingNeverOverwrites
<1>6. Spec => SavesOwnTheirField
    BY <1>4, StoreInvariance, PTL DEF Spec, SavesOwnTheirField
<1>7. QED
    BY <1>5, <1>6 DEF PublicationsAreSafe

\* With the Windows writer a file that is in place goes only to a later save.
THEOREM WindowsSavesAreDurable == Spec => SavesAreDurable
<1> DEFINE A == \A p \in Procs, path \in Paths :
                    windows /\ disk[path] = p /\ disk'[path] # p =>
                        \E q \in Procs : At(q, "publish") /\ Publishes(q) /\ target[q] = path
<1>1. ASSUME StoreInv, [Next]_vars, NEW p \in Procs, NEW path \in Paths,
             windows, disk[path] = p, disk'[path] # p
      PROVE  \E q \in Procs : At(q, "publish") /\ Publishes(q) /\ target[q] = path
    <2>1. CASE UNCHANGED disk
        BY <1>1, <2>1
    <2>2. CASE PowerLoss
        BY <1>1, <2>2 DEF PowerLoss, StoreInv, ThroughOK
    <2>3. ASSUME NEW q \in Procs, Publish(q) \/ Move(q)
          PROVE  At(q, "publish") /\ Publishes(q) /\ target[q] = path
        <3>1. disk' = [disk EXCEPT ![target[q]] = q] /\ At(q, "publish")
            BY <2>3 DEF Publish, Move
        <3>2. target[q] = path /\ disk'[path] = q
            BY <1>1, <3>1 DEF StoreInv, FilesOK, ProcsOK
        <3>3. QED
            BY <1>1, <3>1, <3>2 DEF Publishes
    <2>4. QED
        BY <1>1, <2>1, <2>2, <2>3 DEF Next, Step, vars, files, Start, Select, Inspect, Open, Stop, Save,
           CreateTemp, Write, Sync, Cleanup, Fail, Crash, Flush
<1>2. StoreInv /\ [Next]_vars => [A]_vars
    BY <1>1
<1>3. QED
    BY <1>2, StoreInvariance, PTL DEF Spec, SavesAreDurable
=============================================================================

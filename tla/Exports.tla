------------------------------- MODULE Exports ------------------------------
(* internal/session/fixture.go and the files of curl.go: x writes a request   *)
(* as a fixture and c copies it as a cURL command, whose body and odd headers *)
(* may go to the fixture's files.  Both run off the event loop, several at    *)
(* once, and other listen runs may work in the same directory.  A file is     *)
(* truncated and then written; either may fail, and a run that ends abandons  *)
(* what it was writing.  A fixture is one content whether it hides sensitive  *)
(* headers or not, which its run's flag decides.                              *)
EXTENDS Integers, Sequences, SequencesExt

CONSTANTS
    History,         \* what each listen run recorded: [run -> Seq(delivery)]
    Large,           \* the deliveries whose body can't go on a command line
    Unprintable,     \* those with headers that can't
    MaxCommands      \* bound: x and c presses

Runs == DOMAIN History

\* A delivery has its request's UID, "" when there is none or no file can be
\* called that, and its route's.
Deliveries == UNION {Range(History[run]) : run \in Runs}

Plain(d) == d.request # ""

\* UIDs are Hookspot's: a request's and a route's name one delivery, and no
\* request is called as one without a name is.
ExportsAssumption ==
    /\ MaxCommands \in Nat
    /\ Large \subseteq Deliveries /\ Unprintable \subseteq Deliveries
    /\ \A d, e \in Deliveries :
          Plain(d) /\ <<d.request, d.route>> = <<e.request, e.route>> => d = e
    /\ \A d \in Deliveries : d.request # "entry"

VARIABLES
    runs,            \* the listen runs that go on
    disk,            \* hookspot-fixtures: what each file holds
    commands         \* the presses: each one's request and the files it has left

vars == <<runs, disk, commands>>

Ids == 1..MaxCommands

----------------------------------------------------------------------------
(* The files.                                                               *)

\* Mutant: the files are named after the request alone.
RequestName(d, number) == IF Plain(d) THEN <<d.request>> ELSE <<"entry", number>>

FixtureName(d, number) == IF Plain(d) THEN <<d.request, d.route>> ELSE <<"entry", number>>

Files ==
    UNION {{<<FixtureName(History[run][n], n), extension>> :
               n \in DOMAIN History[run], extension \in {"json", "body", "headers"}} : run \in Runs}

\* The deliveries whose bytes are in a file, and whether it is one, in full.
NoBytes == [of |-> {}, whole |-> FALSE]
Full(d) == [of |-> {d}, whole |-> TRUE]

\* A writer starts at the beginning whatever another has written since it
\* truncated the file, so the end of a longer file stays.
Written(file, d) == {Full(d), [of |-> file.of \cup {d}, whole |-> file.of \subseteq {d}]}

\* Part of it written over the same bytes leaves them whole.
PartWritten(file, d) ==
    {file, [of |-> file.of \cup {d}, whole |-> file.whole /\ file.of = {d}]}

----------------------------------------------------------------------------
(* The commands.                                                            *)

Idle == [at |-> "idle", run |-> CHOOSE run \in Runs : TRUE, number |-> 1, kind |-> "x",
         left |-> <<>>, open |-> FALSE]

Of(c) == History[c.run][c.number]
File(c, extension) == <<FixtureName(Of(c), c.number), extension>>

FixtureFiles == <<"json", "body">>

\* The files a cURL command reads; the rest of it is inline.
CurlFiles(d) ==
    (IF d \in Unprintable THEN <<"headers">> ELSE <<>>) \o (IF d \in Large THEN <<"body">> ELSE <<>>)

FilesOf(c) == IF c.kind = "x" THEN FixtureFiles ELSE CurlFiles(Of(c))

Busy(id) == commands[id].at = "busy"

\* copyCurl and exportFixture, of a request that is still there and whose URL a
\* command can carry: the others fail before they write.
Press(id) ==
    /\ {i \in Ids : commands[i].at # "idle"} = 1..id - 1
    /\ \E run \in Runs, kind \in {"x", "c"} : \E number \in DOMAIN History[run] :
          /\ run \in runs
          /\ LET c == [Idle EXCEPT !.at = "busy", !.run = run, !.number = number, !.kind = kind]
             IN  commands' = [commands EXCEPT ![id] = [c EXCEPT !.left = FilesOf(c)]]
    /\ UNCHANGED <<runs, disk>>

\* writeFixture's MkdirAll and os.WriteFile's open.
Open(id) ==
    LET c == commands[id]
    IN  /\ Busy(id) /\ c.left # <<>> /\ ~ c.open
        /\ commands' = [commands EXCEPT ![id].open = TRUE]
        /\ disk' = [disk EXCEPT ![File(c, Head(c.left))] = NoBytes]
        /\ UNCHANGED runs

Write(id) ==
    LET c == commands[id]
        file == File(c, Head(c.left))
    IN  /\ Busy(id) /\ c.open
        /\ \E bytes \in Written(disk[file], Of(c)) : disk' = [disk EXCEPT ![file] = bytes]
        /\ commands' = [commands EXCEPT ![id].open = FALSE, ![id].left = Tail(@)]
        /\ UNCHANGED runs

\* The first failure is the command's: what it has written stays.
GiveUp(c) == [c EXCEPT !.at = "failed", !.open = FALSE]

\* The folder or the file can't be opened, or the disk is full.
Fail(id) ==
    LET c == commands[id]
        file == File(c, Head(c.left))
    IN  /\ Busy(id) /\ c.left # <<>>
        /\ IF c.open
           THEN \E bytes \in PartWritten(disk[file], Of(c)) : disk' = [disk EXCEPT ![file] = bytes]
           ELSE UNCHANGED disk
        /\ commands' = [commands EXCEPT ![id] = GiveUp(c)]
        /\ UNCHANGED runs

\* The paths, or the command for the clipboard, go to the view.
Return(id) ==
    /\ Busy(id) /\ commands[id].left = <<>>
    /\ commands' = [commands EXCEPT ![id].at = "done"]
    /\ UNCHANGED <<runs, disk>>

----------------------------------------------------------------------------
(* The runs.                                                                *)

\* Quitting or killed: the program doesn't wait for its commands.
EndRun(run) ==
    /\ run \in runs /\ runs' = runs \ {run}
    /\ commands' = [id \in Ids |->
          IF Busy(id) /\ commands[id].run = run
          THEN [commands[id] EXCEPT !.at = "abandoned", !.open = FALSE]
          ELSE commands[id]]
    /\ UNCHANGED disk

Init ==
    /\ runs = Runs
    /\ disk = [file \in Files |-> NoBytes]
    /\ commands = [id \in Ids |-> Idle]

Works(id) == Open(id) \/ Write(id) \/ Fail(id) \/ Return(id)

Next ==
    \/ \E id \in Ids : Press(id) \/ Works(id)
    \/ \E run \in runs : EndRun(run)

Spec == Init /\ [][Next]_vars

----------------------------------------------------------------------------
(* Properties.                                                              *)

States == {"idle", "busy", "done", "failed", "abandoned"}

\* Every variable has its type, and only a busy command has a file open, which
\* is one of its own.
TypeOK ==
    /\ runs \subseteq Runs
    /\ disk \in [Files -> [of : SUBSET Deliveries, whole : BOOLEAN]]
    /\ \A file \in Files : disk[file].whole => \E d \in Deliveries : disk[file].of = {d}
    /\ \A id \in Ids :
          /\ commands[id].at \in States /\ commands[id].open \in BOOLEAN
          /\ commands[id].at # "idle" => IsSuffix(commands[id].left, FilesOf(commands[id]))
          /\ commands[id].open => Busy(id) /\ commands[id].left # <<>>

Uses(id, file) ==
    /\ commands[id].at # "idle"
    /\ file \in {File(commands[id], e) : e \in Range(FilesOf(commands[id]))}

\* "exporting a request or its replay again replaces its files, while the
\* deliveries of one request to a source's other routes keep theirs": a file
\* named after a request and route never holds another's bytes, whichever runs,
\* failures and deaths wrote there.
FilesKeepTheirDelivery ==
    \A id \in Ids : \A e \in Range(FilesOf(commands[id])) :
        LET c == commands[id]
        IN  c.at # "idle" /\ Plain(Of(c)) => disk[File(c, e)].of \subseteq {Of(c)}

\* What may undo a file after the command that wrote it returned: another that
\* has it open, that did not finish, or that names its own request's file so in
\* another run.
Disturbs(other, id, file) ==
    /\ Uses(other, file)
    /\ \/ commands[other].open \/ commands[other].at \in {"failed", "abandoned"}
       \/ ~ Plain(Of(commands[id])) /\ commands[other].run # commands[id].run

\* The files a fixture's notice or a copied command names hold the request they
\* are of, in full, from when it is shown for as long as nothing disturbs them:
\* further exports of the request and of its replays leave them so.
ReturnedFilesAreWhole ==
    \A id \in Ids : commands[id].at = "done" =>
        \A e \in Range(FilesOf(commands[id])) :
            LET file == File(commands[id], e)
            IN  (\A other \in Ids \ {id} : ~ Disturbs(other, id, file))
                => disk[file] = Full(Of(commands[id]))

\* A half-written fixture is never passed over in silence: some command on the
\* file is under way, failed and said so, was abandoned with its run, or belongs
\* to another run with an unnamed request of the same number.
HalfFilesAreKnown ==
    \A file \in Files : disk[file].of # {} /\ ~ disk[file].whole =>
        \/ \E id \in Ids : Uses(id, file) /\ commands[id].at \in {"busy", "failed", "abandoned"}
        \/ \E i, j \in Ids : Uses(i, file) /\ Uses(j, file) /\ commands[i].run # commands[j].run
=============================================================================

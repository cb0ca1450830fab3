------------------------------- MODULE Account -------------------------------
(* The commands of one shell, one after another, over the record they share: *)
(* login, logout, project use, and what listen resolves before it connects.  *)
EXTENDS Login, Picker, SequencesExt

CONSTANTS
    Listed,          \* Listed[u]: the user's projects as Hookspot lists them
    Segments,        \* the strings endpoint.Segment takes
    Sources,         \* Sources[uid]: the project's sources, as Hookspot lists them
    Unset,           \* a flag or an environment variable that is not set
    Partly,          \* only one of the two slug variables, or an empty one
    Environments,    \* the shell's variables: [key, project]; project names the slugs'
    Flags,           \* a command's flags: [key, project]
    Arguments,       \* project use's arguments
    NameLists        \* listen's arguments

IsSequence(s) == s \in Seq(Range(s))

\* What Hookspot lists: UIDs are path segments, and name one project or source.
ASSUME AccountAssumption ==
    /\ \A u \in Users :
          /\ IsSequence(Listed[u])
          /\ {Listed[u][i].uid : i \in DOMAIN Listed[u]} = Access[u]
          /\ Access[u] \subseteq Segments
    /\ \A uid \in Projects :
          /\ IsSequence(Sources[uid])
          /\ \A i, j \in DOMAIN Sources[uid] :
                \/ Sources[uid][i].name = Sources[uid][j].name
                \/ Sources[uid][i].uid = Sources[uid][j].uid
                => i = j

\* What a user can type: project use takes two arguments at most.
ASSUME InputAssumption ==
    /\ \A given \in Environments \cup Flags : given.key \in Keys \cup {Unset}
    /\ \A args \in Arguments : IsSequence(args) /\ Len(args) <= 2
    /\ \A names \in NameLists : IsSequence(names)

VARIABLES
    env,             \* one of Environments
    wanted,          \* project use's arguments, while the picker is open
    listening        \* what listen joins and shows

vars == <<record, at, said, cancelled, loginVars, pickerVars, env, wanted, listening>>
shell == <<env, pickerVars, wanted, listening>>

NotListening ==
    [key |-> NoKey, project |-> NoProject, names |-> <<>>, sources |-> <<>>, uids |-> <<>>,
     skipped |-> {}]

----------------------------------------------------------------------------
(* Store.Resolve.                                                           *)

\* A flag, else the environment, else the record: an empty value counts.
KeyOf(flags) ==
    IF flags.key # Unset THEN flags.key
    ELSE IF env.key # Unset THEN env.key ELSE record.key

ProjectOf(flags) ==
    IF flags.project # Unset THEN flags.project
    ELSE IF env.project # Unset THEN env.project ELSE record.project

\* Mutant: a variable that is set but empty counts as a key.
EnvironmentCLIKeySet == env.key # Unset

\* A nonempty HOOKSPOT_CLI_KEY.
EnvironmentCLIKeyActive == env.key \notin {Unset, NoKey}

----------------------------------------------------------------------------
(* login and logout.                                                        *)

\* A key of the flag's or the environment's is validated, an empty one asked for.
LoginCommand(flags, interactive) ==
    LET explicit == flags.key # Unset \/ EnvironmentCLIKeyActive
        key == IF explicit THEN KeyOf(flags) ELSE NoKey
    IN  /\ at = "idle"
        /\ \/ Finish(Note("failed")) /\ UNCHANGED record      \* CheckFolders
           \/ /\ at' = IF ~ explicit /\ ~ interactive THEN "starting"
                       ELSE IF key = NoKey THEN "prompting" ELSE "validating"
              /\ said' = Note("none")
              /\ asked' = key
              /\ UNCHANGED <<record, cancelled, echo, attempt, left, tick>>
        /\ UNCHANGED shell

\* ClearCLIKey keeps the project; the card warns of a key in the environment.
Logout ==
    /\ at = "idle"
    /\ SaveAndSay([record EXCEPT !.key = NoKey],
                  Note(IF EnvironmentCLIKeyActive THEN "still signed in" ELSE "out"))
    /\ UNCHANGED shell

----------------------------------------------------------------------------
(* project use.                                                             *)

\* The elements of s in keep, in order: SelectSeq, by the loop that appends them.
Kept(s, keep) ==
    LET kept[n \in 0..Len(s)] ==
            IF n = 0 THEN <<>>
            ELSE IF s[n] \in keep THEN Append(kept[n - 1], s[n]) ELSE kept[n - 1]
    IN  kept[Len(s)]

\* persistProjectSelection
Persist(uid, key, args) ==
    \/ Finish(Failed) /\ UNCHANGED record
    \/ ~ cancelled /\ SaveAndSay([record EXCEPT !.project = uid],
                                 [kind |-> "project", key |-> key, project |-> uid, args |-> args])

\* projectCandidates; names compare without case, so one stands for its variants.
Candidates(projects, args) ==
    Kept(projects, {p \in Range(projects) :
        /\ Len(args) >= 1 => p.org = args[1]
        /\ Len(args) = 2 => p.name = args[2]})

\* GetProject finds the one argument.
ByUID(user, args) == Len(args) = 1 /\ args[1] \in Segments /\ args[1] \in Access[user]

\* resolveProjectSelection: by UID, else by names, and the picker for a choice.
UseProject(flags, args) ==
    LET key == KeyOf(flags)
        found == Candidates(Listed[key], args)
        current == SelectInSeq(found, LAMBDA p : p.uid = record.project) - 1
    IN  /\ at = "idle"
        /\ \/ Finish(Note("failed")) /\ UNCHANGED <<record, pickerVars, wanted>>
           \/ /\ key = NoKey
              /\ Finish(Note("login required"))
              /\ UNCHANGED <<record, pickerVars, wanted>>
           \/ /\ key \in Users /\ ByUID(key, args)
              /\ Persist(args[1], key, args)
              /\ UNCHANGED <<pickerVars, wanted>>
           \/ /\ key \in Users /\ ~ ByUID(key, args) /\ Len(found) = 1
              /\ Persist(found[1].uid, key, args)
              /\ UNCHANGED <<pickerVars, wanted>>
           \/ /\ key \in Users /\ ~ ByUID(key, args) /\ Len(found) > 1 /\ Len(args) < 2
              /\ OpenPicker(found, current)
              /\ wanted' = args
              /\ Goto("picking")
              /\ asked' = key
              /\ UNCHANGED <<record, echo, attempt, left, tick>>
        /\ UNCHANGED <<env, listening>>

Pick ==
    /\ at = "picking"
    /\ Persist(candidates[selected + 1].uid, asked, wanted)
    /\ ClosePicker /\ wanted' = <<>>
    /\ UNCHANGED <<env, listening>>

\* Esc, or the context.
PickNothing ==
    /\ at = "picking"
    /\ Finish(Note("cancelled"))
    /\ ClosePicker /\ wanted' = <<>>
    /\ UNCHANGED <<record, env, listening>>

----------------------------------------------------------------------------
(* listen, up to the connection.                                            *)

HasRoutes(source) == source.routes > 0

Named(available, names) ==
    [i \in 1..Len(names) |-> available[SelectInSeq(available, LAMBDA s : s.name = names[i])]]

\* sourcesWithRoutes, or the named ones.
Selected(available, names) ==
    LET chosen == IF names = <<>> THEN available ELSE Named(available, names)
    IN  Kept(chosen, {s \in Range(chosen) : HasRoutes(s)})

Known(available, names) == \A i \in DOMAIN names : \E j \in DOMAIN available : available[j].name = names[i]

\* Mutant: named sources without a route are no error.
KnownIsEnough(available, names) == Known(available, names)

\* resolveSources: every name is known and some source is left.
Resolves(available, names) == Known(available, names) /\ Selected(available, names) # <<>>

\* The UIDs to join with: none means every source.
UIDs(available, names) ==
    IF names = <<>> THEN <<>>
    ELSE [i \in DOMAIN Selected(available, names) |-> Selected(available, names)[i].uid]

Skipped(available, names) ==
    {names[i] : i \in {j \in DOMAIN names : ~ HasRoutes(Named(available, names)[j])}}

\* listenCmd's run, which ends in errors at each look-up or goes on to listen.
Listen(flags, names) ==
    LET key == KeyOf(flags)
        uid == ProjectOf(flags)
        available == Sources[uid]
    IN  /\ at = "idle"
        /\ \/ Finish(Note("failed")) /\ UNCHANGED listening
           \/ /\ uid # Partly /\ key = NoKey
              /\ Finish(Note("login required"))
              /\ UNCHANGED listening
           \/ /\ uid = NoProject /\ key # NoKey
              /\ Finish(Note("no active project"))
              /\ UNCHANGED listening
           \/ /\ key \in Users /\ uid \in Projects /\ uid \in Access[key]
              /\ Resolves(available, names)
              /\ Goto("listening")
              /\ listening' = [key |-> key, project |-> uid, names |-> names,
                               sources |-> Selected(available, names),
                               uids |-> UIDs(available, names),
                               skipped |-> Skipped(available, names)]
              /\ UNCHANGED loginVars
        /\ UNCHANGED <<record, env, pickerVars, wanted>>

\* The run ends; the session itself is Supervisor's and Session's.
Hangup ==
    /\ at = "listening"
    /\ Finish(Note("none"))
    /\ listening' = NotListening
    /\ UNCHANGED <<record, env, pickerVars, wanted>>

----------------------------------------------------------------------------

\* Ctrl-C.
Cancel ==
    /\ at # "idle" /\ ~ cancelled
    /\ cancelled' = TRUE
    /\ UNCHANGED <<record, at, said, loginVars, shell>>

\* The user sets and unsets variables between commands.
Export ==
    /\ at = "idle"
    /\ env' \in Environments
    /\ said' = Note("none")
    /\ UNCHANGED <<record, at, cancelled, loginVars, pickerVars, wanted, listening>>

Init ==
    /\ record = [key |-> NoKey, project |-> NoProject]
    /\ at = "idle" /\ said = Note("none") /\ cancelled = FALSE
    /\ asked = NoKey /\ echo = TRUE
    /\ attempt = NoAttempt /\ left = 0 /\ tick = FALSE
    /\ Closed /\ wanted = <<>>
    /\ env \in Environments
    /\ listening = NotListening

Next ==
    \/ \E flags \in Flags, interactive \in BOOLEAN : LoginCommand(flags, interactive)
    \/ Logout
    \/ \E flags \in Flags, args \in Arguments : UseProject(flags, args)
    \/ \E flags \in Flags, names \in NameLists : Listen(flags, names)
    \/ LoginNext /\ UNCHANGED shell
    \/ at = "picking" /\ PickerNext /\ UNCHANGED <<record, at, said, cancelled, loginVars, env, wanted, listening>>
    \/ Pick \/ PickNothing
    \/ Hangup \/ Cancel \/ Export

Spec == Init /\ [][Next]_vars

\* Requests time out and the clock runs; the select takes the deadline sooner or
\* later, however often a tick is ready as well.
Fairness ==
    /\ WF_vars((StartLogin \/ ValidateKey \/ Poll \/ Pending \/ Approved \/ PollFails) /\ UNCHANGED shell)
    /\ WF_vars(left > 0 /\ Tick /\ UNCHANGED shell)
    /\ SF_vars(Deadline /\ UNCHANGED shell)
    /\ WF_vars(cancelled /\ (Prompt \/ \E key \in Keys : ReadKey(key)) /\ UNCHANGED shell)

FairSpec == Spec /\ Fairness

----------------------------------------------------------------------------
(* Properties.                                                              *)

NoFlags == [key |-> Unset, project |-> Unset]

\* Every variable has its type, and a terminal whose echo is off is waiting for
\* a key: no way out of the prompt, a Ctrl-C either, leaves it so.
TypeOK ==
    /\ record \in [key : Keys, project : Projects \cup {NoProject}]
    /\ at \in {"idle", "prompting", "reading", "validating", "starting", "polling", "asking",
               "picking", "listening"}
    /\ said.key \in Keys /\ said.project \in Projects \cup {NoProject}
    /\ cancelled \in BOOLEAN /\ asked \in Keys
    /\ echo \in BOOLEAN /\ ~ echo => at = "reading"
    /\ attempt \in [state : {"none", "pending", "approved", "gone"}, user : Keys,
                    project : Projects \cup {NoProject}]
    /\ left \in 0..MaxTTL /\ tick \in BOOLEAN
    /\ env \in Environments
    /\ candidates # <<>> <=> at = "picking"
    /\ listening # NotListening => at = "listening"

Eligible(user, args) ==
    LET Is(field, i) == {p \in Range(Listed[user]) : p[field] = args[i]}
    IN  CASE args = <<>> -> Range(Listed[user])
          [] Len(args) = 1 -> IF Is("uid", 1) # {} THEN Is("uid", 1) ELSE Is("org", 1)
          [] Len(args) = 2 -> Is("org", 1) \cap Is("name", 2)

\* Every variable has its type.  What the last command said still holds when
\* the next one starts: a login's account and project are the saved ones; after
\* a plain logout no command of this shell has a key, and after one that warned
\* of the environment every one has; and the project set is a choice the
\* arguments leave.  A key Hookspot refused is never saved over one that works.
MessagesAreTrue ==
    /\ TypeOK
    /\ record.key # Bad
    /\ said.kind = "in" => record.key = said.key /\ said.project \in {record.project, NoProject}
    /\ said.kind = "out" => KeyOf(NoFlags) = NoKey
    /\ said.kind = "still signed in" => KeyOf(NoFlags) # NoKey
    /\ said.kind = "project" =>
          /\ record.project = said.project
          /\ \E p \in Eligible(said.key, said.args) : p.uid = said.project
          /\ Len(said.args) = 2 => Cardinality(Eligible(said.key, said.args)) = 1

\* listen joins exactly the sources it shows.  It joins every source only when
\* none was named: names that all lost their routes never widen the join, and
\* a named source is joined or reported as skipped.
JoinsWhatWasNamed ==
    at = "listening" =>
        LET shown == Range(listening.sources)
            Joins(s) == listening.uids = <<>> \/ s.uid \in Range(listening.uids)
        IN  /\ {s \in Range(Sources[listening.project]) : Joins(s) /\ HasRoutes(s)} = shown
            /\ shown # {}
            /\ listening.names # <<>> =>
                  Range(listening.names) = {s.name : s \in shown} \cup listening.skipped

\* A login that needs nothing more from its user ends, whatever Hookspot
\* answers; and Ctrl-C ends one that waits for a key.
LoginEnds ==
    /\ at \in {"validating", "starting", "polling", "asking"} ~> at = "idle"
    /\ at \in {"prompting", "reading"} /\ cancelled ~> at = "idle"
=============================================================================

-------------------------------- MODULE Login --------------------------------
(* hookspot login: a key that is typed or given and then validated, or an    *)
(* attempt that is approved in the browser while the command polls for it.   *)
EXTENDS Integers, FiniteSets

CONSTANTS
    Users,                  \* accounts; a user stands for its CLI key
    Bad, NoKey,             \* a key no account has, and the empty one
    Projects, NoProject,
    Access,                 \* Access[u]: the projects of a user
    Lifetimes,              \* the expires_in Hookspot may send, in poll intervals
    DefaultTTL, MaxTTL,     \* browserLoginDefaultTTL and browserLoginMaxTTL
    Half                    \* 2^63 nanoseconds, in poll intervals: where a duration wraps

Keys == Users \cup {Bad, NoKey}

ASSUME LoginAssumption ==
    /\ Bad \notin Users /\ NoKey \notin Users \cup {Bad} /\ NoProject \notin Projects
    /\ Access \in [Users -> SUBSET Projects]
    /\ {DefaultTTL, MaxTTL, Half} \subseteq Nat /\ DefaultTTL <= MaxTTL /\ MaxTTL < Half
    /\ Lifetimes \subseteq Int

VARIABLES
    record,        \* the config file's key and project
    at,            \* where the command is; "idle" between commands
    said,          \* what the last command told the user
    cancelled,     \* ctx is done: Ctrl-C, or a signal
    asked,         \* the key the command is working with
    echo,          \* the terminal echoes what is typed
    attempt,       \* Hookspot's login attempt
    left,          \* intervals until the deadline
    tick           \* the poll's ticker has fired

loginVars == <<asked, echo, attempt, left, tick>>

NoAttempt == [state |-> "none", user |-> NoKey, project |-> NoProject]

Note(kind) == [kind |-> kind, key |-> NoKey, project |-> NoProject, args |-> <<>>]

\* An error, or the context's.
Failed == Note(IF cancelled THEN "cancelled" ELSE "failed")

\* The process ends; the deferred restore has run.
Finish(what) ==
    /\ at' = "idle" /\ said' = what /\ cancelled' = FALSE
    /\ asked' = NoKey /\ echo' = TRUE
    /\ attempt' = NoAttempt /\ left' = 0 /\ tick' = FALSE

Goto(place) == at' = place /\ UNCHANGED <<said, cancelled>>

\* A save of the record and the lines about it, either of which may fail.
SaveAndSay(r, what) ==
    \/ Finish(Note("failed")) /\ UNCHANGED record
    \/ record' = r /\ (Finish(what) \/ Finish(Note("failed")))

----------------------------------------------------------------------------
(* A key: the flag's, the environment's or the one typed.                   *)

\* Me, then SaveCLIKey, which no longer asks the context.
ValidateKey ==
    /\ at = "validating"
    /\ \/ Finish(Failed) /\ UNCHANGED record
       \/ /\ ~ cancelled /\ asked \in Users
          /\ SaveAndSay([record EXCEPT !.key = asked], [Note("in") EXCEPT !.key = asked])

\* disableInputEcho when standard input is a terminal, and the prompt.
Prompt ==
    /\ at = "prompting"
    /\ \/ Finish(Failed) /\ UNCHANGED record
       \/ /\ ~ cancelled
          /\ Goto("reading")
          /\ \E terminal \in BOOLEAN : echo' = ~ terminal
          /\ UNCHANGED <<record, asked, attempt, left, tick>>

\* The reader's result, unless the context is done, whichever select saw.  A key
\* that is too long, a failing read or restore, and an empty key end the login.
ReadKey(key) ==
    /\ at = "reading"
    /\ \/ Finish(Failed) /\ UNCHANGED record
       \/ /\ ~ cancelled /\ key # NoKey
          /\ Goto("validating")
          /\ asked' = key /\ echo' = TRUE
          /\ UNCHANGED <<record, attempt, left, tick>>

----------------------------------------------------------------------------
(* The browser.                                                             *)

\* time.Duration(expiresIn) * time.Second
Wrapped(n) == ((n + Half) % (2 * Half)) - Half

\* browserLoginTTL
TTL(expiresIn) ==
    IF expiresIn <= 0 THEN DefaultTTL
    ELSE IF Wrapped(expiresIn) > MaxTTL THEN MaxTTL ELSE Wrapped(expiresIn)

\* StartLogin, the browser, the card and the two timers.  A lifetime that
\* wrapped below zero fires the deadline at once.
StartLogin ==
    /\ at = "starting"
    /\ \/ Finish(Failed) /\ UNCHANGED record
       \/ /\ ~ cancelled
          /\ Goto("polling")
          /\ attempt' = [NoAttempt EXCEPT !.state = "pending"]
          /\ \E expiresIn \in Lifetimes :
                left' = IF TTL(expiresIn) < 0 THEN 0 ELSE TTL(expiresIn)
          /\ tick' = FALSE
          /\ UNCHANGED <<record, asked, echo>>

InBrowserLogin == at \in {"polling", "asking"}

\* An interval passes; the ticker drops ticks nobody takes.
Tick ==
    /\ InBrowserLogin
    /\ left' = IF left > 0 THEN left - 1 ELSE 0
    /\ tick' = TRUE
    /\ UNCHANGED <<record, at, said, cancelled, asked, echo, attempt>>

Deadline == at = "polling" /\ left = 0 /\ Finish(Note("expired")) /\ UNCHANGED record

PollCancelled == at = "polling" /\ cancelled /\ Finish(Note("cancelled")) /\ UNCHANGED record

\* Mutant: each round starts the deadline anew.
PollStartsAnew ==
    /\ at = "polling" /\ tick
    /\ Goto("asking")
    /\ tick' = FALSE /\ left' = MaxTTL
    /\ UNCHANGED <<record, asked, echo, attempt>>

Poll ==
    /\ at = "polling" /\ tick
    /\ Goto("asking")
    /\ tick' = FALSE
    /\ UNCHANGED <<record, asked, echo, attempt, left>>

\* SaveLogin's record: without a project the recorded one stays.
LoginRecord(key, uid) ==
    [key |-> key, project |-> IF uid = NoProject THEN record.project ELSE uid]

\* The context's error, an attempt that is gone, another refusal, one that is
\* polled over (a network error, a rate limit, a 5xx), and an approval without a key.
PollFails ==
    /\ at = "asking"
    /\ \/ cancelled /\ Finish(Note("cancelled")) /\ UNCHANGED record
       \/ ~ cancelled /\ attempt.state = "gone" /\ Finish(Note("expired")) /\ UNCHANGED record
       \/ ~ cancelled /\ Finish(Note("failed")) /\ UNCHANGED record
       \/ ~ cancelled /\ Goto("polling") /\ UNCHANGED <<record, loginVars>>
       \/ attempt.state = "approved" /\ Finish(Note("failed")) /\ UNCHANGED record

Pending ==
    /\ at = "asking" /\ attempt.state = "pending"
    /\ Goto("polling")
    /\ UNCHANGED <<record, loginVars>>

\* The approval saves, even when the context ended after the answer.
Approved ==
    /\ at = "asking" /\ attempt.state = "approved"
    /\ SaveAndSay(LoginRecord(attempt.user, attempt.project),
                  [Note("in") EXCEPT !.key = attempt.user, !.project = attempt.project])

\* The user, on Hookspot's page.
Approve(user) ==
    /\ InBrowserLogin /\ attempt.state = "pending"
    /\ \E uid \in Access[user] \cup {NoProject} :
          attempt' = [state |-> "approved", user |-> user, project |-> uid]
    /\ UNCHANGED <<record, at, said, cancelled, asked, echo, left, tick>>

\* Hookspot drops an attempt: expired, or handed out in an answer that got lost.
Drop ==
    /\ InBrowserLogin /\ attempt.state # "gone"
    /\ attempt' = [NoAttempt EXCEPT !.state = "gone"]
    /\ UNCHANGED <<record, at, said, cancelled, asked, echo, left, tick>>

LoginNext ==
    \/ Prompt \/ \E key \in Keys : ReadKey(key)
    \/ ValidateKey
    \/ StartLogin \/ Tick \/ Deadline \/ PollCancelled \/ Poll
    \/ PollFails \/ Pending \/ Approved
    \/ \E user \in Users : Approve(user)
    \/ Drop
=============================================================================

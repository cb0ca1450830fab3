------------------------------ MODULE ApiClient -----------------------------
(* internal/api beside the commands that use it (cmd): one command of a       *)
(* release built for a server calls it, and its error, if any, is shown by    *)
(* HandleError. Hookspot answers as it likes; the user interrupts any call.   *)
EXTENDS Endpoint

CONSTANTS
    Built,           \* the server URLs a release is built with
    Identifiers,     \* UIDs, slugs and tokens the server or the user gives
    Answers,         \* Hookspot's: [status, body]
    MaxCalls         \* bound: calls of one command

ApiClientAssumption == MaxCalls \in Nat

VARIABLES
    raw,             \* serverURL
    base,            \* activeEndpoint
    call,            \* the request under way, or Nothing
    used,            \* the last URL a request, the socket or the browser got
    calls,           \* their number
    answer,          \* the last answer, Nothing if there was none
    outcome,         \* the command's error, or Fine
    shown            \* HandleError's exit code and the hint's kind

vars == <<raw, base, call, used, calls, answer, outcome, shown>>

Nothing == [nothing |-> TRUE]

----------------------------------------------------------------------------
(* Errors.                                                                  *)

Fine == [kind |-> "fine"]
Failure(kind) == [kind |-> kind]

\* A body is "huge", "text", or an object [message, reason, error], whose error
\* is absent, a text or [message, reason]. "" is a text that isn't there.
IsObject(body) == body.form = "object"

\* apiErrorDetails: the first of message, reason and the nested error's two, or
\* the whole text; and the top-level reason.
ApiErrorDetails(body) ==
    LET said == IF IsObject(body)
                THEN SelectSeq(<<body.message, body.reason, body.error.message, body.error.reason>>,
                               LAMBDA text : text # "")
                ELSE <<body.form>>
        own == IsObject(body) /\ (body.message # "" \/ body.reason # "")
    IN  [message |-> IF said = <<>> THEN "raw" ELSE said[1],
         reason |-> IF own THEN body.reason ELSE ""]

\* decodeErrorResponse
ApiError(status, body) ==
    LET details == ApiErrorDetails(body)
    IN  [kind |-> "api", status |-> status, message |-> details.message,
         outdated |-> details.reason = "cli_outdated"]

\* do: reads are 200, and what a POST creates 201.
Success(post, status) == status = 200 \/ (post /\ status = 201)

\* do, from the answer on. A body over the limit or not JSON is an error.
Decoded(post, reply) ==
    IF ~Success(post, reply.status) THEN ApiError(reply.status, reply.body)
    ELSE IF IsObject(reply.body) THEN Fine
    ELSE Failure("decode")

\* fatalErrorMessage
FatalErrorMessage(error) ==
    CASE error.kind # "api" -> error.kind
      [] error.kind = "api" /\ error.outdated -> "upgrade"
      [] error.kind = "api" /\ ~error.outdated /\ error.status \in 300..399 -> "redirect"
      [] error.kind = "api" /\ ~error.outdated /\ error.status \in {401, 403, 404, 429} -> "status"
      [] error.kind = "api" /\ ~error.outdated /\ error.status >= 500 -> "unavailable"
      [] OTHER -> "message"

\* HandleError
HandleError(error) ==
    IF error.kind \in {"fine", "cancelled"} THEN [exit |-> 0, hint |-> "none"]
    ELSE [exit |-> 1, hint |-> FatalErrorMessage(error)]

----------------------------------------------------------------------------
(* The command.                                                             *)

Checked == {"project", "sources", "page"}
Fixed == {"me", "auth", "websocket"}
Kinds == Checked \cup Fixed \cup {"login"}

\* The calls' relative paths.
RelativePath(kind, id) ==
    CASE kind = "me" -> <<"cli", "me">>
      [] kind = "auth" -> <<"cli", "auth">>
      [] kind = "project" -> <<"cli", "projects">> \o id
      [] kind = "sources" -> <<"cli", "projects">> \o id \o <<"sources">>
      [] kind = "login" -> <<"cli", "login">> \o id
      [] kind = "page" -> id \o <<"requests">>
      [] kind = "websocket" -> <<"cli", "websocket">>

\* Its URL, Invalid if there is none. A page's slugs are its two identifiers,
\* here the same.
URL(kind, id) ==
    IF kind = "websocket" THEN WebSocket(base)
    ELSE IF kind \in Checked /\ ~Segment(id) THEN Invalid
    ELSE API(base, IF kind = "page" THEN RelativePath(kind, id \o id) ELSE RelativePath(kind, id))

\* PersistentPreRunE: CurrentBuildInfo prints the URL, and networkEndpoint reads
\* what was printed.
Start(url) ==
    /\ raw = Nothing
    /\ raw' = url
    /\ LET built == Parse(url)
       IN  base' = IF built = Invalid THEN Invalid ELSE Parse(String(built))
    /\ outcome' = IF base' = Invalid THEN Failure("command") ELSE Fine
    /\ UNCHANGED <<call, used, calls, answer, shown>>

Running == raw # Nothing /\ outcome = Fine /\ shown = Nothing

\* The pages and the login's URL are shown or opened, and the socket's dialled.
Call(kind, id) ==
    /\ Running /\ call = Nothing /\ calls < MaxCalls
    /\ calls' = calls + 1
    /\ LET url == URL(kind, id)
       IN  IF url = Invalid
           THEN /\ outcome' = IF kind = "page" THEN Fine ELSE Failure("identifier")
                /\ UNCHANGED <<call, used>>
           ELSE /\ used' = [kind |-> kind, id |-> id, url |-> url]
                /\ call' = IF kind \in {"me", "auth", "project", "sources"}
                           THEN [kind |-> kind, url |-> url] ELSE Nothing
                /\ UNCHANGED outcome
    /\ UNCHANGED <<raw, base, answer, shown>>

\* Mutant: redirects are followed, with the key.
Followed(reply) ==
    IF reply.status \in 300..399
    THEN used' = [used EXCEPT !.url = reply.location]
    ELSE UNCHANGED used

\* New: a redirect is an answer like any other.
CheckRedirect(reply) == UNCHANGED used

Answer(reply) ==
    /\ call # Nothing
    /\ answer' = reply /\ call' = Nothing
    /\ outcome' = Decoded(call.kind = "auth", reply)
    /\ CheckRedirect(reply)
    /\ UNCHANGED <<raw, base, calls, shown>>

\* The call's error wraps the context's, or is the connection's or Timeout's.
Break(why) ==
    /\ call # Nothing
    /\ call' = Nothing /\ outcome' = Failure(why)
    /\ answer' = [broken |-> why]
    /\ UNCHANGED <<raw, base, used, calls, shown>>

\* main: the command returns.
Return ==
    /\ raw # Nothing /\ call = Nothing /\ shown = Nothing
    /\ shown' = HandleError(outcome)
    /\ UNCHANGED <<raw, base, call, used, calls, answer, outcome>>

Init ==
    /\ raw = Nothing /\ base = Nothing /\ call = Nothing /\ used = Nothing /\ calls = 0
    /\ answer = Nothing /\ outcome = Fine /\ shown = Nothing

Next ==
    \/ \E url \in Built : Start(url)
    \/ \E kind \in Fixed : Call(kind, <<>>)
    \/ \E kind \in Kinds \ Fixed, id \in Identifiers : Call(kind, id)
    \/ \E reply \in Answers : Answer(reply)
    \/ \E why \in {"cancelled", "network"} : Break(why)
    \/ Return

Spec == Init /\ [][Next]_vars

----------------------------------------------------------------------------
(* Properties.                                                              *)

\* Every variable has its type; a base has one of the two schemes and a port
\* that isn't its scheme's own.
TypeOK ==
    /\ raw \in Built \cup {Nothing} /\ calls \in 0..MaxCalls
    /\ call = Nothing \/ call.kind \in Kinds
    /\ base \in {Nothing, Invalid} \/
          <<base.scheme, base.port>> \in
             ({"http", "https"} \X ({NoPort} \cup {Port(n) : n \in {80, 443, 8080}}))
                \ {<<"http", Port(80)>>, <<"https", Port(443)>>}
    /\ shown = Nothing \/ shown.exit \in {0, 1}

\* The URL that is printed is read again for every command: a release runs if
\* and only if the URL it was built with is valid, with the base that URL is.
PrintedURLsAreRead == raw # Nothing => base = Parse(raw)

\* What a valid URL names: the host in any case or spelling, the port with its
\* default, and the path with or without its last slash.
Names(url) ==
    [scheme |-> SchemeOf(url), ip |-> url.host.ip,
     name |-> [i \in DOMAIN url.host.labels |-> Lower(url.host.labels[i])],
     port |-> IF url.port.kind = "number" THEN url.port.value
              ELSE IF SchemeOf(url) = "https" THEN 443 ELSE 80,
     path |-> TrimSlash(url.path)]

\* Two valid URLs have one base if and only if they name one deployment.
SpellingsAgree ==
    raw = Nothing /\ base' # Invalid =>
        \A url \in Built : Parse(url) # Invalid =>
            ((Parse(url) = base') <=> (Names(url) = Names(raw')))

\* The key goes nowhere but to the built URL's deployment: every URL used has
\* its host and port, is as secure, is below its path without dots, and is the
\* call that was meant: an identifier from elsewhere is one segment of it.
CallsStayInTheirPlace ==
    used # Nothing =>
        LET url == used.url
            under == SubSeq(url.path, Len(base.path) + 1, Len(url.path))
            ids == IF used.kind = "page" THEN used.id \o used.id ELSE used.id
        IN  /\ <<url.host, url.port>> = <<base.host, base.port>>
            /\ url.scheme \in (IF base.scheme = "https" THEN {"https", "wss"} ELSE {"http", "ws"})
            /\ url.path = base.path \o under /\ under = RelativePath(used.kind, ids)
            /\ Range(under) \cap (Dots \cup {""}) = {}
            /\ used.kind \in Checked => Len(under) = (IF used.kind = "sources" THEN 4 ELSE 3)

\* A release the server refuses is told how to upgrade, whatever the status; a
\* command the user interrupted exits as one that worked, and no other error does.
ErrorsAreToldApart ==
    shown # Nothing =>
        /\ answer \in Answers /\ ~Success(TRUE, answer.status) /\ IsObject(answer.body)
              /\ answer.body.reason = "cli_outdated" /\ outcome.kind = "api"
                 => shown.hint = "upgrade"
        /\ shown.exit = 0 <=> (outcome = Fine \/ answer = [broken |-> "cancelled"])

\* Nothing the server refuses counts as a result, and what it says in an object
\* is shown as it says it, wherever in the object that is.
RefusalsAreExplained ==
    answer \in Answers =>
        /\ outcome = Fine => answer.status \in {200, 201} /\ IsObject(answer.body)
        /\ outcome.kind = "api" /\ IsObject(answer.body) =>
              LET body == answer.body
                  said == {body.message, body.reason, body.error.message, body.error.reason} \ {""}
              IN  said # {} => outcome.message \in said
=============================================================================

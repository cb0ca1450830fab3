------------------------------ MODULE Forwarder -----------------------------
(* internal/proxy: the target typed for --forward-to, where deliveries go,    *)
(* the headers they go with, and the command that forwards the same way.      *)
(* A URL is a sequence of parts: authorities, slashes, names and characters   *)
(* that a URL can't have, which url.Parse escapes, or that no path may have.  *)
EXTENDS Integers, Sequences, SequencesExt, FiniteSets, FiniteSetsExt

CONSTANTS
    Typed,           \* the targets typed: [form, authority, path]
    Deliveries,      \* [path, headers], headers a set of [name, lower, value]
    MaxCopies        \* bound: commands built from commands

ForwarderAssumption ==
    /\ MaxCopies \in Nat
    /\ \A raw \in Typed : raw.form \in {"port", "host", "http", "https", "ftp"}

VARIABLES
    typed,           \* what was typed
    forwarder,       \* the Forwarder, or Rejected
    sent, result,    \* the last delivery, and where it went
    copies           \* commands built one from another

vars == <<typed, forwarder, sent, result, copies>>

----------------------------------------------------------------------------
(* The target.                                                              *)

Rejected == [rejected |-> TRUE]
Nothing == [nothing |-> TRUE]

\* Characters of a path.
Escapable == "u-umlaut"
Escape == "%C3%BC"
BadEscape == "%zz"
NoPathHas == {"?", "#", " "}

\* validPort, the host and user information are the authority's.
ValidAuthorities == {"localhost:8080", "web_app"}

\* New: a bare port targets localhost, and http is the scheme unless one is typed.
Authority(raw) == IF raw.form = "port" THEN "localhost:8080" ELSE raw.authority
Scheme(raw) == IF raw.form \in {"port", "host"} THEN "http" ELSE raw.form

\* EscapedPath
Escaped(path) == [i \in DOMAIN path |-> IF path[i] = Escapable THEN Escape ELSE path[i]]

EndsWithSlash(path) == IsSuffix(<<"/">>, path)

\* TrimSuffix(path, "/")
TrimSlash(path) == IF EndsWithSlash(path) THEN Front(path) ELSE path

\* parseTarget
ValidTarget(raw) ==
    /\ Scheme(raw) \in {"http", "https"}
    /\ Authority(raw) \in ValidAuthorities
    /\ Range(raw.path) \cap (NoPathHas \cup {BadEscape}) = {}

\* New
New(raw) ==
    IF ValidTarget(raw)
    THEN [targetBaseURL |-> <<Scheme(raw), Authority(raw)>> \o TrimSlash(Escaped(raw.path)),
          trailingSlash |-> EndsWithSlash(raw.path)]
    ELSE Rejected

\* String
String(f) == IF f.trailingSlash THEN Append(f.targetBaseURL, "/") ELSE f.targetBaseURL

\* What typing a URL is read as.
Read(url) == [form |-> url[1], authority |-> url[2], path |-> SubSeq(url, 3, Len(url))]

----------------------------------------------------------------------------
(* The destination.                                                         *)

Rooted(path) == IF IsPrefix(<<"/">>, path) THEN path ELSE <<"/">> \o path

\* url.Parse: the first part after the authority must be a slash, or it is one
\* host with it; it keeps what is escaped and escapes what isn't.
ParsedURL(url) ==
    LET path == SubSeq(url, 3, Len(url))
    IN  IF path = <<>> THEN url \o <<"/">>
        ELSE IF Head(path) # "/" THEN <<url[1], <<url[2], path>>>>
        ELSE <<url[1], url[2]>> \o Escaped(path)

\* DestinationURL, or Rejected.
DestinationURL(f, path) ==
    LET rooted == Rooted(path)
        after == IF rooted = <<"/">> /\ ~f.trailingSlash THEN <<>> ELSE rooted
    IN  IF Range(path) \cap (NoPathHas \cup {BadEscape}) # {} THEN Rejected
        ELSE ParsedURL(f.targetBaseURL \o after)

----------------------------------------------------------------------------
(* The headers.                                                             *)

HopByHop == {"Connection", "TE", "Host"}

\* canonicalHeaders: a name's values, however it is spelled.
CanonicalHeaders(headers) ==
    [name \in {h.name : h \in headers} |-> {h.value : h \in {g \in headers : g.name = name}}]

Without(headers, names) == [name \in DOMAIN headers \ names |-> headers[name]]


NamedByConnection(headers) ==
    IF "Connection" \in DOMAIN headers THEN UNION headers["Connection"] ELSE {}

\* Headers, with removeHopByHopHeaders
Headers(headers) ==
    LET canonical == CanonicalHeaders(headers)
    IN  Without(canonical, NamedByConnection(canonical) \cup HopByHop)

----------------------------------------------------------------------------
(* The steps.                                                               *)

\* listen with a target.
Start(raw) ==
    /\ typed = Nothing
    /\ typed' = raw /\ forwarder' = New(raw)
    /\ UNCHANGED <<sent, result, copies>>

Listening == typed # Nothing /\ forwarder # Rejected

\* Forward
Forward(delivery) ==
    /\ Listening
    /\ sent' = delivery
    /\ LET target == DestinationURL(forwarder, delivery.path)
       IN  result' = [failed |-> target = Rejected,
                      target |-> IF target = Rejected THEN String(forwarder) ELSE target,
                      headers |-> IF target = Rejected THEN Nothing ELSE Headers(delivery.headers)]
    /\ UNCHANGED <<typed, forwarder, copies>>

\* The Sources page's command, run elsewhere.
Copy ==
    /\ Listening /\ copies < MaxCopies
    /\ forwarder' = New(Read(String(forwarder)))
    /\ copies' = copies + 1
    /\ UNCHANGED <<typed, sent, result>>

Init ==
    /\ typed = Nothing /\ forwarder = Rejected
    /\ sent = Nothing /\ result = Nothing /\ copies = 0

Next ==
    \/ \E raw \in Typed : Start(raw)
    \/ \E delivery \in Deliveries : Forward(delivery)
    \/ Copy

Spec == Init /\ [][Next]_vars

----------------------------------------------------------------------------
(* Properties.                                                              *)

\* Every variable has its type, and a target is an http or https URL.
TypeOK ==
    /\ typed \in Typed \cup {Nothing} /\ copies \in 0..MaxCopies
    /\ forwarder # Rejected =>
          /\ forwarder.targetBaseURL[1] \in {"http", "https"}
          /\ forwarder.targetBaseURL[2] \in ValidAuthorities
          /\ forwarder.trailingSlash \in BOOLEAN
    /\ (sent = Nothing) <=> (result = Nothing)

\* "a command built from it forwards the same way": the command is accepted and
\* its target stays what it was, however often it is copied.
CopiesForwardTheSame == Copy => forwarder' = forwarder


\* No header meant for one hop goes on, under any spelling and any of several
\* Connection headers, and no other header or value is lost.
HeadersAreEndToEnd ==
    sent # Nothing /\ ~result.failed =>
        LET hop == {h \in sent.headers :
                       \/ h.name \in HopByHop
                       \/ \E c \in sent.headers : c.name = "Connection" /\ h.name \in c.value}
        IN  UNION {{<<name, value>> : value \in result.headers[name]} : name \in DOMAIN result.headers}
              = {<<h.name, h.value>> : h \in sent.headers \ hop}
=============================================================================

------------------------------ MODULE Endpoint ------------------------------
(* internal/endpoint: the server's URL that a release is built for, its       *)
(* canonical form, and the URLs below it. A path is the sequence of what its  *)
(* slashes part, so that one at the end is an empty last segment.             *)
EXTENDS Integers, Sequences, SequencesExt

Invalid == [invalid |-> TRUE]

----------------------------------------------------------------------------
(* The host: [ip, labels, spelling, bracketed], ip "" for a name.           *)

\* The long labels' lengths; what the others add doesn't matter.
LongLabels == [l61 |-> 61, l62 |-> 62, l63 |-> 63, l64 |-> 64]

LabelLength(label) == IF label \in DOMAIN LongLabels THEN LongLabels[label] ELSE 1

\* strings.ToLower
Lower(label) == IF label = "X" THEN "x" ELSE label

ValidLabel(label) == label \notin {"", "x-", "x_y"} /\ LabelLength(label) <= 63

NameLength(labels) ==
    FoldSeq(LAMBDA label, n : n + LabelLength(label), Len(labels) - 1, labels)

CanonicalIP(ip) == [ip |-> ip, labels |-> <<>>]

\* canonicalHostname: an address in its one spelling, a name in lower case.
CanonicalHostname(host) ==
    IF host.ip # "" THEN CanonicalIP(host.ip)
    ELSE IF /\ ~host.bracketed /\ NameLength(host.labels) <= 253
            /\ \A i \in DOMAIN host.labels : ValidLabel(host.labels[i])
    THEN [ip |-> "", labels |-> [i \in DOMAIN host.labels |-> Lower(host.labels[i])]]
    ELSE Invalid

----------------------------------------------------------------------------
(* Paths and ports.                                                         *)

Dots == {".", ".."}

\* validUnreservedSegment
ValidUnreservedSegment(segment) == segment \notin {"", "%2f", "a;b"} \cup Dots

ValidSegments(path) ==
    path # <<>> /\ \A i \in DOMAIN path : ValidUnreservedSegment(path[i])

\* TrimPrefix(value, "/")
TrimRoot(path) == IF Len(path) > 1 /\ path[1] = "" THEN Tail(path) ELSE path

\* validRelativePath
ValidRelativePath(path) == ValidSegments(TrimRoot(path))

\* TrimSuffix(value, "/") and TrimRight(u.Path, "/")
TrimSlash(path) == IF path # <<>> /\ Last(path) = "" THEN Front(path) ELSE path

\* validPath, of a path that is empty or begins with its slash.
ValidPath(path) == path \in {<<>>, <<"">>} \/ ValidSegments(TrimSlash(path))

\* A port is [kind, value, padded]; "host:" has an empty one.
NoPort == [kind |-> "none", value |-> 0, padded |-> FALSE]
Port(value) == [kind |-> "number", value |-> value, padded |-> FALSE]

ValidPort(port) ==
    port.kind = "none" \/ (port.kind = "number" /\ port.value \in 1..65535)

CanonicalPort(scheme, port) ==
    IF \/ port.kind = "none"
       \/ scheme = "https" /\ port.value = 443
       \/ scheme = "http" /\ port.value = 80
    THEN NoPort
    ELSE Port(port.value)

----------------------------------------------------------------------------
(* The deployment's URL: [scheme, host, port, path, extra].                 *)

\* url.Parse takes the scheme in any case.
SchemeOf(raw) == IF raw.scheme = "HTTPS" THEN "https" ELSE raw.scheme

\* url.Parse: an IPv6 address has its brackets, and nothing else has any.
URLHost(host) == host.bracketed = (host.ip # "" /\ (host.ip = "v6" \/ host.spelling = "mapped"))

\* Parse: the base, or Invalid.
Parse(raw) ==
    IF /\ raw.extra = "none" /\ SchemeOf(raw) \in {"http", "https"}
       /\ URLHost(raw.host) /\ CanonicalHostname(raw.host) # Invalid
       /\ ValidPath(raw.path) /\ ValidPort(raw.port)
    THEN [scheme |-> SchemeOf(raw), host |-> CanonicalHostname(raw.host),
          port |-> CanonicalPort(SchemeOf(raw), raw.port), path |-> TrimSlash(raw.path)]
    ELSE Invalid

\* u.Host of Parse: JoinHostPort's brackets, or its own.
Brackets(base) == base.host.ip = "v6"

\* String: the canonical URL, as a URL that can be typed.
String(base) ==
    [scheme |-> base.scheme, port |-> base.port, path |-> base.path, extra |-> "none",
     host |-> [ip |-> base.host.ip, labels |-> base.host.labels, spelling |-> "short",
               bracketed |-> Brackets(base)]]

\* API
API(base, relativePath) ==
    IF ValidRelativePath(relativePath)
    THEN [base EXCEPT !.path = @ \o TrimRoot(relativePath)]
    ELSE Invalid

\* WebSocket
WebSocket(base) ==
    [API(base, <<"cli", "websocket">>)
        EXCEPT !.scheme = IF base.scheme = "https" THEN "wss" ELSE "ws"]

\* Segment: an identifier split at its slashes.
Segment(identifier) ==
    Len(identifier) = 1 /\ identifier[1] \notin {"", "%2f", "a;b", "a.b"} \cup Dots
=============================================================================

----------------------------- MODULE ApiInputs ------------------------------
(* Values ApiClient is checked with: names and addresses in several spellings, *)
(* the ports about every bound, short paths, and answers of every kind.        *)
EXTENDS Endpoint

Name(labels, bracketed) ==
    [ip |-> "", labels |-> labels, spelling |-> "short", bracketed |-> bracketed]

IP(ip, spelling, bracketed) ==
    [ip |-> ip, labels |-> <<>>, spelling |-> spelling, bracketed |-> bracketed]

Full(last) == <<"l63", "l63", "l63", last>>

SomeHosts ==
    {Name(<<first>>, FALSE) : first \in {"x", "X", "x_y", "x-", "", "l63", "l64"}}
      \cup {Name(<<"x", "X">>, FALSE), Name(<<"x", "x">>, FALSE), Name(<<"x", "">>, FALSE),
            Name(<<"x">>, TRUE), Name(Full("l61"), FALSE), Name(Full("l62"), FALSE)}
      \cup {IP("v4", "short", FALSE), IP("v4", "mapped", TRUE), IP("v4", "short", TRUE),
            IP("v6", "short", TRUE), IP("v6", "long", TRUE), IP("v6", "short", FALSE)}

SomePorts ==
    {NoPort, [NoPort EXCEPT !.kind = "empty"]} \cup {Port(n) : n \in {0, 80, 443, 8080, 65536}}
      \cup {[Port(443) EXCEPT !.padded = TRUE]}

URLOf(scheme, host, port, path, extra) ==
    [scheme |-> scheme, host |-> host, port |-> port, path |-> path, extra |-> extra]

X == Name(<<"x">>, FALSE)

SomePaths == SeqOf({"", "a", "..", "%2f"}, 2)

SomeBuilt ==
    {URLOf("https", host, NoPort, <<>>, "none") : host \in SomeHosts}
      \cup {URLOf("https", host, port, <<>>, "none") :
               host \in {X, Name(<<"X">>, FALSE), IP("v6", "short", TRUE), IP("v6", "long", TRUE)},
               port \in SomePorts}
      \cup {URLOf("http", X, port, path, "none") : port \in {NoPort, Port(80)}, path \in SomePaths}
      \cup {URLOf(scheme, X, NoPort, <<"a">>, "none") : scheme \in {"https", "HTTPS", "ftp"}}
      \cup {URLOf("https", X, NoPort, <<>>, extra) : extra \in {"user", "query", "fragment", "space"}}

SomeIdentifiers ==
    {<<"u1">>, <<"a", "b">>, <<"..">>, <<"">>, <<"a.b">>, <<"u1", "">>, <<"%2f">>}

Text(form) == [form |-> form]

Object(message, reason, nested) ==
    [form |-> "object", message |-> message, reason |-> reason, error |-> nested]

NoError == [message |-> "", reason |-> ""]

Elsewhere == [scheme |-> "https", host |-> [ip |-> "v4", labels |-> <<>>], port |-> NoPort,
              path |-> <<"cli", "me">>]

Reply(status, body) == [status |-> status, location |-> Elsewhere, body |-> body]

SomeAnswers ==
    {Reply(status, body) : status \in {200, 201, 204, 302, 404, 422, 503},
        body \in {Text("huge"), Object("m", "cli_outdated", NoError)}}
      \cup {Reply(422, body) : body \in {
                Text("text"), Object("", "", NoError), Object("", "cli_outdated", NoError),
                Object("", "", [message |-> "", reason |-> "r"]),
                Object("", "", [message |-> "n", reason |-> "cli_outdated"])}}
=============================================================================

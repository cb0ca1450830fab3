-------------------------- MODULE ForwarderInputs ---------------------------
(* Values Forwarder is checked with: every short path, some of which no target *)
(* or delivery may have, and every choice of six headers, three of them        *)
(* Connection's.                                                               *)
EXTENDS Sequences, SequencesExt

ShortPaths == {<<>>} \cup {<<"/">> \o p : p \in SeqOf({"/", "x", "u-umlaut"}, 2)}

SomeTyped ==
    [form : {"port", "host", "https"}, authority : {"web_app"}, path : ShortPaths]
      \cup [form : {"ftp"}, authority : {"web_app"}, path : {<<>>}]
      \cup [form : {"host"}, authority : {"user@web_app", "", "web_app:0"}, path : {<<"/">>}]
      \cup [form : {"http"}, authority : {"web_app"}, path : {<<"/", "?">>, <<"/", "%zz">>}]

SomePaths == SeqOf({"/", "x", "u-umlaut"}, 2) \cup {<<"/", "?">>, <<"x", "%zz">>}

Header(name, lower, value) == [name |-> name, lower |-> lower, value |-> value]

SomeHeaders == SUBSET {
    Header("Connection", FALSE, {"A", "TE"}), Header("Connection", TRUE, {"B"}),
    Header("A", FALSE, {"1"}), Header("A", TRUE, {"2"}), Header("B", TRUE, {"1"}),
    Header("Host", FALSE, {"web_app"})}

SomeDeliveries ==
    [path : SomePaths, headers : {{}}] \cup [path : {<<"/">>}, headers : SomeHeaders]
=============================================================================

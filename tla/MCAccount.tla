------------------------------ MODULE MCAccount ------------------------------
(* Two accounts: one with three projects, the other with one of them.        *)
EXTENDS Account

CONSTANTS ann, bob

MCUsers == {ann, bob}

Project(uid, org, name) == [uid |-> uid, org |-> org, name |-> name]

\* An organization may be named as another one's project UID.
MCListed == [u \in MCUsers |->
    IF u = ann THEN <<Project("p1", "Acme", "Web"), Project("p2", "Acme", "Jobs"),
                      Project("p3", "p1", "Web")>>
    ELSE <<Project("p2", "Acme", "Jobs")>>]

MCProjects == {"p1", "p2", "p3"}
MCAccess == [u \in MCUsers |-> {MCListed[u][i].uid : i \in DOMAIN MCListed[u]}]
MCSegments == {"p1", "p2", "p3", "nope"}

Source(name, routes) == [uid |-> name, name |-> name, routes |-> routes]

MCSources == [uid \in MCProjects |->
    CASE uid = "p1" -> <<Source("a", 1), Source("b", 0), Source("c", 2)>>
      [] uid = "p2" -> <<Source("b", 0)>>
      [] OTHER -> <<Source("a", 1)>>]

MCEnvironments == [key : {Unset, NoKey, ann}, project : {Unset, Partly, "p1"}]
MCFlags == [key : {Unset, NoKey, bob, Bad}, project : {Unset, NoProject, "p2"}]
MCArguments == {<<>>, <<"p1">>, <<"Acme">>, <<"nope">>, <<"Acme", "Web">>}
MCNameLists == {<<>>, <<"a">>, <<"b">>, <<"a", "b">>, <<"c", "a", "c">>, <<"nope">>}

\* Never given, the default, more than the cap, and a number that wraps.
MCLifetimes == {0, 1, 5, 9}
=============================================================================

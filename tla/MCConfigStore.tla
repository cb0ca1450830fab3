--------------------------- MODULE MCConfigStore ---------------------------
(* Two processes, interchangeable, and one project to choose.               *)
EXTENDS ConfigStore, TLC

Processes == Permutations(Procs)

\* A seed without a key only allows less, and a logout makes one; and without a
\* file nobody reads the seed.
SomeSeed ==
    LET seed == data[Seed].record
    IN  /\ seed.key = Seed
        /\ (\A path \in Paths : disk[path] = Absent) => seed.project = NoProject

MCInit == Init /\ SomeSeed

MCSpec == MCInit /\ [][Next]_vars
=============================================================================

------------------------------ MODULE MCConnect ------------------------------
(* Instances of Connect for TLC: four processes, two addresses. *)
EXTENDS Connect

CONSTANTS p1, p2, p3, p4, home, away

Procs == {p1, p2, p3, p4}

C(role, dials, at, empty) == [role |-> role, dials |-> dials, at |-> at, empty |-> empty]

\* Every command, at the first address; the second one has the two usual ones.
Commands ==
    {C("send", dials, home, empty) : dials, empty \in BOOLEAN}
        \cup {C("recv", dials, home, FALSE) : dials \in BOOLEAN}
        \cup {C("send", TRUE, away, FALSE), C("recv", FALSE, away, FALSE)}
=============================================================================

------------------------- MODULE MCServiceJournal -------------------------
(***************************************************************************)
(* Two units and two processes.  The first unit is added, replaced,        *)
(* retired or kept, found in every state, without a file and yet enabled    *)
(* among them; the second is retired.                                       *)
(***************************************************************************)
EXTENDS ServiceJournal, TLC

CONSTANTS u1, u2, d1, d2

MCUnits == {u1, u2}
MCDrivers == {d1, d2}

Found(f, a, e) == [file |-> f, loaded |-> f, active |-> a, enabled |-> e]
Vacant == Found("none", FALSE, FALSE)
Present == {Found("old", TRUE, TRUE), Found("old", TRUE, FALSE), Found("old", FALSE, FALSE)}
Linked == Found("none", FALSE, TRUE)
Stale == [file |-> "none", loaded |-> "old", active |-> FALSE, enabled |-> FALSE]

Case(p, q, found, required) ==
    [previous |-> p, proposed |-> q, found |-> found, required |-> required]

FirstUnit ==
    {Case("undeclared", "after", Vacant, FALSE), Case("undeclared", "after", Stale, FALSE),
     Case("before", "after", Linked, FALSE), Case("before", "after", Vacant, TRUE),
     Case("before", "before", Found("old", TRUE, TRUE), TRUE)}
    \cup {Case("before", "after", f, TRUE) : f \in Present}
    \cup {Case("before", "undeclared", Found("old", a, a), TRUE) : a \in BOOLEAN}

SecondUnit == {Case("before", "undeclared", Found("old", FALSE, FALSE), FALSE)}

MCScenarios == {(u1 :> a @@ u2 :> b) : a \in FirstUnit, b \in SecondUnit}

Symmetry == Permutations(MCDrivers)
=============================================================================

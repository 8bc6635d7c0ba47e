------------------------ MODULE MCTransitionExecution ------------------------
(***************************************************************************)
(* Three operations under every acyclic graph (up to renaming), a cycle, a *)
(* self-dependency and an unknown dependency; at most one operation refers *)
(* to another's intelligence. The second works inside the poll.            *)
(***************************************************************************)
EXTENDS TransitionExecution

Unknown == 0
MCOps == 1 .. 3
MCBlocking == {2}
MCAttempts == [o \in MCOps |-> IF o = 1 THEN 2 ELSE 1]

Forward == {g \in [MCOps -> SUBSET MCOps] : \A o \in MCOps : g[o] \subseteq 1 .. o - 1}
Refused == {<<{2}, {1}, {}>>, <<{1}, {}, {}>>, <<{}, {Unknown}, {2}>>}
MCGraphs == Forward \cup Refused
Chain == {<<{}, {1}, {2}>>}

Nothing == [o \in MCOps |-> {}]
MCNeeds == {Nothing} \cup {[Nothing EXCEPT ![o] = {i}] : o \in 2 .. 3, i \in 1 .. 2}
NoNeeds == {Nothing}
=============================================================================

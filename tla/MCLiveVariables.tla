--------------------------- MODULE MCLiveVariables ---------------------------
(* A small instance of LiveVariables for TLC.                              *)
EXTENDS LiveVariables, TLC

CONSTANTS r1, r2, v1, v2, v3, main, daemon, ui, d1, d2, k1, k2, a, b

\* The runtime's process connects twice under one session. Two incarnations of
\* a service use the same session, and the second of them connects twice.
MainSession == [c \in Connections |-> IF c \in {r1, r2} THEN main ELSE daemon]
MainProcess == [c \in Connections |->
    IF c \in {r1, r2} THEN ui ELSE IF c = v1 THEN d1 ELSE d2]

TwoKeys == {Empty, k1 :> a, k1 :> b, k2 :> a}

\* Connections of one process and session are alike.
Alike == Permutations({r1, r2}) \cup Permutations({v2, v3})
=============================================================================

-------------------------- MODULE MCRuntimeOpening --------------------------
(* Two Open calls and two processes: each call may start both, or a process *)
(* may come from outside. A liveness property is checked, so no symmetry.   *)
EXTENDS RuntimeOpening
=============================================================================

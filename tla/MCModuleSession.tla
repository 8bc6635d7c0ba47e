-------------------------- MODULE MCModuleSession --------------------------
EXTENDS ModuleSession, TLC

CONSTANTS c1, c2, s1, s2

\* Every connection registers under an identifier of its own.
OwnSessions == (c1 :> s1) @@ (c2 :> s2)

=============================================================================

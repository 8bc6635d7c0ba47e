-------------------------- MODULE MCIpcMiddleware --------------------------
EXTENDS IpcMiddleware, TLC

\* Owners and identifiers are interchangeable.
Symmetry == Permutations(Owners) \cup Permutations(Ids)
=============================================================================

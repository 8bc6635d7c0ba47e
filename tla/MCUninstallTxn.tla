--------------------------- MODULE MCUninstallTxn ---------------------------
(* Either command on a module with two services, one required, an autostart*)
(* entry between them, two directories, one the user's choice, and two     *)
(* settings to rewrite.                                                    *)
EXTENDS InstallTxn

CONSTANTS u1, u2, a1, d1, d2

ThreeExtras == <<u1, a1, u2>>
TwoDirectories == <<d1, d2>>
=============================================================================

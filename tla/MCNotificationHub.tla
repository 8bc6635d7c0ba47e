------------------------- MODULE MCNotificationHub -------------------------
(***************************************************************************)
(* Two presentations by a session or Boss, of which the second may replace *)
(* the first, under ids the server gives out once.                         *)
(***************************************************************************)
EXTENDS NotificationHub

CONSTANT s1

MCModuleSessions == {s1}
MCIds == 1 .. 2
=============================================================================

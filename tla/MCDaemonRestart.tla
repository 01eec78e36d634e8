--------------------------- MODULE MCDaemonRestart ---------------------------
(* DaemonRestart by itself: one daemon that is restarted.                  *)
EXTENDS DaemonRestart
=============================================================================

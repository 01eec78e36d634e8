--------------------------- MODULE MCTerminalPage ---------------------------
(* TerminalPage by itself: one connection that is lost while the shell     *)
(* writes.                                                                 *)
EXTENDS TerminalPage
=============================================================================

--------------------------- MODULE MCLivenessParts ---------------------------
(***************************************************************************)
(* LivenessParts on small instances.                                       *)
(*                                                                         *)
(* Flow control has one viewer and the renderer: three waiting chunks, or  *)
(* three units that a consumer has not taken, pause the PTY, so that every *)
(* reason to pause and every order of the reasons going away occurs.  In   *)
(* the delivery a batch is full at two chunks, the ring keeps two, and the *)
(* pending hold overflows at the third chunk or at the third frame         *)
(* boundary.  Two tabs share a directory, part, and meet again or have two *)
(* changes or prompts: three news, which no attachment counts against.     *)
(* Two callers open tabs in the browser, with a socket to replace the one  *)
(* that replaced another.  The page loses its connection or its shell      *)
(* twice around one choice of the user.  The machine is kept awake with no *)
(* floor and two of them, with a charge above both.  The forced kill of an *)
(* agent comes after the other events had their time.  The extension has   *)
(* two upsets among four sockets that are not forgotten.                   *)
(***************************************************************************)
EXTENDS LivenessParts, TLC

TwoTabs == ("v1" :> "s1") @@ ("v2" :> "s2")
FourSockets == 1 .. 4
=============================================================================

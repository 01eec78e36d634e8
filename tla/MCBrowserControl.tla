-------------------------- MODULE MCBrowserControl --------------------------
(* BrowserControl by itself: two openers and three sockets, so that one    *)
(* replaces another while calls and the probe of the keepalive are under   *)
(* way.                                                                    *)
EXTENDS BrowserControl
=============================================================================

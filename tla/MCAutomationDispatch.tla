------------------------ MODULE MCAutomationDispatch ------------------------
(***************************************************************************)
(* Instances of AutomationDispatch for TLC.                                *)
(***************************************************************************)
EXTENDS AutomationDispatch

(* Every edit of the settings, over all policies and runners. *)
EveryPolicy == {"skip", "queue-latest", "allow"}
EveryRunner == {"shell", "fresh", "thread"}

(* Forever, or one automatic run. *)
ForeverOrOnce == {0, 1}

Forever == {0}
OnlySkip == {"skip"}
OnlyShell == {"shell"}

=============================================================================

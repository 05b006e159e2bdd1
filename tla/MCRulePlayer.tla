----------------------------- MODULE MCRulePlayer -----------------------------
(***************************************************************************)
(* A second handle gives a timer that was lost sight of a place to live;   *)
(* four clicks pause, restart, jump and resume in any order.               *)
(***************************************************************************)
EXTENDS RulePlayer

MCHandles == {"h1", "h2"}
==============================================================================

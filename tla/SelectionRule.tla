---------------------------- MODULE SelectionRule ----------------------------
(***************************************************************************)
(* What entry selection promises, without saying how: one answer per       *)
(* container, target and policy, committed to once, and that answer is the *)
(* candidate no other candidate outranks.                                  *)
(***************************************************************************)
EXTENDS EntryOrder

CONSTANTS Containers,   \* the containers, each a sequence of entries
          Targets,      \* the GPUs asked about
          NoEntry,      \* the answer "no entry is selected"
          Pending       \* there is no answer yet

VARIABLES container, target, policy, answer

vars == <<container, target, policy, answer>>

IsAnswer(p, a) == IF p = {} THEN a = NoEntry ELSE BestOf(container, p, a)

Init == /\ container \in Containers
        /\ target \in Targets
        /\ policy \in Policies
        /\ answer = Pending

Commit == /\ answer = Pending
          /\ IsAnswer(Pool(container, target, policy), answer')
          /\ UNCHANGED <<container, target, policy>>

Spec == Init /\ [][Commit]_vars
==============================================================================

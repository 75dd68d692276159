-------------------------- MODULE MCAgentResponder --------------------------
(***************************************************************************)
(* Small instances of AgentResponder: two messages of one conversation and *)
(* two responders, so that answers overtake messages and each other.       *)
(***************************************************************************)
EXTENDS AgentResponder, TLC

Symmetry == Permutations(Workers)

=============================================================================

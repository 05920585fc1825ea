-------------------------- MODULE MCGovernedAction --------------------------
(***************************************************************************)
(* GovernedAction for TLC.  A small and a large input, a policy without a  *)
(* row limit and one that admits the small input only.                     *)
(***************************************************************************)
EXTENDS GovernedAction, TLC

CONSTANTS small, large, free, limited

MCRows == [i \in Inputs |-> IF i = small THEN 1 ELSE 2]
MCMaxRows == [p \in Policies |-> IF p = limited THEN 1 ELSE 0]

(* No action or property tells one call of a kind from another. *)
MCSymmetry == Permutations(Executes) \cup Permutations(Previews)

(* A bound: once time has passed, only what happens under the policy free  *)
(* is looked at.  Changes of the policy and the passing of time are both   *)
(* explored against every step, but not against each other.                *)
MCCalm == now > 0 => policy = free
=============================================================================

-------------------------- MODULE MCCodexDelivery --------------------------
(***************************************************************************)
(* CodexDelivery on small instances.                                       *)
(***************************************************************************)
EXTENDS CodexDelivery, TLC

MCCallers == Listeners \cup {Agent}

\* Listeners and tokens are mere names.  Not for runs with liveness.
Symmetry == Permutations(Listeners) \cup Permutations(Tokens)
=============================================================================

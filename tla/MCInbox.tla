------------------------------ MODULE MCInbox ------------------------------
(***************************************************************************)
(* Inbox on small instances.                                               *)
(***************************************************************************)
EXTENDS Inbox, TLC

\* Tokens and callers are mere names.
Symmetry == Permutations(Tokens) \cup Permutations(Callers)
=============================================================================

----------------------------- MODULE MCWSIngress -----------------------------
(* Instances of WSIngress for TLC. *)
EXTENDS WSIngress, TLC

Symmetry == Permutations(RequestIds)
=============================================================================

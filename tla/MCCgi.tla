------------------------------- MODULE MCCgi -------------------------------
(* Small instances of workers that run scripts, for TLC. *)
EXTENDS Cgi, TLC

Symmetry == Permutations(Workers)

=============================================================================

-------------------- MODULE MCSourceHandlingAuthority --------------------
(* Publishers are interchangeable: they hold nothing but their own step.   *)
EXTENDS SourceHandlingAuthority, TLC

Symmetry == Permutations(Publisher) \cup Permutations(Registry)

=============================================================================

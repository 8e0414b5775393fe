----------------------------- MODULE MCPollerEvents -----------------------------
(* An instance of PollerEvents for TLC. *)
EXTENDS PollerEvents

CONSTANTS d0, d1, d2, d3

FourDescriptors == {d0, d1, d2, d3}
DescriptorSymmetry == Permutations(FourDescriptors \ {d0})
================================================================================

----------------------------- MODULE MCSignalList -----------------------------
(* Three tasks and one signal. *)
EXTENDS SignalList

TaskSymmetry == Permutations(Tasks)
================================================================================

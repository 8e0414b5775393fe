------------------------------ MODULE MCConnection ------------------------------
(* Instances of Connection for TLC. *)
EXTENDS Connection

CONSTANTS a1, a2

SingleAttempt == {a1}
TwoAttempts == {a1, a2}
================================================================================

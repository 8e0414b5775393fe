------------------------------ MODULE MCSocketSend ------------------------------
(* An instance of SocketSend for TLC. *)
EXTENDS SocketSend

ThreeBuffers == 1..3
Sizes == <<2, 1, 2>>
================================================================================

------------------------------ MODULE MCLogWriter ------------------------------
(* An instance of Logger, with its AsyncLogWriter, for TLC. *)
EXTENDS Logger

CONSTANTS m1, m2, m3, console, errors

ThreeMessages == {m1, m2, m3}
WriterThread == {Writer}
TwoChannels == {console, errors}
TwoLevels == {1, 2}
MessageLevels == [m \in ThreeMessages |-> IF m = m2 THEN 2 ELSE 1]
================================================================================

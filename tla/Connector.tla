------------------------------- MODULE Connector -------------------------------
(***************************************************************************)
(* What Socket promises to whoever connects it (net/socket.h): the callback   *)
(* of Connect is called once, unless the user closes the socket or connects   *)
(* it again before; the error callback is called once for a connection that   *)
(* broke; nothing is reported of a connection the user closed himself.        *)
(***************************************************************************)
EXTENDS Sequences

CONSTANTS Attempts,  \* calls of Connect
          None,
          Codes      \* SockErrCode

VARIABLES current,    \* the attempt the socket is at, or None
          connected,  \* it was reported to have succeeded
          tried,      \* attempts so far
          results,    \* calls of their callbacks
          owed,       \* broken connections still to be reported
          errors      \* calls of the error callback

vars == <<current, connected, tried, results, owed, errors>>

Init == /\ current = None
        /\ connected = FALSE
        /\ tried = {}
        /\ results = <<>>
        /\ owed = {}
        /\ errors = <<>>

Connect(a) == /\ a \notin tried
              /\ tried' = tried \cup {a}
              /\ current' = a
              /\ connected' = FALSE
              /\ UNCHANGED <<results, owed, errors>>

Report(code) == /\ current # None
                /\ ~connected
                /\ results' = Append(results, [attempt |-> current, code |-> code])
                /\ connected' = (code = "ERR_SUCCESS")
                /\ current' = IF connected' THEN current ELSE None
                /\ UNCHANGED <<tried, owed, errors>>

Break == /\ connected
         /\ owed' = owed \cup {current}
         /\ current' = None
         /\ connected' = FALSE
         /\ UNCHANGED <<tried, results, errors>>

ReportError(a) == /\ a \in owed
                  /\ owed' = owed \ {a}
                  /\ errors' = Append(errors, a)
                  /\ UNCHANGED <<current, connected, tried, results>>

(* Close, or the end of the Socket, of which nothing is reported any more. *)
Close == /\ current' = None
         /\ connected' = FALSE
         /\ owed' \in {owed, {}}
         /\ UNCHANGED <<tried, results, errors>>

Next == \/ \E a \in Attempts : Connect(a) \/ ReportError(a)
        \/ \E code \in Codes : Report(code)
        \/ Break
        \/ Close

Spec == Init /\ [][Next]_vars

FairSpec == /\ Spec
            /\ WF_vars(\E code \in Codes : Report(code))
            /\ \A a \in Attempts : WF_vars(ReportError(a))
================================================================================

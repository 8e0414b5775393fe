------------------------------- MODULE LogStream -------------------------------
(***************************************************************************)
(* What a LogWriter promises (utils/logger.h): every message written comes   *)
(* out once, in the order of the writes, and none is left when it is gone.   *)
(***************************************************************************)
EXTENDS Sequences

CONSTANT Messages

VARIABLES pending,  \* written and not yet out, oldest first
          out,      \* what came out
          gone      \* the writer was destroyed

vars == <<pending, out, gone>>

Init == /\ pending = <<>>
        /\ out = <<>>
        /\ gone = FALSE

Write == /\ ~gone
         /\ \E m \in Messages : pending' = Append(pending, m)
         /\ UNCHANGED <<out, gone>>

Emit == /\ pending # <<>>
        /\ out' = Append(out, Head(pending))
        /\ pending' = Tail(pending)
        /\ UNCHANGED gone

Close == /\ ~gone
         /\ pending = <<>>
         /\ gone' = TRUE
         /\ UNCHANGED <<pending, out>>

Next == Write \/ Emit \/ Close

Spec == Init /\ [][Next]_vars

FairSpec == Spec /\ WF_vars(Emit)
================================================================================

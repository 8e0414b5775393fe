------------------------------ MODULE PipeWrapper ------------------------------
(***************************************************************************)
(* The self-pipe that wakes the poller (poller/pipe_wrapper.cpp), both ends *)
(* non-blocking as the EventPoller constructor leaves them, and the kernel's *)
(* edge-triggered readiness of its read end.  Only the number of bytes in    *)
(* the pipe matters: every byte written is the same one.                     *)
(***************************************************************************)
EXTENDS Integers

CONSTANTS PipeCap,  \* bytes the kernel buffers before write fails (65536)
          ReadMax   \* bytes one read takes (1024, sizeof(buf) in on_pipe_event)

ASSUME PipeAssumption == /\ PipeCap \in Nat \ {0}
                         /\ ReadMax \in Nat \ {0}

VARIABLES pipe,   \* bytes in the pipe
          edge,   \* the read end is on the epoll instance's ready list
          errno   \* as get_uv_error() would translate it

pipeVars == <<pipe, edge, errno>>

(* Every errno but EAGAIN makes the same difference to this code. *)
Errnos == {"EAGAIN", "OTHER"}

PipeTypeOK == /\ pipe \in 0..PipeCap
              /\ edge \in BOOLEAN
              /\ errno \in Errnos

(* errno is whatever the thread's earlier calls left there. *)
PipeInit == /\ pipe = 0
            /\ edge = FALSE
            /\ errno \in Errnos

(* One byte.  A write that succeeds makes the read end ready again, even if *)
(* bytes were left in the pipe; one that finds the pipe full fails.         *)
Write == \/ /\ pipe < PipeCap
            /\ pipe' = pipe + 1
            /\ edge' = TRUE
            /\ UNCHANGED errno
         \/ /\ pipe = PipeCap
            /\ errno' = "EAGAIN"
            /\ UNCHANGED <<pipe, edge>>

(* A read that gets bytes leaves errno as it was. *)
Read == \/ /\ pipe > 0
           /\ pipe' = IF pipe > ReadMax THEN pipe - ReadMax ELSE 0
           /\ UNCHANGED <<edge, errno>>
        \/ /\ pipe = 0
           /\ errno' = "EAGAIN"
           /\ UNCHANGED <<pipe, edge>>

(* epoll_wait reports the read end: it is on the ready list and, polled      *)
(* again, still has bytes.                                                   *)
ReadReady == edge /\ pipe > 0

================================================================================

--------------------------------- MODULE Logger ---------------------------------
(***************************************************************************)
(* Logger of utils/logger.cpp around its AsyncLogWriter: statements that log, *)
(* channels that choose by level when a message reaches them, and the end of  *)
(* the Logger, whose writer_ is destroyed before channels_.                   *)
(*                                                                            *)
(* As in the programs under test/, channels are added and removed before      *)
(* SetWriter, which is called once: channels_ and writer_ have no lock.       *)
(***************************************************************************)
EXTENDS LogWriter, Functions

CONSTANTS Channels,  \* names of ConsoleChannels
          Levels,    \* LogLevel, as integers
          LevelOf    \* of each message

ASSUME LoggerAssumption == Levels \subseteq Nat /\ LevelOf \in [Messages -> Levels]

VARIABLES channels_,  \* level_ of each channel in it
          writer_,    \* whether it is set
          pctx_,      \* of the capturer of each message: "held" until written or cleared
          output,     \* of each channel
          had         \* history: the levels of each channel in use

tables == <<channels_, writer_, had>>

loggerVars == <<vars, tables, pctx_, output>>
--------------------------------------------------------------------------------
LoggerInit == /\ Init
              /\ channels_ = <<>>
              /\ writer_ = FALSE
              /\ pctx_ = [m \in Messages |-> "none"]
              /\ output = [c \in Channels |-> <<>>]
              /\ had = [c \in Channels |-> {}]

AddChannel(c, level) ==
    /\ ~writer_
    /\ channels_' = [n \in DOMAIN channels_ \cup {c} |->
                         IF n = c THEN level ELSE channels_[n]]
    /\ had' = [had EXCEPT ![c] = {level}]
    /\ UNCHANGED <<vars, writer_, pctx_, output>>

RemoveChannel(c) ==
    /\ ~writer_
    /\ c \in DOMAIN channels_
    /\ channels_' = Restrict(channels_, DOMAIN channels_ \ {c})
    /\ had' = [had EXCEPT ![c] = {}]
    /\ UNCHANGED <<vars, writer_, pctx_, output>>

SetWriter == /\ ~writer_
             /\ writer_' = TRUE
             /\ UNCHANGED <<vars, channels_, pctx_, output, had>>

(* LogChannel::SetLevel, which Logger::SetLevel calls for one channel after   *)
(* the other, while the writer's thread reads level_.                         *)
SetLevel(c, level) ==
    /\ c \in DOMAIN channels_
    /\ channels_' = [channels_ EXCEPT ![c] = level]
    /\ had' = [had EXCEPT ![c] = @ \cup {level}]
    /\ UNCHANGED <<vars, writer_, pctx_, output>>
--------------------------------------------------------------------------------
(* A statement: its LogContextCapturer holds the context until std::endl or   *)
(* the end of the statement writes it, or Clear drops it.                     *)

Capture(m) == /\ dtor = "no"
              /\ pctx_[m] = "none"
              /\ pctx_' = [pctx_ EXCEPT ![m] = "held"]
              /\ UNCHANGED <<vars, tables, output>>

(* Before SetWriter a message is dropped. *)
Write(m) == IF writer_ THEN Push(m) ELSE UNCHANGED vars

Endl(m) == /\ pctx_[m] = "held"
           /\ pctx_' = [pctx_ EXCEPT ![m] = "reset"]
           /\ Write(m)
           /\ UNCHANGED <<tables, output>>

Clear(m) == /\ pctx_[m] = "held"
            /\ pctx_' = [pctx_ EXCEPT ![m] = "reset"]
            /\ UNCHANGED <<vars, tables, output>>
--------------------------------------------------------------------------------
(* ConsoleChannel::Write, which formats a message into a line of its own.      *)
Takes(c, m) == channels_[c] <= LevelOf[m]

Format(c, m) == Append(output[c], m)

(* write_channels, whenever flush_all of either thread calls it.              *)
WriteChannels ==
    /\ output' = [c \in Channels |->
                      IF /\ channels' # channels
                         /\ c \in DOMAIN channels_
                         /\ Takes(c, Head(tmp_pctxs))
                      THEN Format(c, Head(tmp_pctxs)) ELSE output[c]]
    /\ UNCHANGED <<tables, pctx_>>

Run == RunSteps /\ WriteChannels

DestroyWriter == DtorSteps /\ WriteChannels

(* Mutant: channels_ is declared after writer_, and gone before it. *)
DestroyChannelsFirst == /\ writer_
                        /\ \A m \in Messages : pctx_[m] # "held"
                        /\ StopRunning
                        /\ channels_' = <<>>
                        /\ UNCHANGED <<writer_, had, pctx_, output>>

(* ~Logger, when no statement is left: its last member is writer_. *)
Destroy == /\ writer_
           /\ \A m \in Messages : pctx_[m] # "held"
           /\ StopRunning
           /\ UNCHANGED <<tables, pctx_, output>>

LogPosts(m) == PostMessage(m) /\ UNCHANGED <<tables, pctx_, output>>

LoggerNext ==
    \/ \E c \in Channels :
           RemoveChannel(c) \/ \E level \in Levels : AddChannel(c, level) \/ SetLevel(c, level)
    \/ SetWriter
    \/ \E m \in Messages : Capture(m) \/ Endl(m) \/ Clear(m) \/ LogPosts(m)
    \/ WakesUp /\ UNCHANGED <<tables, pctx_, output>>
    \/ Run
    \/ Destroy
    \/ DestroyWriter

LoggerSpec == LoggerInit /\ [][LoggerNext]_loggerVars

(* As FairSpec of LogWriter.                                                  *)
LoggerFairSpec == /\ LoggerSpec
                  /\ \A m \in Messages : WF_loggerVars(LogPosts(m))
                  /\ WF_loggerVars(Run)
                  /\ WF_loggerVars(DestroyWriter)
--------------------------------------------------------------------------------
LoggerTypeOK == /\ TypeOK
                /\ DOMAIN channels_ \subseteq Channels
                /\ \A c \in DOMAIN channels_ : channels_[c] \in had[c]
                /\ writer_ \in BOOLEAN
                /\ pctx_ \in [Messages -> {"none", "held", "reset"}]
                /\ output \in [Channels -> Seq(Messages)]
                /\ had \in [Channels -> SUBSET Levels]

(* Whoever flushes, the destructor included, and however SetLevel races with  *)
(* it: a channel shows, once and in the order of the writes, every message    *)
(* brought out that no level_ it has had excludes, and none that each of them *)
(* excludes.                                                                  *)
ShownInOrder(c) ==
    \A i, j \in DOMAIN output[c] :
        /\ i # j => output[c][i] # output[c][j]
        /\ \E k, l \in DOMAIN channels : /\ channels[k] = output[c][i]
                                         /\ channels[l] = output[c][j]
                                         /\ i < j => k < l

ShownByLevel(c) ==
    \A m \in Range(channels) :
        /\ (\A l \in had[c] : l <= LevelOf[m]) => m \in Range(output[c])
        /\ (\A l \in had[c] : l > LevelOf[m]) => m \notin Range(output[c])

ChannelsComplete == \A c \in Channels : had[c] # {} => ShownInOrder(c) /\ ShownByLevel(c)
================================================================================

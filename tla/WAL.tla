--------------------------------- MODULE WAL ---------------------------------
(***************************************************************************)
(* persistence/wal.go: the write-ahead log, through crashes and restarts.  *)
(*                                                                         *)
(* Each client is a connection goroutine calling Write; the flush loop is  *)
(* a goroutine of its own.  Everything that happens under w.mu is one      *)
(* action.  main calls Replay before it listens, and Close before it       *)
(* exits, possibly while connections still write.                          *)
(*                                                                         *)
(* The file is the sequence of the commands whose frames are complete,     *)
(* and `tail` is "torn" when a part of one more frame follows them; module  *)
(* WALCodec shows that unmarshalCommand returns the data unchanged when it *)
(* meets such a tail, so the loop of Replay goes round for ever on it.     *)
(***************************************************************************)
EXTENDS Integers, Sequences

CONSTANTS
  Clients,
  Commands,
  Size,       \* the length of each command's frame
  BatchSize,  \* w.batchSize
  PowerLoss,  \* whether the machine may crash, or only the process
  MaxWrites,  \* bound on the commands in the log
  MaxCrashes  \* bound on the crashes

VARIABLES
  buf,        \* w.buf, as commands
  bufLen,     \* len(w.buf)
  file, tail, \* the file
  pc,         \* "idle", or "flush" between the two critical sections of Write
  mode,       \* "replaying", "up", "closing", "closed" or "down"
  loop,       \* flushLoop: "running" or "stopped"
  replayed,   \* the commands Replay has given to fn
  accepted,   \* the commands written before Close, as far as no crash lost them
  promised,   \* how many of them a Write that filled the batch has returned for
  crashes

diskVars == <<file, tail>>
vars == <<buf, bufLen, diskVars, pc, mode, loop, replayed, accepted, promised, crashes>>

ASSUME WALAssumption ==
  /\ Size \in [Commands -> Nat \ {0}]
  /\ BatchSize \in Nat \ {0}
  /\ PowerLoss \in BOOLEAN
  /\ MaxWrites \in Nat
  /\ MaxCrashes \in Nat

TypeOK ==
  /\ buf \in Seq(Commands)
  /\ bufLen \in Nat
  /\ file \in Seq(Commands)
  /\ tail \in {"whole", "torn"}
  /\ pc \in [Clients -> {"idle", "flush"}]
  /\ mode \in {"replaying", "up", "closing", "closed", "down"}
  /\ loop \in {"running", "stopped"}
  /\ replayed \in Seq(Commands)
  /\ accepted \in Seq(Commands)
  /\ promised \in Nat
  /\ crashes \in Nat

Open == mode \in {"up", "closing"}

(* The first start, on a new file. *)
Init ==
  /\ buf = <<>>
  /\ bufLen = 0
  /\ file = <<>>
  /\ tail = "whole"
  /\ pc = [c \in Clients |-> "idle"]
  /\ mode = "replaying"
  /\ loop = "running"
  /\ replayed = <<>>
  /\ accepted = <<>>
  /\ promised = 0
  /\ crashes = 0

-----------------------------------------------------------------------------

(* Mutant: > for >=. *)
WriteOverfull(c, cmd) ==
  /\ Open \/ mode = "closed"
  /\ pc[c] = "idle"
  /\ Len(accepted) < MaxWrites /\ Len(buf) < MaxWrites
  /\ buf' = Append(buf, cmd)
  /\ bufLen' = bufLen + Size[cmd]
  /\ accepted' = IF Open THEN Append(accepted, cmd) ELSE accepted
  /\ pc' = [pc EXCEPT ![c] = IF bufLen' > BatchSize THEN "flush" ELSE "idle"]
  /\ UNCHANGED <<diskVars, mode, loop, replayed, promised, crashes>>

(* Write appends the frame; a full batch is flushed in a second critical   *)
(* section.  Nothing keeps a connection from writing after Close.          *)
Write(c, cmd) ==
  /\ Open \/ mode = "closed"
  /\ pc[c] = "idle"
  /\ Len(accepted) < MaxWrites /\ Len(buf) < MaxWrites
  /\ buf' = Append(buf, cmd)
  /\ bufLen' = bufLen + Size[cmd]
  /\ accepted' = IF Open THEN Append(accepted, cmd) ELSE accepted
  /\ pc' = [pc EXCEPT ![c] = IF bufLen' >= BatchSize THEN "flush" ELSE "idle"]
  /\ UNCHANGED <<diskVars, mode, loop, replayed, promised, crashes>>

(* Mutant: the buffer is not reset. *)
FlushNoReset ==
  /\ file' = IF Open THEN file \o buf ELSE file
  /\ UNCHANGED <<buf, bufLen, tail>>

(* Flush drops the buffer also when the file is closed and the write fails. *)
FlushBuffer ==
  /\ file' = IF Open THEN file \o buf ELSE file
  /\ buf' = <<>>
  /\ bufLen' = 0
  /\ UNCHANGED tail

(* Mutant: a full batch is left to the ticker. *)
WriteFlushLater(c) ==
  /\ Open \/ mode = "closed"
  /\ pc[c] = "flush"
  /\ pc' = [pc EXCEPT ![c] = "idle"]
  /\ promised' = IF Open THEN Len(accepted) ELSE promised
  /\ UNCHANGED <<buf, bufLen, diskVars, mode, loop, replayed, accepted, crashes>>

(* The Flush of a Write; a failure is returned, success is a promise. *)
WriteFlush(c) ==
  /\ Open \/ mode = "closed"
  /\ pc[c] = "flush"
  /\ FlushBuffer
  /\ pc' = [pc EXCEPT ![c] = "idle"]
  /\ promised' = IF Open THEN Len(accepted) ELSE promised
  /\ UNCHANGED <<mode, loop, replayed, accepted, crashes>>

(* Mutant: the ticker flushes full batches only. *)
LoopFlushFull ==
  /\ loop = "running"
  /\ Open \/ mode = "closed"
  /\ bufLen >= BatchSize
  /\ FlushBuffer
  /\ UNCHANGED <<pc, mode, loop, replayed, accepted, promised, crashes>>

LoopFlush ==
  /\ loop = "running"
  /\ Open \/ mode = "closed"
  /\ buf # <<>>
  /\ FlushBuffer
  /\ UNCHANGED <<pc, mode, loop, replayed, accepted, promised, crashes>>

(* flushLoop sees done, flushes once more and ends. *)
LoopExit ==
  /\ loop = "running"
  /\ mode \in {"closing", "closed"}
  /\ FlushBuffer
  /\ loop' = "stopped"
  /\ UNCHANGED <<pc, mode, replayed, accepted, promised, crashes>>

(* Close closes done, and then flushes and closes the file under w.mu. *)
CloseDone ==
  /\ mode = "up"
  /\ mode' = "closing"
  /\ UNCHANGED <<buf, bufLen, diskVars, pc, loop, replayed, accepted, promised, crashes>>

CloseFile ==
  /\ mode = "closing"
  /\ FlushBuffer
  /\ mode' = "closed"
  /\ UNCHANGED <<pc, loop, replayed, accepted, promised, crashes>>

-----------------------------------------------------------------------------
(* Restarts.                                                               *)

(* NewWAL, and main's call of Replay. *)
Start ==
  /\ mode = "down"
  /\ mode' = "replaying"
  /\ loop' = "running"
  /\ UNCHANGED <<buf, bufLen, diskVars, pc, replayed, accepted, promised, crashes>>

ReplayCommand ==
  /\ mode = "replaying"
  /\ Len(replayed) < Len(file)
  /\ replayed' = Append(replayed, file[Len(replayed) + 1])
  /\ UNCHANGED <<buf, bufLen, diskVars, pc, mode, loop, accepted, promised, crashes>>

(* Mutant: the last frame is left out. *)
ReplayEndEarly ==
  /\ mode = "replaying"
  /\ Len(replayed) + 1 >= Len(file)
  /\ tail = "whole"
  /\ mode' = "up"
  /\ UNCHANGED <<buf, bufLen, diskVars, pc, loop, replayed, accepted, promised, crashes>>

(* The loop ends when no data is left, and Replay seeks to the end. *)
ReplayEnd ==
  /\ mode = "replaying"
  /\ Len(replayed) = Len(file)
  /\ tail = "whole"
  /\ mode' = "up"
  /\ UNCHANGED <<buf, bufLen, diskVars, pc, loop, replayed, accepted, promised, crashes>>

(* The process ends: it exits after Close, or is killed, possibly in the   *)
(* middle of the write of a Flush.                                         *)
Die(n, tear) ==
  /\ mode # "down"
  /\ mode = "closed" \/ crashes < MaxCrashes
  /\ n > 0 \/ tear => Open
  /\ tear => n < Len(buf)
  /\ file' = file \o SubSeq(buf, 1, n)
  /\ tail' = IF tear THEN "torn" ELSE tail
  /\ accepted' = file'
  /\ UNCHANGED promised

(* The machine stops, and no write was ever synced: a prefix is left, and  *)
(* what a batch promised is withdrawn with the rest.                       *)
LosePower(n, tear) ==
  /\ PowerLoss
  /\ crashes < MaxCrashes
  /\ n <= Len(file)
  /\ tear => n < Len(file)
  /\ file' = SubSeq(file, 1, n)
  /\ tail' = IF tear THEN "torn" ELSE IF n < Len(file) THEN "whole" ELSE tail
  /\ accepted' = file'
  /\ promised' = IF promised < n THEN promised ELSE n

Down ==
  /\ buf' = <<>>
  /\ bufLen' = 0
  /\ pc' = [c \in Clients |-> "idle"]
  /\ mode' = "down"
  /\ loop' = "stopped"
  /\ replayed' = <<>>
  /\ crashes' = IF mode = "closed" THEN crashes ELSE crashes + 1

Crash ==
  /\ \E tear \in BOOLEAN :
       \/ \E n \in 0 .. Len(buf) : Die(n, tear)
       \/ \E n \in 0 .. Len(file) : LosePower(n, tear)
  /\ Down

-----------------------------------------------------------------------------

Next ==
  \/ \E c \in Clients : (\E cmd \in Commands : Write(c, cmd)) \/ WriteFlush(c)
  \/ LoopFlush
  \/ LoopExit
  \/ CloseDone
  \/ CloseFile
  \/ Start
  \/ ReplayCommand
  \/ ReplayEnd
  \/ Crash

Spec == Init /\ [][Next]_vars

(* The ticker fires every second, Replay runs on, and a goroutine inside   *)
(* Write is scheduled; nobody has to write, to close or to crash.          *)
Fairness ==
  /\ WF_vars(LoopFlush)
  /\ WF_vars(ReplayCommand)
  /\ WF_vars(ReplayEnd)
  /\ \A c \in Clients : WF_vars(WriteFlush(c))

FairSpec == Spec /\ Fairness

-----------------------------------------------------------------------------

(* Nothing accepted before Close is lost, doubled or reordered: at any     *)
(* time it is the file followed by the buffer, whoever flushes.            *)
LogIsFileThenBuffer ==
  /\ Open => accepted = file \o buf /\ tail = "whole"
  /\ mode = "closed" => accepted = file

(* The buffer holds a full batch only while a Write is about to flush it:  *)
(* no interleaving of Writes leaves a full batch waiting for the ticker.   *)
FullBatchIsFlushed == bufLen >= BatchSize => \E c \in Clients : pc[c] = "flush"

(* Batch commit: when a Write that filled the batch has returned without   *)
(* an error, its command and all before it survive the process. They need  *)
(* not survive the machine: LosePower lowers promised to what is left.     *)
BatchCommitted == promised <= Len(file)

(* The store is rebuilt from exactly the commands that were not lost, in   *)
(* the order of the Writes, before the server writes again.                *)
ReplayRestores ==
  [][mode = "replaying" /\ mode' = "up" => replayed = accepted]_vars

(* A command does not stay in the buffer: the ticker flushes it, unless    *)
(* the server stops first.                                                 *)
EventuallyOnDisk ==
  \A n \in 1 .. MaxWrites :
    mode = "up" /\ Len(accepted) >= n ~> Len(file) >= n \/ mode # "up"

(* Replay ends, whatever a crash has left in the file. *)
ReplayReturns == mode = "replaying" ~> mode # "replaying"
=============================================================================

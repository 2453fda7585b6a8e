------------------------------ MODULE WALProofs ------------------------------
(***************************************************************************)
(* Proofs about WAL, for any clients, commands, frame sizes, batch size    *)
(* and any number of crashes.                                              *)
(***************************************************************************)
EXTENDS WAL, SequenceTheorems, TLAPS

(* A flush keeps the types of the buffer and of the file. *)
LEMMA FlushType ==
  ASSUME TypeOK, FlushBuffer
  PROVE  buf' \in Seq(Commands) /\ bufLen' \in Nat /\ file' \in Seq(Commands) /\ tail' = tail
BY DEF TypeOK, FlushBuffer

(* The types of the log, of its file and of its clients. *)
THEOREM TypeCorrect == Spec => []TypeOK
<1>1. Init => TypeOK
  BY DEF Init, TypeOK
<1>2. TypeOK /\ [Next]_vars => TypeOK'
  <2> SUFFICES ASSUME TypeOK, [Next]_vars PROVE TypeOK'
    OBVIOUS
  <2> USE WALAssumption DEF TypeOK, diskVars
  <2>1. ASSUME NEW c \in Clients, NEW cmd \in Commands, Write(c, cmd) PROVE TypeOK'
    BY SMTT(30), <2>1 DEF Write
  <2>2. ASSUME NEW c \in Clients, WriteFlush(c) PROVE TypeOK'
    BY <2>2, FlushType DEF WriteFlush
  <2>3. CASE LoopFlush \/ LoopExit
    BY SMTT(30), <2>3, FlushType DEF LoopFlush, LoopExit
  <2>4. CASE CloseDone \/ CloseFile
    BY SMTT(30), <2>4, FlushType DEF CloseDone, CloseFile
  <2>5. CASE Start \/ ReplayEnd
    BY <2>5 DEF Start, ReplayEnd
  <2>6. CASE ReplayCommand
    BY <2>6 DEF ReplayCommand
  <2>7. CASE Crash
    <3>1. ASSUME NEW n \in 0 .. Len(buf), NEW tear \in BOOLEAN, Die(n, tear)
          PROVE  file' \in Seq(Commands) /\ accepted' = file' /\ tail' \in {"whole", "torn"} /\ promised' \in Nat
      <4>1. SubSeq(buf, 1, n) \in Seq(Commands)
        OBVIOUS
      <4> QED BY <3>1, <4>1 DEF Die
    <3>2. ASSUME NEW n \in 0 .. Len(file), NEW tear \in BOOLEAN, LosePower(n, tear)
          PROVE  file' \in Seq(Commands) /\ accepted' = file' /\ tail' \in {"whole", "torn"} /\ promised' \in Nat
      <4>1. SubSeq(file, 1, n) \in Seq(Commands)
        OBVIOUS
      <4> QED BY <3>2, <4>1 DEF LosePower
    <3> QED BY <2>7, <3>1, <3>2 DEF Crash, Down
  <2>8. CASE UNCHANGED vars
    BY <2>8 DEF vars
  <2> QED BY SMTT(30), <2>1, <2>2, <2>3, <2>4, <2>5, <2>6, <2>7, <2>8 DEF Next
<1> QED BY <1>1, <1>2, PTL DEF Spec

-----------------------------------------------------------------------------
(* The log through Writes, flushes, Close, crashes and restarts.  The part *)
(* about the modes in which the file is not open is what a restart needs.  *)

LogInv ==
  /\ LogIsFileThenBuffer
  /\ mode \in {"replaying", "down"} => accepted = file /\ buf = <<>>

(* Writing to the buffer is writing to the end of file and buffer. *)
LEMMA AppendToBuffer ==
  ASSUME NEW f \in Seq(Commands), NEW b \in Seq(Commands), NEW x \in Commands
  PROVE  Append(f \o b, x) = f \o Append(b, x)
OBVIOUS

(* An empty buffer adds nothing. *)
LEMMA EmptyBuffer ==
  ASSUME NEW f \in Seq(Commands)
  PROVE  f \o << >> = f
OBVIOUS

(* LogInv is inductive. *)
LEMMA LogStep ==
  ASSUME TypeOK, LogInv, [Next]_vars
  PROVE  LogInv'
<1> USE DEF TypeOK, LogInv, LogIsFileThenBuffer, Open, diskVars, FlushBuffer
<1>e. file \o << >> = file /\ (file \o buf) \o << >> = file \o buf
  BY EmptyBuffer
<1>1. ASSUME NEW c \in Clients, NEW cmd \in Commands, Write(c, cmd) PROVE LogInv'
  <2>1. accepted = file \o buf => Append(accepted, cmd) = file \o Append(buf, cmd)
    <3>1. Append(file \o buf, cmd) = file \o Append(buf, cmd)
      BY Zenon, AppendToBuffer
    <3> QED BY ONLY Zenon, <3>1
  <2>2. UNCHANGED <<file, tail, mode>> /\ buf' = Append(buf, cmd) /\ mode \in {"up", "closing", "closed"}
    BY <1>1 DEF Write
  <2>3. accepted' = IF Open THEN Append(accepted, cmd) ELSE accepted
    BY <1>1 DEF Write
  <2> QED BY Zenon, <2>1, <2>2, <2>3
<1>2. ASSUME NEW c \in Clients, WriteFlush(c) PROVE LogInv'
  BY <1>2, <1>e DEF WriteFlush
<1>3. CASE LoopFlush \/ LoopExit
  BY Zenon, <1>3, <1>e DEF LoopFlush, LoopExit
<1>4. CASE CloseDone \/ CloseFile
  BY Zenon, <1>4, <1>e DEF CloseDone, CloseFile
<1>5. CASE Start \/ ReplayCommand \/ ReplayEnd
  BY Zenon, <1>5, <1>e DEF Start, ReplayCommand, ReplayEnd
<1>6. CASE Crash
  BY <1>6 DEF Crash, Die, LosePower, Down
<1>7. CASE UNCHANGED vars
  BY <1>7 DEF vars
<1> QED BY SMTT(30), <1>1, <1>2, <1>3, <1>4, <1>5, <1>6, <1>7 DEF Next

(* The inductive invariant of the log's contents. *)
THEOREM LogInvariant == Spec => []LogInv
<1>1. Init => LogInv
  BY DEF Init, LogInv, LogIsFileThenBuffer, Open
<1> QED BY <1>1, LogStep, TypeCorrect, PTL DEF Spec

(* Nothing that was accepted is lost, doubled or reordered between Write   *)
(* and the file.                                                           *)
THEOREM LogIsKept == Spec => []LogIsFileThenBuffer
<1>1. LogInv => LogIsFileThenBuffer
  BY DEF LogInv
<1> QED BY <1>1, LogInvariant, PTL

(* A full batch always has a Write that is about to flush it. *)
THEOREM NoFullBatchWaits == Spec => []FullBatchIsFlushed
<1>1. Init => FullBatchIsFlushed
  BY WALAssumption DEF Init, FullBatchIsFlushed
<1>2. TypeOK /\ FullBatchIsFlushed /\ [Next]_vars => FullBatchIsFlushed'
  <2> SUFFICES ASSUME TypeOK, FullBatchIsFlushed, [Next]_vars PROVE FullBatchIsFlushed'
    OBVIOUS
  <2> USE WALAssumption DEF TypeOK, FullBatchIsFlushed, FlushBuffer
  <2>1. ASSUME NEW c \in Clients, NEW cmd \in Commands, Write(c, cmd) PROVE FullBatchIsFlushed'
    BY <2>1 DEF Write
  <2>2. CASE bufLen' = 0
    BY <2>2
  <2>3. CASE UNCHANGED <<bufLen, pc>>
    BY <2>3
  <2> QED BY <2>1, <2>2, <2>3
      DEF Next, WriteFlush, LoopFlush, LoopExit, CloseDone, CloseFile, Start, ReplayCommand,
          ReplayEnd, Crash, Down, vars
<1> QED BY <1>1, <1>2, TypeCorrect, PTL DEF Spec

(* Batch commit: what a Write that filled the batch returned for is in the *)
(* file, and stays there when the process dies. (A power failure takes     *)
(* the promise back, as nothing is synced.)                                *)
THEOREM BatchesSurvive == Spec => []BatchCommitted
<1>1. Init => BatchCommitted
  BY DEF Init, BatchCommitted
<1>2. TypeOK /\ LogInv /\ BatchCommitted /\ [Next]_vars => BatchCommitted'
  <2> SUFFICES ASSUME TypeOK, LogInv, BatchCommitted, [Next]_vars PROVE BatchCommitted'
    OBVIOUS
  <2> USE DEF TypeOK, BatchCommitted
  <2>1. ASSUME NEW c \in Clients, WriteFlush(c) PROVE BatchCommitted'
    BY <2>1 DEF WriteFlush, FlushBuffer, LogInv, LogIsFileThenBuffer, Open
  <2>2. CASE promised' = promised /\ FlushBuffer
    BY <2>2 DEF FlushBuffer
  <2>3. CASE UNCHANGED <<promised, file>>
    BY <2>3
  <2>4. CASE Crash
    <3>1. ASSUME NEW n \in 0 .. Len(buf), NEW tear \in BOOLEAN, Die(n, tear) PROVE BatchCommitted'
      <4>1. SubSeq(buf, 1, n) \in Seq(Commands)
        OBVIOUS
      <4> QED BY <3>1, <4>1 DEF Die
    <3>2. ASSUME NEW n \in 0 .. Len(file), NEW tear \in BOOLEAN, LosePower(n, tear)
          PROVE  BatchCommitted'
      BY <3>2 DEF LosePower
    <3> QED BY <2>4, <3>1, <3>2 DEF Crash
  <2> QED BY <2>1, <2>2, <2>3, <2>4
      DEF Next, Write, LoopFlush, LoopExit, CloseDone, CloseFile, Start, ReplayCommand,
          ReplayEnd, vars, diskVars
<1> QED BY <1>1, <1>2, TypeCorrect, LogInvariant, PTL DEF Spec

-----------------------------------------------------------------------------

(* Replay has given fn the beginning of the file. *)
ReplayInv ==
  /\ mode = "replaying" =>
       Len(replayed) <= Len(file) /\ \A i \in 1 .. Len(replayed) : replayed[i] = file[i]
  /\ mode = "down" => replayed = <<>>

(* When Replay ends, the store has been given exactly the commands that    *)
(* were accepted and not lost, in their order.                             *)
THEOREM ReplayIsComplete == Spec => ReplayRestores
<1>1. Init => ReplayInv
  BY DEF Init, ReplayInv
<1>2. TypeOK /\ ReplayInv /\ [Next]_vars => ReplayInv'
  <2> SUFFICES ASSUME TypeOK, ReplayInv, [Next]_vars PROVE ReplayInv'
    OBVIOUS
  <2> USE DEF TypeOK, ReplayInv
  <2>1. CASE ReplayCommand
    BY <2>1 DEF ReplayCommand, diskVars
  <2>2. CASE Start
    BY <2>2 DEF Start
  <2>3. CASE Crash
    BY <2>3 DEF Crash, Down
  <2>4. CASE UNCHANGED vars
    BY <2>4 DEF vars, diskVars
  <2>5. CASE mode' \in {"up", "closing", "closed"}
    BY <2>5
  <2> QED BY SMTT(30), <2>1, <2>2, <2>3, <2>4, <2>5
      DEF Next, Write, WriteFlush, LoopFlush, LoopExit, CloseDone, CloseFile, ReplayEnd, Open
<1>3. TypeOK /\ LogInv /\ ReplayInv /\ [Next]_vars
        => (mode = "replaying" /\ mode' = "up" => replayed = accepted)
  <2> SUFFICES ASSUME TypeOK, LogInv, ReplayInv, [Next]_vars, mode = "replaying", mode' = "up"
               PROVE  replayed = accepted
    OBVIOUS
  <2>1. ReplayEnd
    BY DEF Next, Write, WriteFlush, LoopFlush, LoopExit, CloseDone, CloseFile, Start,
           ReplayCommand, Crash, Down, vars, Open
  <2> QED BY <2>1 DEF ReplayEnd, TypeOK, LogInv, ReplayInv
<1> QED BY <1>1, <1>2, <1>3, TypeCorrect, LogInvariant, PTL DEF Spec, ReplayRestores
=============================================================================

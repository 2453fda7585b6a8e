----------------------------- MODULE Algorithms -----------------------------
(***************************************************************************)
(* The algorithms that work on values of their own and share no state: the *)
(* loops of the eviction policies, the frames of the WAL file and the RESP *)
(* protocol.  One of them moves; the others stay as they are.              *)
(***************************************************************************)
EXTENDS EvictLoops, WALCodec

CONSTANTS Texts, Numbers, MaxItems, MaxValues

VARIABLES which, sent, wire

Wire == INSTANCE RESP

AlgorithmsInit ==
  /\ which \in {"evict", "wal", "resp"}
  /\ LoopInit
  /\ CodecInit
  /\ Wire!Init

AlgorithmsNext ==
  \/ which = "evict" /\ LoopNext /\ UNCHANGED <<which, codecVars, sent, wire>>
  \/ which = "wal" /\ CodecNext /\ UNCHANGED <<which, loopVars, sent, wire>>
  \/ which = "resp" /\ Wire!Next /\ UNCHANGED <<which, loopVars, codecVars>>

AlgorithmsSpec == AlgorithmsInit /\ [][AlgorithmsNext]_<<which, loopVars, codecVars, sent, wire>>

(* Read gives back the RESP values that were written, each to its end.     *)
MarshalledIsRead == Wire!MarshalledIsRead

(* A command that arrives in pieces does not put Read out of step.         *)
CutKeepsStep == Wire!CutKeepsStep
=============================================================================

----------------------------- MODULE MCStreams ------------------------------
(***************************************************************************)
(* What messages are built in and sent through: a network buffer, the      *)
(* frames of a connection, views of strings, a line of the log and the     *)
(* fields of an RPC.                                                       *)
(* None of them knows of another, so a behavior of the model is one of one *)
(* of them; part says which.                                               *)
(***************************************************************************)
EXTENDS Buffer, Framing, StringPiece, LogStream, RpcMessage, TLC

CONSTANTS s1, s2, s3

MCPiece   == {<<>>, <<1, 0>>, <<0, 1, 1>>}
MCPayload == {<<>>, <<1, 0>>, <<1, 1, 1>>}
MCGarbage == {<<0>>, <<1, 1>>}
MCMemory  == <<1, 0, 1, 1, 0>>

VARIABLE part

allVars == <<part, bufferVars, framingVars, pieces, cur, rpcVars>>

Init ==
  /\ part \in {"buffer", "framing", "piece", "log", "rpc"}
  /\ BufferInit /\ FramingInit /\ PieceInit /\ LogInit /\ RpcInit

Next ==
  \/ /\ part = "buffer" /\ BufferNext
     /\ UNCHANGED <<part, framingVars, pieces, cur, rpcVars>>
  \/ /\ part = "framing" /\ FramingNext
     /\ UNCHANGED <<part, bufferVars, pieces, cur, rpcVars>>
  \/ /\ part = "piece" /\ PieceNext
     /\ UNCHANGED <<part, bufferVars, framingVars, cur, rpcVars>>
  \/ /\ part = "log" /\ LogNext
     /\ UNCHANGED <<part, bufferVars, framingVars, pieces, rpcVars>>
  \/ /\ part = "rpc" /\ RpcNext
     /\ UNCHANGED <<part, bufferVars, framingVars, pieces, cur>>

Spec == Init /\ [][Next]_allVars /\ FramingFairness
=============================================================================

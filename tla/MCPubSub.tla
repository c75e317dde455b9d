------------------------------- MODULE MCPubSub -------------------------------
(* Instances of PubSub for TLC.                                              *)
EXTENDS PubSub, TLC

\* Payload addresses are interchangeable.
ChunkSymmetry == Permutations(Chunks)
===============================================================================

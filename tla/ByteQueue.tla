----------------------------- MODULE ByteQueue -----------------------------
(***************************************************************************)
(* What Buffer promises to TcpConnection and its callbacks: an unbounded   *)
(* queue of bytes.  Every call either puts a chunk at the end or takes a   *)
(* chunk from the front, and nothing is lost, repeated or reordered.       *)
(***************************************************************************)
EXTENDS Sequences

CONSTANT Byte

VARIABLES bytes,   \* put and not yet taken
          io       \* the chunk of the last call and its direction

vars == <<bytes, io>>

Chunk == Seq(Byte)

Init == bytes = << >> /\ io = [dir |-> "put", data |-> << >>]

Put == io'.dir = "put" /\ bytes' = bytes \o io'.data

Take == io'.dir = "take" /\ bytes = io'.data \o bytes'

Next == io'.data \in Chunk /\ (Put \/ Take)

Spec == Init /\ [][Next]_vars
=============================================================================

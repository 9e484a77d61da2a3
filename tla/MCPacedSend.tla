----------------------------- MODULE MCPacedSend -----------------------------
(* An instance of PacedSend: one worker with a large chunk, as large as a  *)
(* second of the rate, against one with small ones.                        *)
EXTENDS PacedSend, TLC

CONSTANTS a, b

MixedChunks == (a :> <<4, 3>>) @@ (b :> <<2, 1, 2>>)
=============================================================================

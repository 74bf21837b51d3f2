------------------------- MODULE MCCommandProcessor -------------------------
(* All processes that write and read at most MaxSteps lines. *)
EXTENDS CommandProcessor

CONSTANT MaxSteps

MCScripts == UNION {[1 .. k -> Operations] : k \in 0 .. MaxSteps}
=============================================================================

------------------------------ MODULE MCEditor ------------------------------
(* Two providers; the pair of the first has two directions.                *)
EXTENDS Editor, TLC

CONSTANTS bid, ask, other

MCTitle == bid :> "A" @@ ask :> "A" @@ other :> "B"
MCPair == bid :> "P" @@ ask :> "P" @@ other :> "P"
Interchangeable == Permutations({bid, ask}) \cup Permutations(Job)
=============================================================================

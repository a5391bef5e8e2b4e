------------------------------ MODULE MCMcpEvents ------------------------------
(* Small instances of McpEvents: two attempts, texts of one part.             *)
EXTENDS McpEvents, TLC

CONSTANTS w1, w2, c1, c2

McSubmissions == {1, 2}
McParts == {0}

Alike == Permutations(Workers)
=============================================================================

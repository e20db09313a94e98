------------------------- MODULE MCParallelDownload -------------------------
(* Small instances of ParallelDownload: two of the three files share a hash *)
(* (the same content under two last_change versions).                       *)
EXTENDS ParallelDownload

CONSTANTS f1, f2, f3, h1, h2

MCHashOf == [f \in Files |-> IF f = f2 THEN h2 ELSE h1]
MCHashOfDistinct == [f \in Files |-> f]
=============================================================================

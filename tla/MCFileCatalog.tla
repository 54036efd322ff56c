--------------------------- MODULE MCFileCatalog ---------------------------
(* Values for the constants of FileCatalog. The rank makes f1 the file the *)
(* worker reads first.                                                     *)
EXTENDS FileCatalog
CONSTANTS f1, f2
MCRank == [f \in File |-> IF f = f1 THEN 1 ELSE 2]
=============================================================================

------------------------------- MODULE MC_Stat -------------------------------
(***************************************************************************)
(* FilesStat for TLC: DAGs of three blocks, up to two links per node, so  *)
(* a block can be shared by two links of one node or of two nodes.        *)
(***************************************************************************)
EXTENDS FilesStat
=============================================================================

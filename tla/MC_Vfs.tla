------------------------------- MODULE MC_Vfs -------------------------------
(***************************************************************************)
(* Instances of VirtualFs for TLC.                                         *)
(***************************************************************************)
EXTENDS VirtualFs

CONSTANTS t1, t2

\* Two files with different names and contents.
DistinctUploads == {[name |-> "f", cid |-> "c1"], [name |-> "g", cid |-> "c2"]}

OneUpload == {[name |-> "f", cid |-> "c1"]}

\* A blank folder name, and "d".
MCFolderInputs == {<<>>, <<"d">>}
NoFolderInputs == {}
=============================================================================

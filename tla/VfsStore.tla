------------------------------ MODULE VfsStore ------------------------------
(***************************************************************************)
(* What the drive's upload path promises, stated without requests,        *)
(* processes or a file: the virtual file system is one tree, each upload  *)
(* appends its file to the root folder in a single atomic step, and an    *)
(* upload is acknowledged only once its entry is in the tree.  Nothing is *)
(* ever removed.                                                           *)
(***************************************************************************)
EXTENDS Sequences, SequencesExt

CONSTANTS Uploads   \* files that may be uploaded: [name, cid]

VARIABLES tree, acked

Entry(u) == [name |-> u.name, type |-> "file", cid |-> u.cid]

Init ==
  /\ tree = [name |-> "/", type |-> "folder", children |-> <<>>]
  /\ acked = {}

\* An upload's entry is appended to the root folder.
Upload(u) ==
  /\ tree' = [tree EXCEPT !.children = Append(@, Entry(u))]
  /\ UNCHANGED acked

\* An upload whose entry is in the tree is acknowledged.
Ack(u) ==
  /\ Entry(u) \in Range(tree.children)
  /\ acked' = acked \cup {u}
  /\ UNCHANGED tree

Next == \E u \in Uploads : Upload(u) \/ Ack(u)

Spec == Init /\ [][Next]_<<tree, acked>>

=============================================================================

------------------------------ MODULE FilesStat ------------------------------
(***************************************************************************)
(* `ipfs files stat` (part_005): statNode's sizes and, with --with-local, *)
(* walkBlock's local-only size walk over the DAG below the node.          *)
(*                                                                         *)
(* A DAG is a function from block numbers to blocks; a block links only  *)
(* to higher numbers, so every DAG enumerated is acyclic.  A block is raw *)
(* (no links) or a dag-pb node; `size` is len(RawData()).  Two links may  *)
(* reach one block.  `present` is the set of blocks in the local block    *)
(* store; block 1 is the node stat resolved.                              *)
(***************************************************************************)
EXTENDS Naturals, Sequences, SequencesExt, FiniteSets

CONSTANTS
  NBlocks,   \* blocks of the DAG
  MaxLinks   \* links of one dag-pb node

Blocks == 1 .. NBlocks
Top == 1

\* The blocks a DAG enumerated for TLC may hold: raw blocks of 0 or 1
\* bytes; dag-pb nodes of 1 or 2 bytes (a UnixFS node always has Data)
\* with links to later blocks.
BlocksAt(b) ==
  [kind : {"raw"}, size : {0, 1}, links : {<<>>}] \cup
  [kind : {"proto"}, size : {1, 2}, links : BoundedSeq(b + 1 .. NBlocks, MaxLinks)]

DAGs == {d \in [Blocks -> UNION {BlocksAt(b) : b \in Blocks}] : \A b \in Blocks : d[b] \in BlocksAt(b)}

SumSeq(s) == FoldLeft(LAMBDA x, y : x + y, 0, s)

\* nd.Size(): a raw node's length; a dag-pb node's length plus the Tsize
\* of each link, which the builder set to the child's cumulative size.
RECURSIVE CumSize(_, _)
CumSize(d, b) == d[b].size + SumSeq([i \in DOMAIN d[b].links |-> CumSize(d, d[b].links[i])])

\* Mutant: a present child adds only its own block, not its subtree.
WalkBlockShallow(d, pres, b) ==
  LET kids == d[b].links
      here == {i \in DOMAIN kids : kids[i] \in pres}
  IN  [local |-> here = DOMAIN kids,
       sizeLocal |-> d[b].size + SumSeq([i \in DOMAIN kids |->
                                   IF i \in here THEN d[kids[i]].size ELSE 0])]

\* walkBlock: the block's own length; for each link a child missing from
\* the local store clears `local` and is skipped, a present one adds its
\* own walk.  A block reached by two links is walked twice.
RECURSIVE WalkBlock(_, _, _)
WalkBlock(d, pres, b) ==
  LET kids == d[b].links
      sub == [i \in DOMAIN kids |->
                IF kids[i] \in pres THEN WalkBlock(d, pres, kids[i])
                ELSE [local |-> FALSE, sizeLocal |-> 0]]
  IN  [local |-> \A i \in DOMAIN kids : sub[i].local,
       sizeLocal |-> d[b].size + SumSeq([i \in DOMAIN kids |-> sub[i].sizeLocal])]

\* Blocks reachable from b through links, present or not.
RECURSIVE Below(_, _)
Below(d, b) == {b} \cup UNION {Below(d, d[b].links[i]) : i \in DOMAIN d[b].links}

(***************************************************************************)
(* The stat handler for one resolved node.                                *)
(***************************************************************************)
VARIABLES dag, present, withLocal, out

vars == <<dag, present, withLocal, out>>

Pending == [done |-> FALSE]

Init ==
  /\ dag \in DAGs
  /\ present \in {{Top} \cup s : s \in SUBSET (Blocks \ {Top})}
  /\ withLocal \in BOOLEAN
  /\ out = Pending

\* statNode, then for --with-local walkBlock (part_005 218-247); the
\* output carries CumulativeSize and, with locality, Local and SizeLocal,
\* from which the text encoder prints SizeLocal/CumulativeSize as a
\* percentage.
Stat ==
  /\ out = Pending
  /\ out' = [done |-> TRUE, cum |-> CumSize(dag, Top), withLocality |-> withLocal,
             local |-> withLocal /\ WalkBlock(dag, present, Top).local,
             sizeLocal |-> IF withLocal THEN WalkBlock(dag, present, Top).sizeLocal ELSE 0]
  /\ UNCHANGED <<dag, present, withLocal>>

Done == out.done /\ UNCHANGED vars

Next == Stat \/ Done

Spec == Init /\ [][Next]_vars

(***************************************************************************)
(* Properties.                                                             *)
(***************************************************************************)
\* SizeLocal never exceeds CumulativeSize, and a DAG reported fully local
\* has SizeLocal equal to it: the walk counts a block reached by two
\* links twice exactly as the Tsize sum does (spec.md 9), so the printed
\* percentage is at most 100 and 100 when everything is local.
LocalWithinCumulative ==
  out.done /\ out.withLocality =>
    /\ out.sizeLocal <= out.cum
    /\ out.local => out.sizeLocal = out.cum

\* Local is reported exactly when every block below the node is in the
\* local store, although the walk stops descending at the first missing
\* block of each branch (spec.md 4.6).
LocalFlagExact ==
  out.done /\ out.withLocality => (out.local <=> Below(dag, Top) \subseteq present)

=============================================================================

------------------------------ MODULE FilesSpec ------------------------------
(***************************************************************************)
(* What the `ipfs files` commands promise a client that is alone with the *)
(* daemon (spec.md 4-7): a command is issued, and when it is answered its *)
(* whole effect on the MFS tree happens at once, as a function of the     *)
(* tree it started from.  A failing command changes nothing, except the  *)
(* parent directories --parents created before the failure (spec.md 4.5: *)
(* makeParents is not undone).  A restart of the daemon may put any well- *)
(* formed tree in place; which one is the concern of the flush properties *)
(* of FilesCmd.                                                           *)
(*                                                                         *)
(* FilesArgs (and through it MfsTree) gives the entry and hash shapes and *)
(* the pure operators on a tree; the variables of MfsTree play no part.  *)
(***************************************************************************)
EXTENDS FilesArgs

CONSTANTS InitRoot, Commands, Payload, NoCount

VARIABLES
  tree,  \* path -> entry: the MFS tree as the client observes it
  req,   \* the command issued and not yet answered
  boots  \* restarts of the daemon so far

NoCmd == [op |-> "none"]

\* Every entry hangs from a directory.
WellFormed(t) == \A q \in NonRoot : t[q] # NoEntry => t[Front(q)].type = "dir"

\* The subtree at p leaves t.
Pruned(t, p) == [q \in Paths |-> IF IsPrefix(p, q) THEN NoEntry ELSE t[q]]

\* The node with hash h is linked at p: its subtree appears below p.
Grafted(t, p, h) ==
  [q \in Paths |->
     IF IsPrefix(p, q) THEN EntryOf(SubHash(h, SubSeq(q, Len(p) + 1, Len(q)))) ELSE t[q]]

\* The directories missing on the way to p are created with builder b.
WithDirs(t, p, b) == DirsIn(t, MissingDirsIn(t, p), b)

WithMeta(t, p, f, x) == [t EXCEPT ![p].meta[f] = x]

(***************************************************************************)
(* The outcomes of command k on tree t.                                   *)
(***************************************************************************)
\* write: the payload (cut to --count) at --offset of the file, created
\* with -e under an existing directory, emptied first with --truncate.
\* A negative --offset is rejected first; a negative --count only after
\* --parents made the directories, and spec.md 6 has it change nothing
\* else.  The code also creates and truncates the file before that check
\* (filesWriteCmd.Run 1000-1048): the write_truncate run shows it.
WriteResults(t, k) ==
  LET p == k.path
      b == Prefix(k.prefix)
      t1 == IF k.parents /\ Len(p) > 1 THEN WithDirs(t, Front(p), b) ELSE t
      new == FileEntryM(<<>>, [NoMeta EXCEPT !.cid =
                                 IF b = NoBuilder THEN t1[Front(p)].meta.cid ELSE b])
      f == IF t1[p].type = "file" THEN t1[p] ELSE new
      bs == IF k.count = NoCount THEN Payload ELSE Limit(Payload, k.count)
  IN
  CASE \/ PrefixErr(k.prefix) # "none"
       \/ k.offset < 0
       \/ k.parents /\ Len(p) > 1 /\ ParentsErrIn(t, p) # "ok" -> {t}
    [] \/ t1[p].type = "dir"
       \/ k.count # NoCount /\ k.count < 0
       \/ /\ t1[p] = NoEntry
          /\ ~k.create \/ LookupErrIn(t1, p) = "notdir" \/ LookupErrIn(t1, Front(p)) # "ok" -> {t1}
    [] OTHER ->
         {[t1 EXCEPT ![p] = [f EXCEPT !.data = WriteAt(IF k.trunc THEN <<>> ELSE f.data, k.offset, bs)]]}

\* rm: a file, or with -r or --force also a directory, leaves its parent.
RmRemoves(t, k) ==
  LET p == k.path IN
  /\ p # Root
  /\ t[Front(p)].type = "dir"
  /\ t[p] # NoEntry
  /\ t[p].type = "file" \/ k.r \/ k.force

\* mv (spec.md 4.5): not the root, not into itself, onto a free name in
\* an existing directory.
MvMoves(t, s, d) ==
  /\ s # Root /\ d # Root
  /\ t[s] # NoEntry
  /\ ~IsPrefix(s, d)
  /\ t[Front(d)].type = "dir"
  /\ t[d] = NoEntry

\* cp: the source as it is when the command starts, linked at a free
\* name, or with --force in place of a file.
CpResults(t, k) ==
  LET d == k.dst
      h == IF k.src # NoRef THEN HashIn(t, k.src) ELSE k.ext
      t1 == IF k.parents THEN WithDirs(t, Front(d), NoBuilder) ELSE t
  IN
  CASE \/ k.src # NoRef /\ t[k.src] = NoEntry
       \/ k.src = NoRef /\ k.ext = Invalid
       \/ k.parents /\ ParentsErrIn(t, d) # "ok" -> {t}
    [] t1[Front(d)].type = "dir" /\ (t1[d] = NoEntry \/ (k.force /\ t1[d].type = "file")) ->
         {Grafted(t1, d, h)}
    [] OTHER -> {t1}

\* mkdir: a new directory, or with -p any missing ones up to it.
MkdirMakes(t, k) ==
  LET p == k.path IN
  /\ PrefixErr(k.prefix) = "none"
  /\ p # Root
  /\ ParentsErrIn(t, p) = "ok"
  /\ k.parents \/ LookupErrIn(t, Front(p)) = "ok"
  /\ t[p] = NoEntry \/ (k.parents /\ t[p].type = "dir")

\* chcid: a builder, and a directory to take it.
ChcidSets(t, k) ==
  /\ PrefixErr(k.prefix) = "none"
  /\ Prefix(k.prefix) # NoBuilder
  /\ t[k.path].type = "dir"

Results(t, k) ==
  LET p == k.path IN
  CASE k.op = "write" -> WriteResults(t, k)
    [] k.op = "rm" -> IF RmRemoves(t, k) THEN {Pruned(t, p)} ELSE {t}
    [] k.op = "mv" -> IF MvMoves(t, k.src, k.dst)
                      THEN {Grafted(Pruned(t, k.src), k.dst, HashIn(t, k.src))} ELSE {t}
    [] k.op = "cp" -> CpResults(t, k)
    [] k.op = "mkdir" -> IF MkdirMakes(t, k) THEN {WithDirs(t, p, Prefix(k.prefix))} ELSE {t}
    [] k.op = "flush" -> {t}
    [] k.op = "chmod" -> IF ~ModeErr(k.mode) /\ t[p] # NoEntry
                         THEN {WithMeta(t, p, "mode", OctalValue(k.mode))} ELSE {t}
    [] k.op = "touch" -> IF t[p] # NoEntry
                         THEN {WithMeta(t, p, "mtime", x) :
                                 x \in IF k.mtime # 0 THEN {k.mtime} ELSE Mtimes \ {0}}
                         ELSE {t}
    [] k.op = "chcid" -> IF ChcidSets(t, k) THEN {WithMeta(t, p, "cid", Prefix(k.prefix))} ELSE {t}

-----------------------------------------------------------------------------
Issue == req = NoCmd /\ req' \in Commands /\ UNCHANGED <<tree, boots>>

Answer == req # NoCmd /\ tree' \in Results(tree, req) /\ req' = NoCmd /\ UNCHANGED boots

Restart ==
  /\ boots' = boots + 1
  /\ tree' \in [Paths -> Entries] /\ WellFormed(tree')
  /\ req' = NoCmd

Init ==
  /\ tree = [q \in Paths |-> EntryOf(SubHash(InitRoot, q))]
  /\ req = NoCmd
  /\ boots = 0

Next == Issue \/ Answer \/ Restart

Spec == Init /\ [][Next]_<<tree, req, boots>>

=============================================================================

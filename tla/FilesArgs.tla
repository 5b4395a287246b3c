------------------------------ MODULE FilesArgs ------------------------------
(***************************************************************************)
(* The arguments of the `ipfs files` commands as the handlers in          *)
(* src/unnamed/part_005 (kubo's core/commands/files.go) read them: the   *)
(* CID builder options, the octal mode, the --count limit, the parent    *)
(* check of --parents and the UnixFS check of an external object.  Both  *)
(* the handler model FilesCmd and the atomic specification FilesSpec use  *)
(* them.                                                                  *)
(***************************************************************************)
EXTENDS MfsTree

(***************************************************************************)
(* getPrefix and getPrefixNew (the same code): the CID builder asked for  *)
(* by --cid-version and --hash, given as o = [verSet, ver, hashSet,      *)
(* hash], with ver 0 when unset as Go's zero value.  Neither option:     *)
(* NoBuilder.  A hash function forces CIDv1 unless a version other than  *)
(* 0 was given; dag.PrefixForCidVersion knows versions 0 and 1 only; an  *)
(* unknown hash function name is an error.                               *)
(***************************************************************************)
PrefixVersion(o) == IF o.hashSet /\ o.ver = 0 THEN 1 ELSE o.ver

PrefixErr(o) ==
  IF /\ o.verSet \/ o.hashSet
     /\ PrefixVersion(o) \notin {0, 1} \/ (o.hashSet /\ o.hash \notin HashFuns)
  THEN "prefix" ELSE "none"

Prefix(o) ==
  CASE ~o.verSet /\ ~o.hashSet -> NoBuilder
    [] o.hashSet -> [v |-> PrefixVersion(o), h |-> o.hash]
    [] OTHER -> IF o.ver = 0 THEN DefaultBuilder ELSE [v |-> 1, h |-> "sha2-256"]

\* strconv.ParseInt(mode, 8, 32) of a string of octal digits.
RECURSIVE OctalValue(_)
OctalValue(ds) == IF ds = <<>> THEN 0 ELSE 8 * OctalValue(Front(ds)) + Last(ds)
ModeErr(ds) == ds = <<>> \/ \E i \in 1 .. Len(ds) : ds[i] > 7

\* io.LimitReader: at most n bytes of s.
Limit(s, n) == SubSeq(s, 1, IF n < Len(s) THEN n ELSE Len(s))

\* ensureContainingDirectoryExists: a file above p makes mfs.Mkdir of
\* the parent with Mkparents fail.
ParentsErrIn(m, p) ==
  IF \E k \in 1 .. Len(p) - 1 : m[SubSeq(p, 1, k)].type = "file" THEN "notdir" ELSE "ok"

\* No MFS path: the source of `files cp` is an /ipfs/ path.
NoRef == <<"none">>

\* An external object that is not valid UnixFS: `files cp` rejects it.
Invalid == [type |-> "invalid"]

=============================================================================

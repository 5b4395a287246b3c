------------------------------- MODULE MfsPath -------------------------------
(***************************************************************************)
(* How `ipfs files rm` turns its argument into the entry it removes       *)
(* (part_005): checkPath cleans the argument and keeps a trailing slash,  *)
(* then removePath refuses "/", trims the trailing slash and splits the   *)
(* path into the parent directory it looks up and the name it unlinks.    *)
(*                                                                         *)
(* The properties are about the spelling of paths, so a path here is the  *)
(* sequence of its characters, over a small alphabet holding the          *)
(* separator, "." and one name character.                                 *)
(***************************************************************************)
EXTENDS Naturals, Sequences, SequencesExt

CONSTANTS
  NameChars,    \* characters of names other than "/" and "."
  MaxPathLen    \* longest argument enumerated

Slash == "/"
Dot == "."
Chars == NameChars \cup {Slash, Dot}
Args == BoundedSeq(Chars, MaxPathLen)
RootPath == <<Slash>>

\* The pieces of s between separators, empty pieces included.
RECURSIVE SplitSlash(_)
SplitSlash(s) ==
  LET i == SelectInSeq(s, LAMBDA c : c = Slash)
  IN  IF i = 0 THEN <<s>>
      ELSE <<SubSeq(s, 1, i - 1)>> \o SplitSlash(SubSeq(s, i + 1, Len(s)))

\* Path names: the non-empty pieces.
Names(s) == SelectSeq(SplitSlash(s), LAMBDA t : t # <<>>)

(***************************************************************************)
(* Go's path.Clean on a rooted path: separators collapse, "." elements go, *)
(* ".." removes the element before it and is dropped at the root, and an  *)
(* empty result is "/".                                                    *)
(***************************************************************************)
RECURSIVE Resolve(_, _)
Resolve(stack, toks) ==
  IF toks = <<>> THEN stack
  ELSE LET t == Head(toks)
       IN  CASE t = <<Dot, Dot>> -> Resolve(IF stack = <<>> THEN stack ELSE Front(stack), Tail(toks))
             [] t = <<Dot>> -> Resolve(stack, Tail(toks))
             [] OTHER -> Resolve(Append(stack, t), Tail(toks))

Join(elems) ==
  IF elems = <<>> THEN RootPath
  ELSE FlattenSeq([i \in 1 .. Len(elems) |-> <<Slash>> \o elems[i]])

Clean(p) == Join(Resolve(<<>>, Names(p)))

\* checkPath: empty and relative arguments fail; the cleaned path keeps
\* the argument's trailing slash.
checkPath(p) ==
  CASE p = <<>> -> [err |-> "empty"]
    [] p[1] # Slash -> [err |-> "relative"]
    [] Last(p) = Slash /\ p # RootPath -> [err |-> "none", path |-> Clean(p) \o <<Slash>>]
    [] OTHER -> [err |-> "none", path |-> Clean(p)]

\* Mutant: the trailing slash is not trimmed before the split.
RemoveTargetNoTrim(path) ==
  IF path = RootPath THEN [err |-> "root"]
  ELSE LET i == SelectLastInSeq(path, LAMBDA c : c = Slash)
       IN  [err |-> "none", dir |-> SubSeq(path, 1, i), name |-> SubSeq(path, i + 1, Len(path))]

\* removePath up to its lookup: "/" is refused, a trailing slash trimmed,
\* and gopath.Split cuts after the last separator.
RemoveTarget(path) ==
  IF path = RootPath THEN [err |-> "root"]
  ELSE LET q == IF Last(path) = Slash THEN Front(path) ELSE path
           i == SelectLastInSeq(q, LAMBDA c : c = Slash)
       IN  [err |-> "none", dir |-> SubSeq(q, 1, i), name |-> SubSeq(q, i + 1, Len(q))]

\* One argument of `files rm`: checkPath's error, or removePath's.
RmArg(p) ==
  IF checkPath(p).err # "none" THEN checkPath(p) ELSE RemoveTarget(checkPath(p).path)

(***************************************************************************)
(* The rm handler's loop body for one argument (part_005 1281-1290).      *)
(***************************************************************************)
VARIABLES arg, res

vars == <<arg, res>>

Pending == [err |-> "pending"]

Init == arg \in Args /\ res = Pending

Rm == res = Pending /\ res' = RmArg(arg) /\ UNCHANGED arg

Done == res # Pending /\ UNCHANGED vars

Next == Rm \/ Done

Spec == Init /\ [][Next]_vars

(***************************************************************************)
(* Properties.                                                             *)
(***************************************************************************)
\* An argument that names a non-root path is removed from the directory
\* and under the name that path.Clean gives it: the trailing slash
\* checkPath keeps and removePath trims never changes the target.  The
\* parent is looked up by its names (mfs.Lookup skips empty pieces).
TargetIsCleanPath ==
  res # Pending /\ arg # <<>> /\ arg[1] = Slash /\ Clean(arg) # RootPath =>
    /\ res.err = "none"
    /\ Append(Names(res.dir), res.name) = Names(Clean(arg))

\* Every spelling of "/" is refused as the root (spec.md 8: remove("/",
\* recursive) always fails with RootOperationError).
RootRemovalRejected ==
  res # Pending /\ arg # <<>> /\ arg[1] = Slash /\ Clean(arg) = RootPath =>
    res.err = "root"

=============================================================================

------------------------------ MODULE MfsTree ------------------------------
(***************************************************************************)
(* The Mutable File System (MFS) the `ipfs files` commands drive: an      *)
(* in-memory tree of directories and files over an immutable, content-    *)
(* addressed DAG, with one published root hash.  The MFS library itself   *)
(* (boxo/mfs) is not part of this repository; its operations are         *)
(* modelled from spec.md sections 3-5.                                    *)
(*                                                                         *)
(* A hash is modelled by the content it addresses (hashing is injective,  *)
(* spec.md invariant 1): a file hash is its file entry, a directory hash  *)
(* is the record of its links, name -> child hash.  Both carry the node's *)
(* metadata: the optional UnixFS mode and mtime and the CID builder (CID  *)
(* version and multihash function) the node is encoded with; a change of *)
(* any of them is a change of the hash.                                   *)
(*                                                                         *)
(*   mem : the in-memory tree, path -> entry (NoEntry where nothing is).   *)
(*   lt  : for every non-root path, the hash that the parent's in-memory  *)
(*         link table records for it: the child's hash as of its last     *)
(*         encoding, stale while the child has unflushed changes.         *)
(*   pub : the published root hash, the only state that survives a crash. *)
(***************************************************************************)
EXTENDS Naturals, Sequences, SequencesExt, FiniteSets

CONSTANTS
  Names,      \* directory entry names
  MaxDepth,   \* longest path modelled
  Bytes,      \* byte values a write may carry
  Zero,       \* the byte a write's gap is filled with
  MaxLen,     \* longest file content modelled
  Modes,      \* UnixFS modes a node may carry (0: none set)
  Mtimes,     \* UnixFS modification times a node may carry (0: none set)
  HashFuns,   \* multihash function names the build knows
  NoBuilder   \* no CID builder given: the new node inherits its directory's

ASSUME MaxDepth \in Nat \ {0} /\ MaxLen \in Nat /\ Zero \notin Bytes
ASSUME 0 \in Modes /\ 0 \in Mtimes /\ "sha2-256" \in HashFuns

VARIABLES mem, lt, pub

mfsVars == <<mem, lt, pub>>

Root == <<>>
Paths == UNION {[1 .. k -> Names] : k \in 0 .. MaxDepth}
NonRoot == Paths \ {Root}
Data == BoundedSeq(Bytes \cup {Zero}, MaxLen)

\* A CID builder: CIDv0 exists for sha2-256 only, CIDv1 for every function.
DefaultBuilder == [v |-> 0, h |-> "sha2-256"]
Builders == {DefaultBuilder} \cup [v : {1}, h : HashFuns]
Metas == [mode : Modes, mtime : Mtimes, cid : Builders]
NoMeta == [mode |-> 0, mtime |-> 0, cid |-> DefaultBuilder]

NoEntry == [type |-> "none"]
DirEntryM(x) == [type |-> "dir", meta |-> x]
DirEntry == DirEntryM(NoMeta)
FileEntryM(d, x) == [type |-> "file", data |-> d, meta |-> x]
FileEntry(d) == FileEntryM(d, NoMeta)
Entries == {NoEntry} \cup [type : {"dir"}, meta : Metas] \cup
           [type : {"file"}, data : Data, meta : Metas]

HDirM(links, x) == [type |-> "dir", links |-> links, meta |-> x]
HDir(links) == HDirM(links, NoMeta)
EmptyDir == HDir(<<>>)

\* The node a hash addresses, as an in-memory entry.
EntryOf(h) == IF h.type = "dir" THEN DirEntryM(h.meta) ELSE h

\* The sub-hash found by walking the links of h along the relative path r.
RECURSIVE SubHash(_, _)
SubHash(h, r) ==
  CASE r = <<>> -> h
    [] h.type = "dir" /\ Head(r) \in DOMAIN h.links -> SubHash(h.links[Head(r)], Tail(r))
    [] OTHER -> NoEntry

\* Levels of directories below the node a hash addresses.
RECURSIVE Height(_)
Height(h) ==
  IF h.type = "dir" /\ DOMAIN h.links # {}
  THEN 1 + Max({Height(h.links[n]) : n \in DOMAIN h.links})
  ELSE 0

\* A node with hash h can be placed at p without leaving the modelled depth.
Fits(h, p) == Len(p) + Height(h) <= MaxDepth

PubAt(p) == EntryOf(SubHash(pub, p))

\* Names present in directory p of the in-memory tree m.
KidsIn(m, p) == {n \in Names : Len(p) < MaxDepth /\ m[Append(p, n)] # NoEntry}
Kids(p) == KidsIn(mem, p)

\* Mutant: a directory is encoded without its own metadata.
RECURSIVE HashInNoMeta(_, _)
HashInNoMeta(m, p) ==
  IF m[p].type = "dir"
  THEN HDir([n \in KidsIn(m, p) |-> HashInNoMeta(m, Append(p, n))])
  ELSE m[p]

\* The hash of the subtree at p of tree m, every descendant re-encoded.
RECURSIVE HashIn(_, _)
HashIn(m, p) ==
  IF m[p].type = "dir"
  THEN HDirM([n \in KidsIn(m, p) |-> HashIn(m, Append(p, n))], m[p].meta)
  ELSE m[p]

CurHash(p) == HashIn(mem, p)

(***************************************************************************)
(* mfs.Lookup: "ok", or the error walking the path gives: a component     *)
(* that is a file ("notdir") or a missing name ("notexist").              *)
(***************************************************************************)
LookupErrIn(m, p) ==
  CASE m[p] # NoEntry -> "ok"
    [] \E k \in 0 .. Len(p) - 1 : m[SubSeq(p, 1, k)].type = "file" -> "notdir"
    [] OTHER -> "notexist"
LookupErr(p) == LookupErrIn(mem, p)

(***************************************************************************)
(* Flush (spec.md 4.4 and 5), one node lock at a time.  GetNode of the   *)
(* node at t re-encodes its subtree bottom-up under the subtree's locks, *)
(* its directories' link tables recording the new hashes.  The new hash  *)
(* then climbs: the parent, under its own lock, records it in its link   *)
(* table and is re-encoded from that table (the entries of children off  *)
(* the path keep the hash they last recorded), and the next climb step   *)
(* carries the parent's new hash on.  Between two steps no lock is held  *)
(* (the Block Store write is a suspension point).  The root's new hash   *)
(* is published in a step of its own.                                     *)
(***************************************************************************)
SyncIn(m, l, t) ==
  [q \in NonRoot |-> IF IsPrefix(t, q) /\ q # t /\ m[q] # NoEntry THEN HashIn(m, q) ELSE l[q]]

\* Directory d encoded from its link table l.
EncodeDir(m, l, d) == HDirM([n \in KidsIn(m, d) |-> l[Append(d, n)]], m[d].meta)

(***************************************************************************)
(* Structural mutations.  Each changes the in-memory tree and the link    *)
(* table of the parent only; nothing is published (the parent is dirty). *)
(***************************************************************************)
\* Directory.Unlink: the entry at p and everything below it leave the tree.
Unlink(p) ==
  /\ mem' = [q \in Paths |-> IF IsPrefix(p, q) THEN NoEntry ELSE mem[q]]
  /\ lt' = [q \in NonRoot |-> IF IsPrefix(p, q) THEN NoEntry ELSE lt[q]]
  /\ UNCHANGED pub

\* Directory.AddChild of a node given by its hash: the parent's link table
\* records h, and the subtree is materialised from h on access.
Attach(p, h, m, l) ==
  /\ mem' = [q \in Paths |->
              IF IsPrefix(p, q) THEN EntryOf(SubHash(h, SubSeq(q, Len(p) + 1, Len(q))))
              ELSE m[q]]
  /\ lt' = [q \in NonRoot |->
              IF IsPrefix(p, q) THEN SubHash(h, SubSeq(q, Len(p) + 1, Len(q)))
              ELSE l[q]]

AddChild(p, h) == Attach(p, h, mem, lt) /\ UNCHANGED pub

\* Paths mkdir creates for dir p with parents (mfs.Mkdir, Mkparents).
MissingDirsIn(m, p) == {SubSeq(p, 1, k) : k \in {k \in 1 .. Len(p) : m[SubSeq(p, 1, k)] = NoEntry}}
MissingDirs(p) == MissingDirsIn(mem, p)

\* The CID builder of directory d, or, while d is being created, of its
\* nearest existing ancestor (Directory.Mkdir passes its own builder on).
RECURSIVE BuilderAt(_, _)
BuilderAt(m, d) == IF d = Root \/ m[d].type = "dir" THEN m[d].meta.cid ELSE BuilderAt(m, Front(d))

\* A new node at q is encoded with builder b, or inherits its directory's.
NewMeta(m, q, b) == [NoMeta EXCEPT !.cid = IF b = NoBuilder THEN BuilderAt(m, Front(q)) ELSE b]

DirsIn(m, ps, b) == [q \in Paths |-> IF q \in ps THEN DirEntryM(NewMeta(m, q, b)) ELSE m[q]]
DirLinksIn(m, l, ps, b) ==
  [q \in NonRoot |-> IF q \in ps THEN HDirM(<<>>, NewMeta(m, q, b)) ELSE l[q]]

MakeDirs(ps, b) == mem' = DirsIn(mem, ps, b) /\ lt' = DirLinksIn(mem, lt, ps, b)

\* mfs.Mv (spec.md 4.5): the source leaves, its current hash is linked at
\* the destination.
Move(src, dst) ==
  LET h == CurHash(src)
      m == [q \in Paths |-> IF IsPrefix(src, q) THEN NoEntry ELSE mem[q]]
      l == [q \in NonRoot |-> IF IsPrefix(src, q) THEN NoEntry ELSE lt[q]]
  IN  Attach(dst, h, m, l) /\ UNCHANGED pub

\* Mutant: the tree is reloaded with raw links in place of nodes.
ReloadRaw ==
  /\ mem' = [q \in Paths |-> SubHash(pub, q)]
  /\ lt' = [q \in NonRoot |-> SubHash(pub, q)]
  /\ UNCHANGED pub

\* A crash loses everything in memory; the tree is reloaded from pub.
Reload ==
  /\ mem' = [q \in Paths |-> EntryOf(SubHash(pub, q))]
  /\ lt' = [q \in NonRoot |-> SubHash(pub, q)]
  /\ UNCHANGED pub

(***************************************************************************)
(* A file descriptor write (spec.md 4.3): bytes at the offset overwrite,  *)
(* a gap past the end is zero-filled, the content grows as needed.        *)
(***************************************************************************)
WriteAt(d, off, bs) ==
  LET n == IF Len(d) > off + Len(bs) THEN Len(d) ELSE off + Len(bs)
  IN  [i \in 1 .. n |->
         IF i > off /\ i <= off + Len(bs) THEN bs[i - off]
         ELSE IF i <= Len(d) THEN d[i] ELSE Zero]

MfsInit(root) ==
  /\ pub = root
  /\ mem = [q \in Paths |-> EntryOf(SubHash(root, q))]
  /\ lt = [q \in NonRoot |-> SubHash(root, q)]

=============================================================================

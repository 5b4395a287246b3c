------------------------------ MODULE FilesCmd ------------------------------
(***************************************************************************)
(* The `ipfs files` command handlers (src/unnamed/part_005, kubo's        *)
(* core/commands/files.go) run by concurrent API clients against the one  *)
(* MFS tree of the daemon.  A handler is a sequence of MFS calls; each    *)
(* call is atomic (the MFS node locks), and a client's pc says which call *)
(* comes next, so calls of different clients interleave.  A crash of the  *)
(* daemon ends every handler and reloads the tree from the published root.*)
(*                                                                         *)
(* Handlers keep the MFS object they looked up (ref): when that node is   *)
(* unlinked or moved away in between, the object is detached and later    *)
(* calls on it no longer reach the tree.                                  *)
(*                                                                         *)
(* A flush is not one call: it takes one node lock at a time on its way   *)
(* to the root (FlushUp), so other handlers run between its levels.  A    *)
(* write descriptor is not exclusive (spec.md 4.3): its writes go to the  *)
(* file in the tree as they are made (WriteData).                         *)
(***************************************************************************)
EXTENDS FilesArgs

CONSTANTS
  Clients,      \* concurrent API clients
  InitRoot,     \* published root hash the daemon starts from
  Commands,     \* the command invocations a client may issue
  Payload,      \* the bytes `files write` sends
  NoCount,      \* --count not given
  MaxCmds,      \* commands issued in a behaviour
  MaxCrashes    \* daemon crashes in a behaviour

VARIABLES
  pc,        \* client -> next step of its handler
  cmd,       \* client -> the invocation it runs
  err,       \* client -> first error of the handler ("none" if none)
  ref,       \* client -> path of the MFS object it holds
  detached,  \* client -> that object has left the tree
  fl,        \* client -> the flush its handler is carrying up, or NoWalk
  node,      \* client -> the hash `files cp` resolved its source to
  bld,       \* client -> CID builder `files write` takes for a new file
  issued,    \* commands issued so far
  crashes,   \* crashes so far
  \* history variables for the properties
  intent,    \* client -> entries its handler put in place, path |-> entry
  promised,  \* entries of acknowledged flushed commands
  moving,    \* client -> the clean subtree its `files mv` is moving
  orig,      \* client -> entry at the write path when the handler began
  pre        \* the tree when the command running was issued

vars == <<mem, lt, pub, pc, cmd, err, ref, detached, fl, node, bld, issued,
          crashes, intent, promised, moving, orig, pre>>

NoCmd == [op |-> "none"]
NoMove == [src |-> NoRef]
Fact(p, e) == [path |-> p, val |-> e]

Idle(c) == pc[c] = "idle"

Goto(c, s) == pc' = [pc EXCEPT ![c] = s]
Fail(c, e) == /\ Goto(c, "ret")
              /\ err' = [err EXCEPT ![c] = IF @ = "none" THEN e ELSE @]

(***************************************************************************)
(* Every structural change at the paths ps ends the claims about them:    *)
(* promised and intended entries at or below ps, moves from or to there   *)
(* of other clients.  Objects at or below removed paths are detached.     *)
(***************************************************************************)
Untouched(fs, ps) == {f \in fs : \A q \in ps : ~IsPrefix(q, f.path)}

Touch(c, ps, new) ==
  /\ promised' = Untouched(promised, ps)
  /\ intent' = [d \in Clients |->
                  IF d = c THEN intent[d] \cup new ELSE Untouched(intent[d], ps)]

TouchMoves(c, ps) ==
  [d \in Clients |->
     IF d # c /\ moving[d] # NoMove
        /\ \E q \in ps, e \in {moving[d].src, moving[d].dst} : IsPrefix(q, e) \/ IsPrefix(e, q)
     THEN NoMove ELSE moving[d]]

Detach(ps) ==
  detached' = [d \in Clients |->
                 detached[d] \/ (ref[d] # NoRef /\ \E q \in ps : IsPrefix(q, ref[d]))]

(***************************************************************************)
(* A flush the handler's MFS call makes: GetNode of the node at p in the *)
(* tree m with link tables l, then the climb of FlushUp, after which the *)
(* handler goes on at next.                                               *)
(***************************************************************************)
NoWalk == [at |-> NoRef]

StartFlush(c, m, l, p, next) ==
  /\ lt' = SyncIn(m, l, p)
  /\ fl' = [fl EXCEPT ![c] = [at |-> p, h |-> HashIn(m, p), next |-> next]]
  /\ Goto(c, "flushUp")
  /\ UNCHANGED pub

\* mfs.FlushPath of a path the handler names; it fails if the path is gone.
FlushStep(c, p, next) ==
  IF LookupErr(p) # "ok"
  THEN Fail(c, LookupErr(p)) /\ UNCHANGED <<lt, pub, fl>>
  ELSE StartFlush(c, mem, lt, p, next) /\ UNCHANGED err

\* updateChildEntry: the parent of the node the walk is at records its new
\* hash and is re-encoded; the root's hash is published (Root's
\* updateChildEntry, the republisher).  A node that has left the tree is
\* detached: its walk reaches the tree no more.
FlushUp(c) ==
  LET w == fl[c]
      l == [lt EXCEPT ![w.at] = w.h]
  IN
  /\ pc[c] = "flushUp"
  /\ CASE w.at = Root ->
            /\ pub' = w.h
            /\ Goto(c, w.next)
            /\ fl' = [fl EXCEPT ![c] = NoWalk]
            /\ UNCHANGED lt
       [] mem[w.at] = NoEntry ->
            /\ Goto(c, w.next)
            /\ fl' = [fl EXCEPT ![c] = NoWalk]
            /\ UNCHANGED <<lt, pub>>
       [] OTHER ->
            /\ lt' = l
            /\ fl' = [fl EXCEPT ![c] = [w EXCEPT !.at = Front(w.at), !.h = EncodeDir(mem, l, Front(w.at))]]
            /\ UNCHANGED <<pub, pc>>
  /\ UNCHANGED <<mem, cmd, err, ref, detached, node, bld, issued, crashes, pre, intent, promised, moving, orig>>

\* mfs.Mkdir with Mkparents for the directories above p, without flush,
\* encoded with builder b (NoBuilder: each inherits its parent's).
EnsureParents(p, b) == MakeDirs(MissingDirs(Front(p)), b)
ParentsErr(p) == ParentsErrIn(mem, p)

-----------------------------------------------------------------------------
(***************************************************************************)
(* files write: filesWriteCmd.Run, with getFileHandle and                 *)
(* ensureContainingDirectoryExists.                                       *)
(***************************************************************************)
WriteStart(c) ==
  LET p == cmd[c].path IN
  /\ pc[c] = "wStart"
  /\ orig' = [orig EXCEPT ![c] = mem[p]]
  /\ IF PrefixErr(cmd[c].prefix) # "none"
     THEN Fail(c, PrefixErr(cmd[c].prefix)) /\ UNCHANGED <<mem, lt, promised, intent, moving, detached>>
     ELSE IF cmd[c].offset < 0
     THEN Fail(c, "negoffset") /\ UNCHANGED <<mem, lt, promised, intent, moving, detached>>
     ELSE IF cmd[c].parents /\ Len(p) > 1
     THEN IF ParentsErr(p) # "ok"
          THEN Fail(c, ParentsErr(p)) /\ UNCHANGED <<mem, lt, promised, intent, moving, detached>>
          ELSE /\ EnsureParents(p, Prefix(cmd[c].prefix))
               /\ Touch(c, MissingDirs(Front(p)), {})
               /\ moving' = TouchMoves(c, MissingDirs(Front(p)))
               /\ Goto(c, "wLookup")
               /\ UNCHANGED <<err, detached>>
     ELSE Goto(c, "wLookup") /\ UNCHANGED <<mem, lt, err, promised, intent, moving, detached>>
  /\ UNCHANGED <<pub, cmd, ref, fl, node, bld, issued, crashes, pre>>

\* Mutant: the new file takes the default builder, not its directory's.
WriteLookupDefaultBuilder(c) ==
  LET p == cmd[c].path
      b == Prefix(cmd[c].prefix)
  IN
  /\ pc[c] = "wLookup"
  /\ CASE mem[p].type = "file" ->
            Goto(c, "wWrite") /\ ref' = [ref EXCEPT ![c] = p] /\ UNCHANGED <<err, bld>>
       [] mem[p].type = "dir" -> Fail(c, "notfile") /\ UNCHANGED <<ref, bld>>
       [] ~cmd[c].create \/ LookupErr(p) = "notdir" -> Fail(c, LookupErr(p)) /\ UNCHANGED <<ref, bld>>
       [] LookupErr(Front(p)) # "ok" -> Fail(c, LookupErr(Front(p))) /\ UNCHANGED <<ref, bld>>
       [] OTHER -> /\ Goto(c, "wAddChild")
                   /\ ref' = [ref EXCEPT ![c] = Front(p)]
                   /\ bld' = [bld EXCEPT ![c] = IF b = NoBuilder THEN DefaultBuilder ELSE b]
                   /\ UNCHANGED err
  /\ detached' = [detached EXCEPT ![c] = FALSE]
  /\ UNCHANGED <<mfsVars, cmd, fl, node, issued, crashes, pre, intent, promised, moving, orig>>

\* getFileHandle: Lookup of the path, then of its parent when creating,
\* whose CID builder the new file takes unless --cid-version or --hash
\* named one.
WriteLookup(c) ==
  LET p == cmd[c].path
      b == Prefix(cmd[c].prefix)
  IN
  /\ pc[c] = "wLookup"
  /\ CASE mem[p].type = "file" ->
            Goto(c, "wWrite") /\ ref' = [ref EXCEPT ![c] = p] /\ UNCHANGED <<err, bld>>
       [] mem[p].type = "dir" -> Fail(c, "notfile") /\ UNCHANGED <<ref, bld>>
       [] ~cmd[c].create \/ LookupErr(p) = "notdir" -> Fail(c, LookupErr(p)) /\ UNCHANGED <<ref, bld>>
       [] LookupErr(Front(p)) # "ok" -> Fail(c, LookupErr(Front(p))) /\ UNCHANGED <<ref, bld>>
       [] OTHER -> /\ Goto(c, "wAddChild")
                   /\ ref' = [ref EXCEPT ![c] = Front(p)]
                   /\ bld' = [bld EXCEPT ![c] = IF b = NoBuilder THEN mem[Front(p)].meta.cid ELSE b]
                   /\ UNCHANGED err
  /\ detached' = [detached EXCEPT ![c] = FALSE]
  /\ UNCHANGED <<mfsVars, cmd, fl, node, issued, crashes, pre, intent, promised, moving, orig>>

\* pdir.AddChild(fname, empty file node encoded with that builder).
WriteAddChild(c) ==
  LET p == cmd[c].path IN
  /\ pc[c] = "wAddChild"
  /\ IF detached[c]
     THEN Goto(c, "wChild") /\ UNCHANGED <<mem, lt, err, promised, intent, moving>>
     ELSE IF mem[p] # NoEntry
     THEN Fail(c, "exists") /\ UNCHANGED <<mem, lt, promised, intent, moving>>
     ELSE /\ AddChild(p, FileEntryM(<<>>, [NoMeta EXCEPT !.cid = bld[c]]))
          /\ Touch(c, {p}, {})
          /\ moving' = TouchMoves(c, {p})
          /\ Goto(c, "wChild")
          /\ UNCHANGED err
  /\ UNCHANGED <<pub, cmd, ref, detached, fl, node, bld, issued, crashes, pre, orig>>

\* pdir.Child(fname) and the *mfs.File type check.
WriteChild(c) ==
  LET p == cmd[c].path IN
  /\ pc[c] = "wChild"
  /\ CASE detached[c] -> Goto(c, "wWrite") /\ UNCHANGED <<err, ref>>
       [] mem[p].type = "file" -> Goto(c, "wWrite") /\ ref' = [ref EXCEPT ![c] = p] /\ UNCHANGED err
       [] mem[p] = NoEntry -> Fail(c, "notexist") /\ UNCHANGED ref
       [] OTHER -> Fail(c, "race") /\ UNCHANGED ref
  /\ UNCHANGED <<mfsVars, cmd, detached, fl, node, bld, issued, crashes, pre, intent, promised, moving, orig>>

\* fi.Open, then Truncate, the --count check, Seek and io.Copy on the
\* descriptor.  Descriptors are not exclusive and write into the File's
\* in-memory node at once, byte range by byte range (spec.md 4.3); one on
\* a detached File changes nothing in the tree.
WriteData(c) ==
  LET f == ref[c]
      n == cmd[c].count
      neg == n # NoCount /\ n < 0
      t == IF cmd[c].trunc THEN <<>> ELSE mem[f].data
      d == IF neg THEN t ELSE WriteAt(t, cmd[c].offset, IF n = NoCount THEN Payload ELSE Limit(Payload, n))
      e == [mem[f] EXCEPT !.data = d]
  IN
  /\ pc[c] = "wWrite"
  /\ IF detached[c]
     THEN UNCHANGED <<mem, promised, intent, moving>>
     ELSE /\ Len(d) <= MaxLen
          /\ mem' = [mem EXCEPT ![f] = e]
          /\ Touch(c, IF e = mem[f] THEN {} ELSE {f}, IF neg THEN {} ELSE {Fact(cmd[c].path, e)})
          /\ moving' = TouchMoves(c, IF e = mem[f] THEN {} ELSE {f})
  /\ err' = IF neg THEN [err EXCEPT ![c] = "negcount"] ELSE err
  /\ Goto(c, "wClose")
  /\ UNCHANGED <<lt, pub, cmd, ref, detached, fl, node, bld, issued, crashes, pre, orig>>

\* The deferred wfd.Close(): with Sync (--flush) the File's node is
\* flushed up to the root.
WriteClose(c) ==
  /\ pc[c] = "wClose"
  /\ IF cmd[c].flush /\ ~detached[c]
     THEN StartFlush(c, mem, lt, ref[c], "wFlushParent")
     ELSE Goto(c, IF cmd[c].flush THEN "wFlushParent" ELSE "ret") /\ UNCHANGED <<lt, pub, fl>>
  /\ ref' = [ref EXCEPT ![c] = IF detached[c] THEN @ ELSE NoRef]
  /\ UNCHANGED <<mem, cmd, err, detached, node, bld, issued, crashes, pre, intent, promised, moving, orig>>

\* The deferred mfs.FlushPath of the parent path, "to clear directory cache".
WriteFlushParent(c) ==
  /\ pc[c] = "wFlushParent"
  /\ FlushStep(c, Front(cmd[c].path), "ret")
  /\ UNCHANGED <<mem, cmd, ref, detached, node, bld, issued, crashes, pre, intent, promised, moving, orig>>

-----------------------------------------------------------------------------
(***************************************************************************)
(* files rm: filesRmCmd.Run for one path, removePath and getParentDir.    *)
(***************************************************************************)
RmStart(c) ==
  LET p == cmd[c].path
      d == Front(p)
  IN
  /\ pc[c] = "rmStart"
  /\ CASE p = Root -> Fail(c, "root") /\ UNCHANGED ref
       [] LookupErr(d) = "notexist" /\ cmd[c].force -> Goto(c, "ret") /\ UNCHANGED <<err, ref>>
       [] LookupErr(d) # "ok" -> Fail(c, LookupErr(d)) /\ UNCHANGED ref
       [] mem[d].type # "dir" -> Fail(c, "race") /\ UNCHANGED ref
       [] OTHER -> /\ Goto(c, IF cmd[c].force THEN "rmUnlink" ELSE "rmChild")
                   /\ ref' = [ref EXCEPT ![c] = d]
                   /\ UNCHANGED err
  /\ detached' = [detached EXCEPT ![c] = FALSE]
  /\ UNCHANGED <<mfsVars, cmd, fl, node, bld, issued, crashes, pre, intent, promised, moving, orig>>

\* pdir.Child(name) and the directory check: on a detached pdir the answer
\* is the detached directory's, which the model does not keep.
RmChild(c) ==
  LET p == cmd[c].path IN
  /\ pc[c] = "rmChild"
  /\ CASE detached[c] -> \/ Goto(c, "rmUnlink") /\ UNCHANGED err
                         \/ Fail(c, "notexist")
       [] mem[p] = NoEntry -> Fail(c, "notexist")
       [] mem[p].type = "dir" /\ ~cmd[c].r -> Fail(c, "isdir")
       [] OTHER -> Goto(c, "rmUnlink") /\ UNCHANGED err
  /\ UNCHANGED <<mfsVars, cmd, ref, detached, fl, node, bld, issued, crashes, pre, intent, promised, moving, orig>>

\* pdir.Unlink(name); with --force a missing entry is not an error.
RmUnlink(c) ==
  LET p == cmd[c].path IN
  /\ pc[c] = "rmUnlink"
  /\ CASE detached[c] ->
            /\ \/ Goto(c, "rmFlush") /\ UNCHANGED err
               \/ IF cmd[c].force THEN Goto(c, "ret") /\ UNCHANGED err ELSE Fail(c, "notexist")
            /\ UNCHANGED <<mem, lt, promised, intent, moving, detached>>
       [] mem[p] = NoEntry ->
            /\ IF cmd[c].force THEN Goto(c, "ret") /\ UNCHANGED err ELSE Fail(c, "notexist")
            /\ UNCHANGED <<mem, lt, promised, intent, moving, detached>>
       [] OTHER ->
            /\ Unlink(p)
            /\ Touch(c, {p}, {Fact(p, NoEntry)})
            /\ moving' = TouchMoves(c, {p})
            /\ Detach({p})
            /\ Goto(c, "rmFlush")
            /\ UNCHANGED err
  /\ UNCHANGED <<pub, cmd, ref, fl, node, bld, issued, crashes, pre, orig>>

\* pdir.Flush(): the parent and its ancestors are re-encoded and published.
RmFlush(c) ==
  /\ pc[c] = "rmFlush"
  /\ IF detached[c]
     THEN Goto(c, "ret") /\ UNCHANGED <<lt, pub, fl>>
     ELSE StartFlush(c, mem, lt, ref[c], "ret")
  /\ UNCHANGED <<mem, cmd, err, ref, detached, node, bld, issued, crashes, pre, intent, promised, moving, orig>>

-----------------------------------------------------------------------------
(***************************************************************************)
(* files mv: filesMvCmd.Run.  mfs.Mv is one atomic call; with --flush the *)
(* handler then flushes the destination's parent, the source's parent    *)
(* when it differs, and the root, in that order.                          *)
(***************************************************************************)
MvErr(s, t) ==
  CASE s = Root -> "root"
    [] LookupErr(s) # "ok" -> LookupErr(s)
    [] IsPrefix(s, t) -> "cycle"
    [] t = Root -> "exists"
    [] LookupErr(Front(t)) # "ok" -> LookupErr(Front(t))
    [] mem[Front(t)].type # "dir" -> "notdir"
    [] mem[t] # NoEntry -> "exists"
    [] OTHER -> "ok"

MvStart(c) ==
  LET s == cmd[c].src
      t == cmd[c].dst
      h == CurHash(s)
  IN
  /\ pc[c] = "mvStart"
  /\ IF MvErr(s, t) # "ok"
     THEN Fail(c, MvErr(s, t)) /\ UNCHANGED <<mem, lt, promised, intent, moving, detached>>
     ELSE /\ Fits(h, t)
          /\ Move(s, t)
          /\ Touch(c, {s, t}, {Fact(s, NoEntry), Fact(t, EntryOf(h))})
          /\ moving' = [TouchMoves(c, {s, t}) EXCEPT ![c] =
                          IF cmd[c].flush /\ SubHash(pub, s) = h
                          THEN [src |-> s, dst |-> t, hash |-> h] ELSE NoMove]
          /\ Detach({s})
          /\ Goto(c, IF cmd[c].flush THEN "mvFlushDst" ELSE "ret")
          /\ UNCHANGED err
  /\ UNCHANGED <<pub, cmd, ref, fl, node, bld, issued, crashes, pre, orig>>

\* Mutant: the source's parent is flushed first.
MvFlushSrcFirst(c) ==
  /\ pc[c] = "mvFlushDst"
  /\ FlushStep(c, Front(cmd[c].src), "mvFlushSrc")
  /\ UNCHANGED <<mem, cmd, ref, detached, node, bld, issued, crashes, pre, intent, promised, moving, orig>>

MvFlushDst(c) ==
  /\ pc[c] = "mvFlushDst"
  /\ FlushStep(c, Front(cmd[c].dst), "mvFlushSrc")
  /\ UNCHANGED <<mem, cmd, ref, detached, node, bld, issued, crashes, pre, intent, promised, moving, orig>>

MvFlushSrc(c) ==
  /\ pc[c] = "mvFlushSrc"
  /\ IF Front(cmd[c].src) # Front(cmd[c].dst)
     THEN FlushStep(c, Front(cmd[c].src), "mvFlushRoot")
     ELSE Goto(c, "mvFlushRoot") /\ UNCHANGED <<lt, pub, err, fl>>
  /\ UNCHANGED <<mem, cmd, ref, detached, node, bld, issued, crashes, pre, intent, promised, moving, orig>>

MvFlushRoot(c) ==
  /\ pc[c] = "mvFlushRoot"
  /\ FlushStep(c, Root, "ret")
  /\ UNCHANGED <<mem, cmd, ref, detached, node, bld, issued, crashes, pre, intent, promised, moving, orig>>


-----------------------------------------------------------------------------
(***************************************************************************)
(* files cp: filesCpCmd.Run, getNodeFromPath, unlinkNodeIfExists and      *)
(* mfs.PutNode.  The source is an MFS path or an external hash; an       *)
(* external object that is not valid UnixFS is rejected.                  *)
(***************************************************************************)
CpStart(c) ==
  LET s == cmd[c].src
      next == CASE cmd[c].parents -> "cpParents"
                [] cmd[c].force   -> "cpChild"
                [] OTHER          -> "cpPut"
  IN
  /\ pc[c] = "cpStart"
  /\ CASE s # NoRef /\ LookupErr(s) # "ok" -> Fail(c, LookupErr(s)) /\ UNCHANGED node
       [] s = NoRef /\ cmd[c].ext = Invalid -> Fail(c, "invalid") /\ UNCHANGED node
       [] OTHER -> /\ node' = [node EXCEPT ![c] = IF s # NoRef THEN CurHash(s) ELSE cmd[c].ext]
                   /\ Goto(c, next)
                   /\ UNCHANGED err
  /\ UNCHANGED <<mfsVars, cmd, ref, detached, fl, bld, issued, crashes, pre, intent, promised, moving, orig>>

\* ensureContainingDirectoryExists (mfs.Mkdir of the parent, Mkparents).
CpParents(c) ==
  LET p == cmd[c].dst IN
  /\ pc[c] = "cpParents"
  /\ IF ParentsErr(p) # "ok"
     THEN Fail(c, ParentsErr(p)) /\ UNCHANGED <<mem, lt, promised, intent, moving>>
     ELSE /\ EnsureParents(p, NoBuilder)
          /\ Touch(c, MissingDirs(Front(p)), {})
          /\ moving' = TouchMoves(c, MissingDirs(Front(p)))
          /\ Goto(c, IF cmd[c].force THEN "cpChild" ELSE "cpPut")
          /\ UNCHANGED err
  /\ UNCHANGED <<pub, cmd, ref, detached, fl, node, bld, issued, crashes, pre, orig>>

\* unlinkNodeIfExists up to pdir.Child(name) and the file check.
CpChild(c) ==
  LET p == cmd[c].dst
      d == Front(p)
  IN
  /\ pc[c] = "cpChild"
  /\ CASE LookupErr(d) = "notexist" -> Goto(c, "cpPut") /\ UNCHANGED <<err, ref>>
       [] LookupErr(d) # "ok" -> Fail(c, LookupErr(d)) /\ UNCHANGED ref
       [] mem[d].type # "dir" -> Fail(c, "notdir") /\ UNCHANGED ref
       [] mem[p] = NoEntry -> Goto(c, "cpPut") /\ UNCHANGED <<err, ref>>
       [] mem[p].type # "file" -> Fail(c, "notfile") /\ UNCHANGED ref
       [] OTHER -> Goto(c, "cpUnlink") /\ ref' = [ref EXCEPT ![c] = d] /\ UNCHANGED err
  /\ detached' = [detached EXCEPT ![c] = FALSE]
  /\ UNCHANGED <<mfsVars, cmd, fl, node, bld, issued, crashes, pre, intent, promised, moving, orig>>

\* pdir.Unlink(name), a separate call on the directory found before.
CpUnlink(c) ==
  LET p == cmd[c].dst IN
  /\ pc[c] = "cpUnlink"
  /\ CASE detached[c] ->
            /\ Goto(c, "cpPut")
            /\ UNCHANGED <<mem, lt, err, promised, intent, moving, detached>>
       [] mem[p] = NoEntry ->
            /\ Fail(c, "notexist")
            /\ UNCHANGED <<mem, lt, promised, intent, moving, detached>>
       [] OTHER ->
            /\ Unlink(p)
            /\ Touch(c, {p}, {})
            /\ moving' = TouchMoves(c, {p})
            /\ Detach({p})
            /\ Goto(c, "cpPut")
            /\ UNCHANGED err
  /\ UNCHANGED <<pub, cmd, ref, fl, node, bld, issued, crashes, pre, orig>>

\* mfs.PutNode: lookup of the parent directory, then AddChild without
\* overwrite of the resolved node.
CpPut(c) ==
  LET p == cmd[c].dst
      h == node[c]
  IN
  /\ pc[c] = "cpPut"
  /\ CASE LookupErr(Front(p)) # "ok" ->
            Fail(c, LookupErr(Front(p))) /\ UNCHANGED <<mem, lt, promised, intent, moving>>
       [] mem[Front(p)].type # "dir" ->
            Fail(c, "notdir") /\ UNCHANGED <<mem, lt, promised, intent, moving>>
       [] mem[p] # NoEntry ->
            Fail(c, "exists") /\ UNCHANGED <<mem, lt, promised, intent, moving>>
       [] OTHER ->
            /\ Fits(h, p)
            /\ AddChild(p, h)
            /\ Touch(c, {p}, {Fact(p, EntryOf(h))})
            /\ moving' = TouchMoves(c, {p})
            /\ Goto(c, IF cmd[c].flush THEN "cpFlushDst" ELSE "ret")
            /\ UNCHANGED err
  /\ UNCHANGED <<pub, cmd, ref, detached, fl, node, bld, issued, crashes, pre, orig>>

CpFlushDst(c) ==
  /\ pc[c] = "cpFlushDst"
  /\ FlushStep(c, cmd[c].dst, "cpFlushParent")
  /\ UNCHANGED <<mem, cmd, ref, detached, node, bld, issued, crashes, pre, intent, promised, moving, orig>>

CpFlushParent(c) ==
  /\ pc[c] = "cpFlushParent"
  /\ FlushStep(c, Front(cmd[c].dst), "ret")
  /\ UNCHANGED <<mem, cmd, ref, detached, node, bld, issued, crashes, pre, intent, promised, moving, orig>>

-----------------------------------------------------------------------------
(***************************************************************************)
(* files mkdir: one call of mfs.Mkdir, which with Flush flushes the new   *)
(* (or, with -p, the existing) final directory up to the root.            *)
(***************************************************************************)
Mkdir(c) ==
  LET p == cmd[c].path
      ps == MissingDirs(p)
      b == Prefix(cmd[c].prefix)
      m == DirsIn(mem, ps, b)
  IN
  /\ pc[c] = "mkStart"
  /\ CASE PrefixErr(cmd[c].prefix) # "none" ->
            /\ Fail(c, PrefixErr(cmd[c].prefix))
            /\ UNCHANGED <<mem, lt, pub, fl, promised, intent, moving>>
       [] p = Root ->
            /\ IF cmd[c].parents THEN Goto(c, "ret") /\ UNCHANGED err ELSE Fail(c, "exists")
            /\ UNCHANGED <<mem, lt, pub, fl, promised, intent, moving>>
       [] ParentsErr(p) # "ok" \/ (~cmd[c].parents /\ LookupErr(Front(p)) # "ok") ->
            /\ Fail(c, IF ParentsErr(p) # "ok" THEN ParentsErr(p) ELSE LookupErr(Front(p)))
            /\ UNCHANGED <<mem, lt, pub, fl, promised, intent, moving>>
       [] mem[p] # NoEntry /\ ~(cmd[c].parents /\ mem[p].type = "dir") ->
            /\ Fail(c, "exists")
            /\ UNCHANGED <<mem, lt, pub, fl, promised, intent, moving>>
       [] OTHER ->
            /\ mem' = m
            /\ IF cmd[c].flush
               THEN StartFlush(c, m, DirLinksIn(mem, lt, ps, b), p, "ret")
               ELSE lt' = DirLinksIn(mem, lt, ps, b) /\ Goto(c, "ret") /\ UNCHANGED <<pub, fl>>
            /\ Touch(c, ps, {Fact(p, m[p])})
            /\ moving' = TouchMoves(c, ps)
            /\ UNCHANGED err
  /\ UNCHANGED <<cmd, ref, detached, node, bld, issued, crashes, pre, orig>>

\* files flush: mfs.FlushPath of the path, "/" by default.
FlushCmd(c) ==
  /\ pc[c] = "flStart"
  /\ FlushStep(c, cmd[c].path, "ret")
  /\ UNCHANGED <<mem, cmd, ref, detached, node, bld, issued, crashes, pre, intent, promised, moving, orig>>

-----------------------------------------------------------------------------
(***************************************************************************)
(* files chmod, files touch, files chcid: metadata of one node.  Each is *)
(* one mfs call that changes the entry at the path in place: its parent *)
(* becomes dirty, nothing is published, and only chcid flushes.          *)
(***************************************************************************)
\* A change of the entry at p alone: claims about p itself end, those
\* about the nodes below it stand; moves through p end.
SetMeta(c, p, x) ==
  /\ mem' = [mem EXCEPT ![p].meta = x]
  /\ promised' = {f \in promised : f.path # p}
  /\ intent' = [d \in Clients |->
                  IF d = c THEN intent[d] \cup {Fact(p, [mem[p] EXCEPT !.meta = x])}
                  ELSE {f \in intent[d] : f.path # p}]
  /\ moving' = TouchMoves(c, {p})
  /\ UNCHANGED lt

\* filesChmodCmd: the mode is parsed, then mfs.Chmod looks the path up
\* and sets the mode.
ChmodCmd(c) ==
  LET p == cmd[c].path IN
  /\ pc[c] = "chmodStart"
  /\ CASE ModeErr(cmd[c].mode) ->
            Fail(c, "parse") /\ UNCHANGED <<mem, lt, promised, intent, moving>>
       [] LookupErr(p) # "ok" ->
            Fail(c, LookupErr(p)) /\ UNCHANGED <<mem, lt, promised, intent, moving>>
       [] OTHER ->
            /\ SetMeta(c, p, [mem[p].meta EXCEPT !.mode = OctalValue(cmd[c].mode)])
            /\ Goto(c, "ret")
            /\ UNCHANGED err
  /\ UNCHANGED <<pub, cmd, ref, detached, fl, node, bld, issued, crashes, pre, orig>>

\* filesTouchCmd: --mtime, or the current time when it is 0 or unset,
\* then mfs.Touch.
TouchCmd(c) ==
  LET p == cmd[c].path IN
  /\ pc[c] = "touchStart"
  /\ IF LookupErr(p) # "ok"
     THEN Fail(c, LookupErr(p)) /\ UNCHANGED <<mem, lt, promised, intent, moving>>
     ELSE /\ \E t \in (IF cmd[c].mtime # 0 THEN {cmd[c].mtime} ELSE Mtimes \ {0}) :
               SetMeta(c, p, [mem[p].meta EXCEPT !.mtime = t])
          /\ Goto(c, "ret")
          /\ UNCHANGED err
  /\ UNCHANGED <<pub, cmd, ref, detached, fl, node, bld, issued, crashes, pre, orig>>

\* filesChcidCmd and updatePath: without a builder nothing is looked up;
\* otherwise mfs.Lookup and SetCidBuilder, for a directory only.  The
\* path ("/" by default) does not go through checkPath.
ChcidUpdate(c) ==
  LET p == cmd[c].path
      b == Prefix(cmd[c].prefix)
      next == IF cmd[c].flush THEN "chcidFlush" ELSE "ret"
  IN
  /\ pc[c] = "chcidStart"
  /\ CASE PrefixErr(cmd[c].prefix) # "none" ->
            Fail(c, PrefixErr(cmd[c].prefix)) /\ UNCHANGED <<mem, lt, promised, intent, moving>>
       [] b = NoBuilder ->
            Goto(c, next) /\ UNCHANGED <<mem, lt, err, promised, intent, moving>>
       [] LookupErr(p) # "ok" ->
            Fail(c, LookupErr(p)) /\ UNCHANGED <<mem, lt, promised, intent, moving>>
       [] mem[p].type # "dir" ->
            Fail(c, "onlydirs") /\ UNCHANGED <<mem, lt, promised, intent, moving>>
       [] OTHER ->
            /\ SetMeta(c, p, [mem[p].meta EXCEPT !.cid = b])
            /\ Goto(c, next)
            /\ UNCHANGED err
  /\ UNCHANGED <<pub, cmd, ref, detached, fl, node, bld, issued, crashes, pre, orig>>

\* With --flush: mfs.FlushPath of the path, then of gopath.Dir(path).
ChcidFlush(c) ==
  /\ pc[c] = "chcidFlush"
  /\ FlushStep(c, cmd[c].path, "chcidFlushParent")
  /\ UNCHANGED <<mem, cmd, ref, detached, node, bld, issued, crashes, pre, intent, promised, moving, orig>>

ChcidFlushParent(c) ==
  LET p == cmd[c].path IN
  /\ pc[c] = "chcidFlushParent"
  /\ FlushStep(c, IF p = Root THEN Root ELSE Front(p), "ret")
  /\ UNCHANGED <<mem, cmd, ref, detached, node, bld, issued, crashes, pre, intent, promised, moving, orig>>

-----------------------------------------------------------------------------
(***************************************************************************)
(* Clients issue commands, handlers return, the daemon crashes.           *)
(***************************************************************************)
StartPc == [write |-> "wStart", rm |-> "rmStart", mv |-> "mvStart",
            cp |-> "cpStart", mkdir |-> "mkStart", flush |-> "flStart",
            chmod |-> "chmodStart", touch |-> "touchStart", chcid |-> "chcidStart"]

Issue(c) ==
  /\ Idle(c)
  /\ issued < MaxCmds
  /\ \E k \in Commands :
       /\ cmd' = [cmd EXCEPT ![c] = k]
       /\ Goto(c, StartPc[k.op])
  /\ issued' = issued + 1
  /\ pre' = mem
  /\ UNCHANGED <<mfsVars, err, ref, detached, fl, node, bld, crashes, intent, promised, moving, orig>>

\* Commands whose success means their result was flushed to the root:
\* rm always flushes the parent, write, mv, cp, mkdir and chcid when --flush
\* is set; chmod and touch never flush.
Durable(c) ==
  cmd[c].op = "rm" \/ (cmd[c].op \in {"write", "mv", "cp", "mkdir", "chcid"} /\ cmd[c].flush)

\* The handler's error (or nil) reaches the client.
Return(c) ==
  /\ pc[c] = "ret"
  /\ promised' = IF err[c] = "none" /\ Durable(c) THEN promised \cup intent[c] ELSE promised
  /\ Goto(c, "idle")
  /\ cmd' = [cmd EXCEPT ![c] = NoCmd]
  /\ err' = [err EXCEPT ![c] = "none"]
  /\ ref' = [ref EXCEPT ![c] = NoRef]
  /\ detached' = [detached EXCEPT ![c] = FALSE]
  /\ fl' = [fl EXCEPT ![c] = NoWalk]
  /\ node' = [node EXCEPT ![c] = EmptyDir]
  /\ bld' = [bld EXCEPT ![c] = NoBuilder]
  /\ intent' = [intent EXCEPT ![c] = {}]
  /\ moving' = [moving EXCEPT ![c] = NoMove]
  /\ orig' = [orig EXCEPT ![c] = NoEntry]
  /\ UNCHANGED <<mfsVars, issued, crashes, pre>>

\* The daemon stops: every handler ends, the tree is reloaded from the
\* published root.
Crash ==
  /\ crashes < MaxCrashes
  /\ crashes' = crashes + 1
  /\ Reload
  /\ pc' = [c \in Clients |-> "idle"]
  /\ cmd' = [c \in Clients |-> NoCmd]
  /\ err' = [c \in Clients |-> "none"]
  /\ ref' = [c \in Clients |-> NoRef]
  /\ detached' = [c \in Clients |-> FALSE]
  /\ fl' = [c \in Clients |-> NoWalk]
  /\ node' = [c \in Clients |-> EmptyDir]
  /\ bld' = [c \in Clients |-> NoBuilder]
  /\ intent' = [c \in Clients |-> {}]
  /\ moving' = [c \in Clients |-> NoMove]
  /\ orig' = [c \in Clients |-> NoEntry]
  /\ UNCHANGED <<issued, promised, pre>>

\* All commands issued and answered.
Terminating ==
  /\ issued = MaxCmds
  /\ \A c \in Clients : Idle(c)
  /\ UNCHANGED vars

Init ==
  /\ MfsInit(InitRoot)
  /\ pc = [c \in Clients |-> "idle"]
  /\ cmd = [c \in Clients |-> NoCmd]
  /\ err = [c \in Clients |-> "none"]
  /\ ref = [c \in Clients |-> NoRef]
  /\ detached = [c \in Clients |-> FALSE]
  /\ fl = [c \in Clients |-> NoWalk]
  /\ node = [c \in Clients |-> EmptyDir]
  /\ bld = [c \in Clients |-> NoBuilder]
  /\ issued = 0
  /\ crashes = 0
  /\ intent = [c \in Clients |-> {}]
  /\ promised = {}
  /\ moving = [c \in Clients |-> NoMove]
  /\ orig = [c \in Clients |-> NoEntry]
  /\ pre = mem

Step(c) ==
  \/ WriteStart(c) \/ WriteLookup(c) \/ WriteAddChild(c) \/ WriteChild(c)
  \/ WriteData(c) \/ WriteClose(c) \/ WriteFlushParent(c)
  \/ RmStart(c) \/ RmChild(c) \/ RmUnlink(c) \/ RmFlush(c)
  \/ MvStart(c) \/ MvFlushDst(c) \/ MvFlushSrc(c) \/ MvFlushRoot(c)
  \/ CpStart(c) \/ CpParents(c) \/ CpChild(c) \/ CpUnlink(c) \/ CpPut(c)
  \/ CpFlushDst(c) \/ CpFlushParent(c)
  \/ Mkdir(c) \/ FlushCmd(c)
  \/ ChmodCmd(c) \/ TouchCmd(c) \/ ChcidUpdate(c) \/ ChcidFlush(c) \/ ChcidFlushParent(c)
  \/ FlushUp(c) \/ Return(c)

Next ==
  \/ \E c \in Clients : Issue(c) \/ Step(c)
  \/ Crash
  \/ Terminating

\* Each request runs on its own goroutine: a handler that can take its next
\* step eventually does.  Clients are not obliged to issue, nor the daemon to
\* crash.
Spec == Init /\ [][Next]_vars /\ \A c \in Clients : WF_vars(Step(c))

-----------------------------------------------------------------------------
(***************************************************************************)
(* Properties.                                                             *)
(***************************************************************************)
PCs == {"idle", "ret"} \cup {StartPc[o] : o \in DOMAIN StartPc} \cup
       {"flushUp", "wLookup", "wAddChild", "wChild", "wWrite", "wClose", "wFlushParent",
        "rmChild", "rmUnlink", "rmFlush", "mvFlushDst", "mvFlushSrc", "mvFlushRoot",
        "cpParents", "cpChild", "cpUnlink", "cpPut", "cpFlushDst", "cpFlushParent",
        "chcidFlush", "chcidFlushParent"}
Errs == {"none", "negoffset", "negcount", "notdir", "notexist", "notfile", "exists",
         "race", "root", "isdir", "cycle", "invalid", "prefix", "parse", "onlydirs"}

TypeOK ==
  /\ mem \in [Paths -> Entries]
  /\ pc \in [Clients -> PCs]
  /\ cmd \in [Clients -> Commands \cup {NoCmd}]
  /\ err \in [Clients -> Errs]
  /\ ref \in [Clients -> Paths \cup {NoRef}]
  /\ detached \in [Clients -> BOOLEAN]
  /\ bld \in [Clients -> Builders \cup {NoBuilder}]
  /\ \A c \in Clients : fl[c] = NoWalk \/ fl[c].at \in Paths
  /\ issued \in 0 .. MaxCmds
  /\ crashes \in 0 .. MaxCrashes
  /\ promised \subseteq [path : Paths, val : Entries]
  /\ orig \in [Clients -> Entries]

\* Once a command that flushes (rm, or write/mv/cp/mkdir/chcid with --flush)
\* has returned success, the published root shows what it put in place,
\* until a later command changes that path: a crash right after the answer
\* loses nothing.  This is what every Flush/FlushPath call in the handlers
\* is for, and what the link-table propagation of the flush must deliver.
FlushedCommandsDurable == \A f \in promised : PubAt(f.path) = f.val

\* While `files mv --flush` runs, the subtree it moves, which was durable
\* when it started, stays reachable from the published root at the source
\* or at the destination (spec.md 4.5: an atomic unlink-then-insert).
\* filesMvCmd flushes the destination's parent before the source's.
MoveNeverLosesEntry ==
  \A c \in Clients :
    moving[c] # NoMove =>
      SubHash(pub, moving[c].src) = moving[c].hash \/ SubHash(pub, moving[c].dst) = moving[c].hash

\* A `files write` rejected for a negative offset or count leaves the
\* file as it was (spec.md 6: read and write fail on negative arguments).
\* filesWriteCmd truncates before it checks --count, and the deferred
\* Close commits the descriptor.
RejectedWriteKeepsContent ==
  \A c \in Clients :
    pc[c] = "ret" /\ cmd[c].op = "write" /\ err[c] \in {"negoffset", "negcount"}
      => mem[cmd[c].path] = orig[c]

\* `files rm` without -r never removes a directory, and `files cp --force`
\* removes only a file (removePath's and unlinkNodeIfExists' type checks);
\* the check and pdir.Unlink are separate calls.
UnlinkTarget(c) == IF cmd[c].op = "cp" THEN cmd[c].dst ELSE cmd[c].path

UnlinkRemovesCheckedType ==
  [][\A c \in Clients :
       /\ pc[c] \in {"rmUnlink", "cpUnlink"}
       /\ pc'[c] \in {"rmFlush", "cpPut"}
       /\ ~(cmd[c].op = "rm" /\ (cmd[c].r \/ cmd[c].force))
       => ~(mem[UnlinkTarget(c)].type = "dir" /\ mem'[UnlinkTarget(c)] = NoEntry)]_vars


\* With one client each command is the atomic command of FilesSpec: from
\* issue to answer, the handler's MFS calls have, taken together, exactly
\* the effect spec.md 4-7 gives the command on the tree it was issued on,
\* whichever of them fail; a crash is a restart.  The client observes mem
\* while it is idle, and the tree at issue while its handler runs.
TheClient == CHOOSE c \in Clients : TRUE
Atomic == INSTANCE FilesSpec WITH tree <- IF Idle(TheClient) THEN mem ELSE pre,
                                  req <- cmd[TheClient], boots <- crashes
AtomicCommands == Atomic!Spec

=============================================================================

------------------------------ MODULE MC_Files ------------------------------
(***************************************************************************)
(* Instances of the `ipfs files` model for TLC.  Two names and depth two  *)
(* give the paths /, /a, /b, /a/a, /a/b, /b/a, /b/b: enough for a file   *)
(* beside a directory, a move between two directories and a directory   *)
(* that an rm without -r must refuse.                                     *)
(***************************************************************************)
EXTENDS FilesCmd

MCNames == {"a", "b"}
MCBytes == {"x", "y"}
\* 0644, and the times `files touch` may set or read from the clock.
MCModes == {0, 420}
MCMtimes == {0, 1, 2}
MCHashFuns == {"sha2-256", "blake2b-256"}

F(d) == FileEntry(d)
A == <<"a">>
B == <<"b">>
AA == <<"a", "a">>
AB == <<"a", "b">>
BA == <<"b", "a">>

\* The published root: /a holding the file /a/a = "x", and an empty /b.
MCInitRoot == HDir([n \in {"a", "b"} |->
                      IF n = "a" THEN HDir([m \in {"a"} |-> F(<<"x">>)]) ELSE EmptyDir])

\* An external object `files cp` may name by /ipfs/ path.
ExtFile == F(<<"y">>)

\* The bytes `files write` sends.
PayloadY == <<"y">>

\* --cid-version and --hash: neither, one or both given.
NoOpts == [verSet |-> FALSE, ver |-> 0, hashSet |-> FALSE, hash |-> ""]
CidVer(v) == [NoOpts EXCEPT !.verSet = TRUE, !.ver = v]
HashFn(h) == [NoOpts EXCEPT !.hashSet = TRUE, !.hash = h]

Write(p, off, create, parents, trunc, flush, count) ==
  [op |-> "write", path |-> p, offset |-> off, create |-> create, parents |-> parents,
   trunc |-> trunc, flush |-> flush, count |-> count, prefix |-> NoOpts]
WithPrefix(k, o) == [k EXCEPT !.prefix = o]
Rm(p, r, force) == [op |-> "rm", path |-> p, r |-> r, force |-> force]
Mv(s, t, flush) == [op |-> "mv", src |-> s, dst |-> t, flush |-> flush]
Cp(s, ext, t, parents, force, flush) ==
  [op |-> "cp", src |-> s, ext |-> ext, dst |-> t, parents |-> parents, force |-> force, flush |-> flush]
MkDir(p, parents, flush) ==
  [op |-> "mkdir", path |-> p, parents |-> parents, flush |-> flush, prefix |-> NoOpts]
FlushOf(p) == [op |-> "flush", path |-> p]
Chmod(ds, p) == [op |-> "chmod", mode |-> ds, path |-> p]
TouchOf(p, t) == [op |-> "touch", path |-> p, mtime |-> t]
Chcid(p, o, flush) == [op |-> "chcid", path |-> p, prefix |-> o, flush |-> flush]

\* One client, every handler and its main error paths, with a crash.
SeqCommands ==
  { Write(AA, 1, FALSE, FALSE, FALSE, TRUE, NoCount),
    Write(BA, 0, TRUE, TRUE, FALSE, FALSE, 1),
    Write(<<"b", "b">>, 0, TRUE, FALSE, TRUE, TRUE, NoCount),
    Rm(A, FALSE, FALSE),
    Rm(AA, FALSE, FALSE),
    Rm(A, TRUE, FALSE),
    Rm(BA, FALSE, TRUE),
    Mv(AA, BA, TRUE),
    Mv(A, AB, TRUE),
    Mv(B, <<"a", "a">>, FALSE),
    Cp(NoRef, ExtFile, AB, TRUE, FALSE, TRUE),
    Cp(AA, EmptyDir, BA, FALSE, TRUE, TRUE),
    Cp(NoRef, EmptyDir, B, FALSE, TRUE, FALSE),
    Cp(NoRef, Invalid, BA, FALSE, FALSE, TRUE),
    MkDir(AB, FALSE, TRUE),
    MkDir(BA, TRUE, FALSE),
    FlushOf(<<>>),
    WithPrefix(Write(BA, 0, TRUE, TRUE, FALSE, TRUE, NoCount), HashFn("blake2b-256")),
    WithPrefix(MkDir(AB, FALSE, TRUE), CidVer(2)),
    Chmod(<<6, 4, 4>>, AA),
    Chmod(<<9>>, A),
    TouchOf(AA, 0),
    TouchOf(BA, 2),
    Chcid(B, CidVer(1), TRUE),
    Chcid(AA, HashFn("blake2b-256"), TRUE),
    Chcid(<<>>, NoOpts, TRUE),
    Chcid(A, HashFn("md4x"), FALSE) }

\* The rejected write of spec.md 6: --truncate with a negative --count.
TruncCommands == { Write(AA, 0, FALSE, FALSE, TRUE, TRUE, -1) }
\* Two clients: writes, removals, a move and a forced copy on the same
\* few paths, so that one handler's steps fall between another's.
RaceCommands ==
  { Write(AA, 1, FALSE, FALSE, FALSE, TRUE, NoCount),
    Write(AB, 0, TRUE, FALSE, FALSE, TRUE, NoCount),
    Rm(A, TRUE, FALSE),
    Rm(AA, FALSE, FALSE),
    Mv(AA, BA, TRUE),
    Cp(NoRef, ExtFile, AA, FALSE, TRUE, TRUE),
    MkDir(AB, FALSE, FALSE),
    FlushOf(<<>>),
    Chcid(A, CidVer(1), TRUE) }
\* rm without -r, and cp --force, of /a/a racing an rm and a mkdir of the
\* same name.
ToctouCommands == { Rm(AA, FALSE, FALSE), Cp(NoRef, ExtFile, AA, FALSE, TRUE, FALSE),
                    MkDir(AA, FALSE, TRUE) }

\* mv of /a/a to /b/a racing a flush of /a.
MoveFlushCommands == { Mv(AA, BA, TRUE), FlushOf(A) }
=============================================================================

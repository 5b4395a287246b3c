# TLA+ models of BockIPFS

This directory holds TLA+ models of the BockIPFS repository and the TLC
configurations that check them.

## The system

BockIPFS has two layers.

1. **`ipfs files` (kubo's `core/commands/files.go`, `src/unnamed/part_005`).**
   These are the command handlers of the Mutable File System (MFS). MFS is a
   mutable tree of directories and files over the immutable, content-addressed
   IPFS DAG.
   - Many API clients call the handlers concurrently, against the one tree of
     the daemon.
   - Each handler is a sequence of calls into the MFS library (boxo/mfs), for
     example Lookup, AddChild, Unlink, Mv, Mkdir, FlushPath and a file
     descriptor's Open, Write and Close.
   - Each such call locks the node it touches, so each call is atomic on its
     own. Nothing holds a lock across two calls of one handler.
   - Changes are made in memory. A flush re-encodes the changed nodes and
     propagates the new hashes up through the parents' link tables to the
     root. The published root hash is the only state that survives a crash
     (spec.md 5, 6).
2. **The "Decentralised Drive" web app (TypeScript).** It has three parts:
   - a JSON virtual file system (`virtualFs.ts` in `part_001`, with
     `loadVirtualFs.ts` and `saveVirtualFs.ts` in `part_002`) stored in
     `data/virtualFs.json`;
   - Next.js API routes: `add-folder/route.ts`, and the add-file route at the
     end of `part_005`;
   - React pages that fetch the tree and render it.

   The add-file route sends the uploaded file to the daemon's `/api/v0/add` and
   records the returned CID in the JSON tree. A seeding script (`part_000`)
   adds folders and files to the same tree.

The MFS library itself is not in the repository. Where a handler's behaviour
depends on it, the library is modelled from spec.md sections 3-5. Those
definitions are marked `spec_modelled` in `PROJECT.json`.

## Inventory

| Part | State | Operations | Status |
|---|---|---|---|
| MFS tree and flush (boxo/mfs, spec.md 3-5) | in-memory tree, parents' link tables, published root | Lookup, AddChild, Unlink, Mkdir, Mv, FlushPath, descriptor write, crash/reload | `MfsTree` (partly: no lazy loading, no block store) |
| `files write/rm/mv/cp/mkdir/flush` (part_005) | per-request handler progress, open descriptor, resolved node | every MFS call of each handler | `FilesCmd` (argument parsing in `FilesArgs`) |
| `files chcid/chmod/touch` | CID builder, mode, mtime of an entry | getPrefix, ParseInt, one MFS call each, chcid's two flushes | `FilesCmd` |
| `files stat` with `walkBlock` | none (read only) | size and local-size walk | `FilesStat` (`read` and `ls` only format what they read: not modelled) |
| `checkPath`, `removePath`'s target | none | path normalisation, root test, split | `MfsPath` |
| JSON VFS utilities, persistence, seeding script | `virtualFs.json` | addFolder, addFile, findNode, load, save | `VirtualFs` |
| API routes add-folder, add-file | none beyond the VFS file | POST handlers | `VirtualFs` |
| Drive page | React state `vfs`, `loading`, `error`, `initialLoading` | fetchVfs, handleAddFolder, handleAddFile, dismiss/clear error | `VirtualFs` |
| What the `files` commands promise (spec.md 4-7) | the tree one client observes | one atomic step per command, restart | `FilesSpec` (abstract; `FilesCmd` with one client refines it) |
| What the drive's upload path promises | one tree, atomic appends | upload, acknowledge | `VfsStore` (abstract; `VirtualFs` refines it) |
| `types/filesystem.ts` (`part_003`) | none | type declarations, an unused example root | not modelled: no code uses it |
| VirtualFsTree, the frontend's `/fs` page, layout, UploadButton, setup notes | view state only | rendering, one file read | not modelled: no state worth checking (see "Behaviours found without a run") |

## Modules

### `MfsTree.tla`: the MFS library (spec-modelled)

A hash is modelled by the content it addresses, since hashing is injective
(spec.md invariant 1):
- a file's hash is its entry, `[type |-> "file", data |-> bytes, meta |-> m]`;
- a directory's hash is `[type |-> "dir", links |-> name -> hash, meta |-> m]`.

`m` is the node's metadata: the UnixFS mode and mtime (0 when unset) and the
CID builder, a CID version with a multihash function (`DefaultBuilder` is
CIDv0 with sha2-256). Changing any of them changes the hash. A new node takes
the builder the command names, or inherits its directory's (`NewMeta`,
`BuilderAt`; spec.md 3: a directory's builder is "inherited by new children
unless overridden").

The state has three variables.

- `mem`: path -> entry. This is the in-memory tree.
- `lt`: for each non-root path, the hash its parent's link table records. While
  the child has unflushed changes, this hash is stale.
- `pub`: the published root hash.

FlushPath (spec.md 4.4 and 5) takes one node lock at a time, so the module
gives its pieces and `FilesCmd` runs them as separate steps:
- `SyncIn(m, l, t)`: GetNode on `t` re-encodes its whole subtree and updates
  every link table below `t`;
- `EncodeDir(m, l, d)`: a parent is re-encoded from its link table, where
  siblings off the path keep their recorded (possibly stale) hash.

`Unlink`, `AddChild`, `MakeDirs` and `Move` change `mem` and the link tables
only, never `pub`. `Reload` is the restart after a crash: `mem` and `lt` are
rebuilt from `pub`.

### `FilesCmd.tla`: the command handlers (part_005)

Each client runs one command at a time.
- `pc[c]` names the next MFS call of the client's handler.
- One action is one MFS call, together with the handler code around it: guards
  from its `if err != nil` returns, and error values as `err[c]`.

| Action | Handler and source lines |
|---|---|
| `WriteStart` | filesWriteCmd: offset check, `ensureContainingDirectoryExists` (994-1004) |
| `WriteLookup`, `WriteAddChild`, `WriteChild` | `getFileHandle` (1418-1463) |
| `WriteData` | `fi.Open`, Truncate, the `--count` check, Seek, `io.Copy` (1040-1068) |
| `WriteClose`, `WriteFlushParent` | the deferred Close (with Sync it flushes) and FlushPath of the parent (1019-1038) |
| `RmStart`, `RmChild`, `RmUnlink`, `RmFlush` | `removePath` (1294-1345) |
| `MvStart` | `mfs.Mv` (856) |
| `MvFlushDst`, `MvFlushSrc`, `MvFlushRoot` | the three FlushPath calls (860-877) |
| `CpStart` | source resolution and UnixFS validation (462-499) |
| `CpParents` | `-p` (501-507) |
| `CpChild`, `CpUnlink` | `unlinkNodeIfExists` (556-583) |
| `CpPut` | `mfs.PutNode` (516) |
| `CpFlushDst`, `CpFlushParent` | 521-531 |
| `Mkdir` | `mfs.Mkdir` (1118), one call |
| `FlushCmd` | `mfs.FlushPath` (1159) |
| `ChmodCmd` | filesChmodCmd: `ParseInt(mode, 8, 32)` of octal digits, then `mfs.Chmod` (1518-1535) |
| `TouchCmd` | filesTouchCmd: `--mtime`, or the clock when it is 0, then `mfs.Touch` (1557-1579) |
| `ChcidUpdate` | filesChcidCmd and `updatePath`: `getPrefix`, no builder is a no-op, otherwise Lookup and SetCidBuilder on a directory (1183-1236) |
| `ChcidFlush`, `ChcidFlushParent` | with `--flush`: FlushPath of the path, then of `gopath.Dir(path)` (1204-1213) |
| `FlushUp` | one level of a flush: the child's hash goes into the parent's link table and the parent is re-encoded; at the root the hash is published (boxo `updateChildEntry`, spec-modelled) |
| `Issue`, `Return`, `Crash` | clients send commands and get answers; the daemon stops and restarts from the published root |

`Prefix` and `PrefixErr` (in `FilesArgs`) model `getPrefix`/`getPrefixNew` (1347-1403): no
option gives `NoBuilder`, a hash function forces CIDv1 unless another version
was named, versions other than 0 and 1 and unknown hash names are errors. The
write handler reads the parent's builder in `WriteLookup` (1442) into `bld[c]`
and creates the file with it in `WriteAddChild` (1451), two calls apart, as
the code does. chmod, touch and chcid change the entry in place (`SetMeta`):
the parent becomes dirty and nothing is published; only chcid flushes.

A handler keeps the MFS object it resolved, in `ref[c]`. When another command
unlinks or moves that node away, `detached[c]` is set. Later calls on the
object then act on a node outside the tree, and they do not change `mem` or
`pub` (spec.md 3, "destroyed (detached) on unlink/move-away").

Every flush (`FlushStep`, `StartFlush`) starts with GetNode of its path and
leaves the rest to `FlushUp`, one level per step, in `fl[c]`: the path
reached, the hash to install above it and the handler step to resume. Other
clients' calls run between the levels, as the per-node locks allow. A walk
whose node was unlinked in between stops there, as it would on a detached
parent.

A write descriptor is not exclusive (spec.md 4.3) and writes through to the
file node, so `WriteData` changes `mem` at once; Close with `--flush` then
starts the walk from the file.

History variables for the properties:
- `intent[c]`: the entries the handler has put in place.
- `promised`: the entries of commands that have returned success with a flush.
- `moving[c]`: the clean subtree that a flushed `mv` is moving.
- `orig[c]`: the write target as it was when the write started.
- `pre`: the tree when the running command was issued (for the refinement
  mapping to `FilesSpec`).

Every structural change at a path removes the claims about that path and the
paths below it (`Touch`). A later command that legitimately changes a path
therefore does not count as a loss.

### `FilesArgs.tla`: the handlers' argument parsing (part_005)

Pure operators that both `FilesCmd` and `FilesSpec` use:
- `Prefix`, `PrefixErr` and `PrefixVersion`: `getPrefix`/`getPrefixNew`.
- `OctalValue` and `ModeErr`: `ParseInt(mode, 8, 32)`.
- `Limit`: `io.LimitReader`.
- `ParentsErrIn`: `ensureContainingDirectoryExists`.
- `NoRef` and `Invalid`: cp's `/ipfs/` source and its UnixFS check.

### `FilesSpec.tla`: what the commands promise, and the refinement

The abstract specification states each command as one atomic step on the
tree, following spec.md 4-7.
- **State:** `tree` (path to entry), the command issued and not yet answered
  (`req`), and the number of restarts (`boots`).
- **Outcomes:** `Results(t, k)` is the set of trees command `k` may leave
  when issued on `t`. There is one operator per subcommand: `WriteResults`,
  `RmRemoves`, `MvMoves`, `CpResults`, `MkdirMakes`, `ChcidSets`, and
  chmod/touch through `WithMeta`.
  - A failing command leaves `t` unchanged, except for the directories
    `--parents` created before the failure (spec.md 4.5: makeParents is not
    undone).
  - A negative `--count` changes nothing, as spec.md 6 says.
  - touch without `--mtime` may set any clock value.
- **Steps:** `Issue`, `Answer` (the whole effect) and `Restart` (any
  well-formed tree). Which tree a restart must keep is what
  `FlushedCommandsDurable` checks, not this specification.

`FilesCmd` defines `Atomic == INSTANCE FilesSpec WITH` the following
refinement mapping, for its one client:
- `tree` is `mem` while the client is idle, and `pre` (the tree at issue)
  while its handler runs;
- `req` is `cmd`;
- `boots` is `crashes`.

`AtomicCommands == Atomic!Spec` is checked in `files_seq`. Every step of a
handler is then a stutter, and `Return` is the abstract `Answer`. The check
therefore shows that each handler's chain of MFS calls, with every early
return, has exactly the effect of its command. This includes the builder a
new file inherits from a parent read two calls earlier. With two clients the
handlers' calls interleave and the commands are not atomic (the violation
runs show how), so the refinement is stated for one client only.

### `MC_Files.tla`: instances for TLC

- **Names and paths:** two names and `MaxDepth = 3` give 15 paths. Commands
  address depths 1-2. Depth 3 is room for the moves and copies of a
  one-level directory. The bound is a guard (`Fits`), and deadlock checking
  would report a behaviour cut by it, so the passing runs also show that the
  bound is never reached.
- **Initial tree:** the published root holds `/a/a = "x"` and an empty `/b`.
- **Writes:** they send `"y"`. Bytes are `x` and `y`, and `Zero` fills gaps.
  `MaxLen = 3` bounds file content.
- **Command sets:** the sets of command invocations are definitions in the MC
  module. Every handler appears with its main error paths: exists, notexist,
  notdir, isdir, cycle, invalid UnixFS, root, an unparsable mode, a bad
  `--cid-version`, an unknown hash and chcid of a file.
- **Metadata:** modes 0 and 0644; times 0, 1 and 2 (1 and 2 are what the clock
  may read); hash functions sha2-256 and blake2b-256, plus an unknown name in
  one command.

### `VirtualFs.tla`: the drive's JSON file system and its users

The tree follows `VfsNode` in `virtualFs.ts`: a node is a record, and a folder's
children are a sequence. The code pushes onto an array and never checks names,
so duplicates are possible. A path is its list of non-empty components, which
is what `split('/').filter(Boolean)` yields. `findNode`, `addFolder` and
`addFile` are RECURSIVE operators that follow the code's loops:
- each step takes the *first* child of the name (`Array.find`);
- `addFolder` looks only for folders, so a file of the same name does not stop
  it;
- `addFile` does nothing when its folder is missing or is a file.

`disk` is `data/virtualFs.json`. It is missing, a saved tree, or torn.
`writeFileSync` truncates the file before it writes, and `JSON.parse` throws on
what is there in between. A save is therefore two steps: start and end.

| Action | Code |
|---|---|
| `HandleAddFolder`, `HandleAddFile` | the page's handlers up to their POST (page.tsx 42-63, 86-106); `CanClick` is the render's `initialLoading` gate and `disabled={loading}` |
| `PostReturns` | the handlers after the POST: `!res.ok`, catch, `await fetchVfs()`, finally (65-83, 108-132) |
| `FetchReturns` | `fetchVfs` resuming with its answer (15-35) |
| `AddFolderRoute` | add-folder `route.ts`: load, `addFolder`, success, with no save |
| `AddFileIpfs` | add-file steps 1-3 (part_005 1586-1637): the daemon's `/api/v0/add` may fail; it resumes only when no save holds the event loop |
| `AddFileVfs`, `AddFileSaved` | step 4 (1639-1673): load, `addFile`, `writeFileSync` start and end. A load that throws, an open that fails, or a write that fails part way (leaving the file torn) is caught and answered success with a warning |
| `FsRoute` | GET `/api/fs`. The page calls it, but its source is not in the repository; it is assumed to answer `loadVirtualFsFromDisk()` |
| `Crash` | the server process dies: a save in progress leaves the file torn, and every unanswered request fails |
| `ScriptLoad`, `ScriptSave`, `ScriptSaved` | the seeding script (part_000), a separate process |
| `DismissError` | `setError(null)` from the dismiss button or either input's `onChange` (157-209); the three are the same step |

The server's handlers interleave only at their awaits. Load, add and save come
after the last await and run without yielding, so `ServerFree` keeps every
other server step out while a save is in progress. The script is another
process and is not blocked.

History variables for the properties:
- `ver` counts completed saves, and `viewVer` is the save a tab shows;
- `recorded` holds the uploads answered without a warning;
- `faults` counts crashes and failed writes, up to `MaxFaults`;
- `ackFolders` holds the folders answered success.

`MC_Vfs.tla` defines the uploads as two files with different names, or one
file, and the folder inputs as blank and `d`.
- Two clicks per tab let a second request meet the first one's save.
- Two tabs are enough for two server requests to interleave.

### `VfsStore.tla`: the abstract store, and the refinement

`VfsStore` says what the upload path promises, with no requests, processes or
file: one tree; an upload appends its file to the root folder in one atomic
step (`Upload`); an upload is acknowledged only once its entry is in the tree
(`Ack`); nothing is removed. `VirtualFs` instantiates it with
`tree <- StoreTree`, the tree the server is writing while a save is in
progress, or else what `loadVirtualFsFromDisk` gives, and with
`acked <- recorded`. `StoreRefinement == Store!Spec` is checked as a
PROPERTY in `vfs_pages`. It holds because the route's load, `addFile` and
save run after its last await: `AddFileVfs` is one `Upload` of the tree that
was durable, and `AddFileSaved` is the `Ack`. With the seeding script or a
crash the refinement does not hold (the script's save replaces the tree, and
a torn file has no tree), which is what `vfs_torn_save` shows for the
concrete property.

### `MfsPath.tla`: `checkPath` and `removePath`'s target (part_005)

The properties are about how a path is spelled, so a path is a sequence of
characters over `/`, `.` and one name character (`MC_Path`), up to
`MaxPathLen = 6` characters. That is every spelling with doubled separators,
`.`, `..` and a trailing slash at up to two levels.
- `Clean` is Go's `path.Clean` on a rooted path: `SplitSlash` and `Names`
  split it into non-empty elements, and `Resolve` drops `.` and lets `..`
  remove the element before it (at the root it is dropped). These come from
  the Go standard library, not the repository, and are marked
  `spec_modelled`.
- `checkPath` (1470-1484) rejects empty and relative paths and keeps a
  trailing slash.
- `RemoveTarget` (1294-1304) is `removePath` up to its lookup: the test for
  `"/"`, the trim of one trailing slash, and `gopath.Split`.
- `Rm` is one argument of the rm handler's loop.

### `FilesStat.tla`: `files stat --with-local` (part_005)

A DAG is a function from block numbers to blocks, and a block links only to
higher numbers, so every DAG is acyclic. Two links may reach one block.
`MC_Stat` takes three blocks and at most two links per node. That gives 8192
pairs of a DAG and a set of locally present blocks, including shared
children, missing middle blocks and empty raw blocks.
- `CumSize` is `nd.Size()`: a raw block's length, or a dag-pb node's length
  plus its links' Tsize. A well-formed builder writes each link's Tsize as the
  child's cumulative size.
- `WalkBlock` is `walkBlock` (374-403): the block's own length, and for each
  link either a missing child (`local` becomes false and the child is skipped)
  or the child's own walk.
- `Stat` is the handler (200-247): `statNode`, then for `--with-local`
  `walkBlock`, with both results in the output.

## Runs

| Run | cfg | Expect | What it shows |
|---|---|---|---|
| `files_seq` | `MC_Files_seq.cfg` | pass | One client, 3 of 27 invocations, with up to 1 crash anywhere (about 62k states). The invocations include chmod, touch, chcid with and without a builder and `--flush`, and a write and a mkdir with `--cid-version`/`--hash`. Checks `TypeOK`, `FlushedCommandsDurable` (a crash after a flushed command returned keeps its result), `MoveNeverLosesEntry` and `AtomicCommands`: `FilesCmd` implements `FilesSpec`, with every flush walked one level at a time. |
| `flush_lost_update` | `MC_Files_race.cfg` | violation | Two clients, commands drawn from 9 invocations on `/a`, `/a/a`, `/a/b` and `/b/a`. `FlushedCommandsDurable` fails in 11 steps: client 1's `files flush /` re-encodes the root while `/a` is still there; client 2's `rm -r /a` unlinks it, flushes, publishes and returns success; client 1 then publishes its older root, and `/a` is back in the published tree. FlushPath publishes whatever root hash its walk computed, with no check that it is newer than the published one. |
| `write_truncate` | `MC_Files_truncate.cfg` | violation | `files write --truncate --count=-1` is answered "cannot have negative byte count" after Truncate(0) ran. The deferred Close and flush then publish the empty file. |
| `rm_toctou` | `MC_Files_toctou.cfg` | violation | Client 1 runs `rm /a/a` and passes the file check. Client 2 removes the file and creates the directory `/a/a`. Client 1's Unlink then removes that directory without `-r` (`UnlinkRemovesCheckedType`). `cp --force` (`unlinkNodeIfExists`, 556-583) has the same check-then-unlink window and is in the same command set. |
| `mv_flush_window` | `MC_Files_mvflush.cfg` | violation | After `mfs.Mv(/a/a, /b/a)`, another client's `files flush /a` publishes a root. In that root `/a` no longer holds the file and `/b` is still its old hash: the file is at neither path. A crash at that point loses a file that was durable before the mv. |
| `vfs_pages` | `MC_Vfs_pages.cfg` | pass | Two tabs, two clicks each, over folders and two uploads, no faults and no script (about 30k states). `StoreRefinement`: the server implements `VfsStore`, an atomic append-only store in which an upload is acknowledged only once it is in the tree; this implies that every recorded upload is kept. |
| `vfs_faults` | `MC_Vfs_faults.cfg` | pass | Two tabs, one click each, the seeding script, and one fault anywhere: a server crash or a failed `writeFileSync` (about 47k states). `ViewNeverRegresses`: a tab never shows an older tree than one it showed, even when the script rewrites the file, a save is torn or the server restarts. `PageSettles`: every click ends with loading cleared, on every error path. |
| `vfs_folder_not_saved` | `MC_Vfs_folder.cfg` | violation | add-folder answers success, and the folder is never in the file. |
| `vfs_torn_save` | `MC_Vfs_torn.cfg` | violation | A `writeFileSync` that fails part way (the route catches it and answers success with a warning), or a crash during it, leaves a truncated file; the 14-step trace is the failed write on the second upload. The recorded uploads are gone, and every later load throws. The setup notes (part_006) say an invalid file is replaced by a new root. |
| `path_clean` | `MC_Path_clean.cfg` | pass | For all 1093 arguments of up to six characters, `rm` looks up the directory and unlinks the name that `path.Clean` gives the argument (`TargetIsCleanPath`): the trailing slash that `checkPath` keeps and `removePath` trims never changes the target. |
| `rm_root_spelling` | `MC_Path_root.cfg` | violation | `//` is cleaned to `/`, and `checkPath` adds the trailing slash back, so the result is `//`. That passes `removePath`'s test for `"/"`, is trimmed to `/`, and is split into `/` and the empty name. rm then fails with "file does not exist", and with `--force` it succeeds without doing anything. spec.md 8 says removing `/` always fails with RootOperationError (`RootRemovalRejected`). |
| `stat_sizes` | `MC_Stat_sizes.cfg` | pass | Over every DAG and local set: SizeLocal is at most CumulativeSize and equal when Local (`LocalWithinCumulative`); Local is reported exactly when every block reachable is local, although the walk stops at the first missing block of a branch (`LocalFlagExact`). A block reached twice is counted twice by both sizes (spec.md 9), so the printed percentage stays within 100. |

Every property of the passing runs has a mutant in `PROJECT.json`: a plausible
bug in the mapped definition that TLC then catches.
- Reload without materialising nodes breaks `TypeOK`.
- A directory encoded without its own metadata (`HashIn` ignoring the
  builder) breaks `FlushedCommandsDurable`: a `chcid --flush` answered success
  is not in the published root.
- mv flushing the source's parent first breaks `MoveNeverLosesEntry`.
- A new file that takes the default CID builder instead of its directory's
  (`WriteLookup`) breaks `AtomicCommands`: after `chcid --cid-version=1 /b`,
  `files write -e /b/a` is not the file spec.md 3 describes.
- `setVfs` given the response object instead of its body breaks `TypeOK`.
- Inputs usable before the mount fetch ends break `ViewNeverRegresses`.
- An error path that skips `finally` (`PostReturns` without clearing
  `loading` after a failed request) breaks `PageSettles`.
- `addFile` replacing the folder's children breaks `StoreRefinement`: a save
  is then not an append.
- `removePath` without the trim of the trailing slash breaks
  `TargetIsCleanPath` (`/a/` would unlink the empty name in `/a/`).
- A `walkBlock` that adds a present child's own length instead of its walk
  breaks both `LocalWithinCumulative` and `LocalFlagExact`.

## Behaviours found without a run

These were found while modelling. The project spends its violation runs on
the disagreements that lose or destroy data, so these are described here
instead. The hazards in `PROJECT.json` point to them.
- **A write into a removed file succeeds.** `filesWriteCmd` keeps the
  `*mfs.File` that `getFileHandle` resolved (part_005 1006) and commits to it
  on Close (1020). If an rm unlinks the file in between, the write and its
  flushes act on a detached node, and the command still returns success. In
  `FilesCmd` this is `detached[c]`.
- **Re-uploading a name appends a duplicate.** `addFile` pushes a child
  without looking for its name (part_001 174), and `findNode` returns the
  first match. After a changed file is uploaded again under the same name,
  `getByPath` still gives the old CID.
- **The seeding script loses uploads.** The script and the server each load
  the whole file, change it and write it back, with no lock. A server save
  between the script's load and its save is overwritten. In the model, a
  check of `RecordedUploadsKept` with `RunScript = TRUE` in `MC_Vfs_torn.cfg`
  fails in 9 steps: the script loads the file, an upload is saved and
  answered, and the script saves its older tree over it.
- **`stat --with-local` of an empty raw block prints `NaN%`.** Both sizes
  are 0, and the encoder divides by CumulativeSize (part_005 280).
- **The `/fs` page fails on a fresh install.** `loadVirtualFsFromDisk` treats
  a missing `data/virtualFs.json` as an empty root (loadVirtualFs.ts 14-15).
  `FsPage` (src/frontend/app/fs/page.tsx 9) reads the file with no existence
  check, so it throws ENOENT until the first upload is saved. It also throws
  while another process's `writeFileSync` has truncated the file.
- **chmod and touch never flush.** Both return `mfs.Chmod`/`mfs.Touch`
  directly (part_005 1534, 1578), whatever `--flush` says. `--flush` defaults
  to true, and the help text (60-76) says it makes changes reach the MFS
  structure. A crash right after the success answer loses the new mode or
  time. In the model, `Durable` leaves both commands out, as the code does.
- **A create racing a chcid uses the old builder.** `getFileHandle` reads the
  parent's builder (1442) one call before it adds the file (1451). A chcid of
  the parent in between gives a file created after the chcid returned the old
  builder.
- **`touch --mtime=0` sets the current time.** 0 means unset (1572), so the
  epoch itself cannot be set.

## Fairness

`Spec` assumes weak fairness of each client's handler steps, `WF_vars(Step(c))`.
Each request is served by its own goroutine, and the Go scheduler runs every
runnable goroutine, and a node lock is held only for one call, so an
enabled MFS call (every handler step is enabled while its client is busy)
is eventually taken. No run checks a liveness property of `FilesCmd`:
with shared descriptors no handler step waits on another client, so every
handler ends by the shape of its steps.
Nothing is assumed about clients issuing commands or about crashes.

In `VirtualFs`, `Spec` assumes weak fairness of each tab's pending work,
`WF_vars(Serve(t))`: route steps, answers reaching the page, and
continuations. Node's event loop and the browser run every pending callback.
The script runs to its end once started. Clicks, starting the script and
faults are not assumed. This assumes that every request is answered or
fails: neither the page's `fetch` nor the route's call to the daemon
(part_005 1618) has a timeout, so a daemon that accepts the connection and
never answers keeps the tab loading for good, and no property here can show
it (a hazard in `PROJECT.json`).

## What is not modelled, and why

- **Block store fetches and their failures (StoreError).** Every DAG link is
  treated as resolvable, so lazy materialisation has no observable effect.
- **Raw leaves, chunking and `--mtime-nsecs`.** They shape the file's blocks
  or refine a time that no property reads.
- **A signed chmod mode.** `ParseInt` accepts `-1`, which `os.FileMode` turns
  into 0xFFFFFFFF. That value is beyond TLC's 32-bit integers, so modes are
  octal digit strings without a sign.
- **Which metadata survives a descriptor's Close.** The model keeps the
  entry's current mode and time and replaces the content (spec.md 4.3 leaves
  it open). The MFS library may instead commit the node as it was at Open.
- **`files mkdir -p` with a builder on an existing directory.** The model
  leaves the existing directory's builder unchanged.
- **rm with several paths.** One path is modelled per invocation. The loop only
  collects per-path errors.
- **Detached nodes.** What the MFS library does when a detached node is flushed
  is not specified (spec.md 3 only says it is detached). The model lets such
  calls leave the tree unchanged, and a flush walk that reaches an unlinked
  node stops there. boxo may instead write the detached node's hash back
  into its old parent's link table; that is left out.
- **Exclusive descriptors.** spec.md 4.3 has descriptors shared, with writes
  applied in place; an implementation with an exclusive write lock per file
  would make writers wait, and is not modelled.
- **Moving onto an existing destination.** spec.md 4.5 does not say what
  happens. The model takes AddChild without overwrite (AlreadyExists,
  spec.md 4.2).
- **Link Tsize from another builder.** `FilesStat` takes each link's Tsize to
  be the child's cumulative size. A DAG copied in by CID from elsewhere may
  carry other values, and then SizeLocal can exceed CumulativeSize.
- **`files read` and `files ls`.** They read and format, and change nothing.
- **Which file the routes use.** Each module computes `virtualFs.json`
  relative to its own `__dirname`. Under Next.js bundling this may differ from
  the script's file. The model takes one file.
- **A crash of the script during its save.** It would tear the file the same
  way a server crash does.
- **React StrictMode's double mount effect.** It would send two mount
  fetches.
- **The timestamp.** No property reads it.

## Plan

1. **Done:** `MfsTree`, `FilesCmd` and `MC_Files`.
2. **Done:** `VirtualFs` and `MC_Vfs`: the JSON tree, persistence, routes,
   seeding script and drive page.
3. **Done:** `MfsPath` (checkPath and removePath's target) and `FilesStat`
   (statNode and walkBlock).
4. **Done:** `VfsStore`, the abstract drive store, refined by `VirtualFs`.
5. **Done:** `FilesSpec`, the atomic `files` commands, refined by `FilesCmd`
   with one client.
6. **Done:** chcid, chmod and touch, as metadata on entries, with the
   builder given by `--cid-version`/`--hash` to write and mkdir.
7. **Done:** flush as a walk of one node lock per level (`FlushUp`), shared
   write descriptors, and write faults in the add-file route.
8. **`VirtualFs`:** a pure-operator run that checks `addFolder` and `addFile`
   against a reference over small trees; the script crashing mid-save; the
   StrictMode double mount.

------------------------------ MODULE VirtualFs ------------------------------
(***************************************************************************)
(* The Decentralised Drive's JSON virtual file system and its users.       *)
(*                                                                         *)
(* virtualFs.ts (part_001) keeps a tree of named nodes: a folder has an   *)
(* ordered array of children, a file records the CID the IPFS daemon gave *)
(* its content.  loadVirtualFs.ts and saveVirtualFs.ts (part_002) read    *)
(* and write the whole tree as data/virtualFs.json.  Three kinds of actor *)
(* use that file:                                                          *)
(*   - the Next.js server: the add-folder route, the add-file route (end  *)
(*     of part_005) and the GET /api/fs route the page reads;             *)
(*   - the seeding script (part_000), a separate node process;            *)
(*   - browser tabs showing the drive page (DecentralisedDrive/app/       *)
(*     page.tsx), each with its own React state.                          *)
(*                                                                         *)
(* A node is a record; a folder's children are a sequence, since the code *)
(* pushes onto an array and never checks names.  A path is the sequence  *)
(* of its non-empty components: path.split('/').filter(Boolean).          *)
(***************************************************************************)
EXTENDS Naturals, Sequences, SequencesExt, FiniteSets

CONSTANTS
  Tabs,          \* browser tabs showing the drive page
  Uploads,       \* files a user may pick: [name, cid], cid the IPFS hash of its content
  FolderInputs,  \* folder names a user may type, as path components (<<>> = blank)
  RunScript,     \* whether the seeding script is run against the same file
  MaxClicks,     \* add-folder/add-file clicks per tab
  MaxFaults      \* server faults: process crashes and failed writeFileSync calls

ASSUME RunScript \in BOOLEAN /\ MaxClicks \in Nat /\ MaxFaults \in Nat

(***************************************************************************)
(* virtualFs.ts                                                            *)
(***************************************************************************)
Folder(n, kids) == [name |-> n, type |-> "folder", children |-> kids]
FileNode(n, cid) == [name |-> n, type |-> "file", cid |-> cid]

createVirtualFs == Folder("/", <<>>)

\* findNode's null.
Null == [type |-> "null"]

\* The first child of folder cur that Test accepts: Array.find, 0 if none.
Find(cur, Test(_)) == SelectInSeq(cur.children, Test)

\* findNode: follow the first child of each name; null past a file or a
\* missing name.
RECURSIVE findNode(_, _)
findNode(parts, cur) ==
  CASE parts = <<>> -> cur
    [] cur.type = "folder" /\ Find(cur, LAMBDA ch : ch.name = Head(parts)) # 0 ->
         findNode(Tail(parts), cur.children[Find(cur, LAMBDA ch : ch.name = Head(parts))])
    [] OTHER -> Null

\* addFolder: descend into the first child folder of each name, pushing a
\* new empty folder where there is none.  A file of that name does not stop
\* it: the new folder is pushed beside it.
RECURSIVE addFolderIn(_, _)
addFolderIn(cur, parts) ==
  LET i == Find(cur, LAMBDA ch : ch.name = Head(parts) /\ ch.type = "folder")
  IN  CASE parts = <<>> \/ cur.type # "folder" -> cur
        [] i = 0 -> [cur EXCEPT !.children =
                        Append(@, addFolderIn(Folder(Head(parts), <<>>), Tail(parts)))]
        [] OTHER -> [cur EXCEPT !.children[i] = addFolderIn(@, Tail(parts))]

addFolder(root, parts) == addFolderIn(root, parts)

\* Pushes node f into the folder findNode reaches along parts; leaves the
\* tree unchanged when that is null or a file.
RECURSIVE pushAt(_, _, _)
pushAt(cur, parts, f) ==
  LET i == Find(cur, LAMBDA ch : ch.name = Head(parts))
  IN  CASE cur.type # "folder" -> cur
        [] parts = <<>> -> [cur EXCEPT !.children = Append(@, f)]
        [] i = 0 -> cur
        [] OTHER -> [cur EXCEPT !.children[i] = pushAt(@, Tail(parts), f)]

\* Mutant: the new file replaces the folder's children.
addFileReplacing(root, parts, cid) ==
  IF parts = <<>> THEN root
  ELSE [root EXCEPT !.children = <<FileNode(Last(parts), cid)>>]

\* addFile: the last component is the file name; nothing happens for "/".
\* The timestamp is left out: no property reads it.
addFile(root, parts, cid) ==
  IF parts = <<>> THEN root
  ELSE pushAt(root, Front(parts), FileNode(Last(parts), cid))

getByPath(root, parts) == findNode(parts, root)

(***************************************************************************)
(* data/virtualFs.json.  writeFileSync opens the file with O_TRUNC and    *)
(* then writes: until the write ends the file is empty or a prefix of the *)
(* JSON text, on which JSON.parse throws.  A complete file parses back to *)
(* the tree that was stringified.                                         *)
(***************************************************************************)
Missing == [state |-> "missing"]
Torn == [state |-> "torn"]
Saved(t) == [state |-> "ok", tree |-> t]

\* loadVirtualFsFromDisk: a fresh root if the file does not exist; throws
\* on a file that does not parse.
LoadThrows(d) == d.state = "torn"
Load(d) == IF d.state = "missing" THEN createVirtualFs ELSE d.tree

(***************************************************************************)
(* State.                                                                  *)
(*   disk      : data/virtualFs.json                                       *)
(*   srvSave   : the tree the server's writeFileSync is writing (Null when *)
(*               none); the server's event loop is blocked until it ends   *)
(*   post      : each tab's add-folder/add-file request and its progress   *)
(*               through the route                                         *)
(*   fetches   : GET /api/fs requests of fetchVfs, sent or answered        *)
(*   pc        : a tab's handler: idle, awaiting its POST, or awaiting the *)
(*               fetchVfs that follows it (loading is pc # "idle")         *)
(*   initialLoading, vfs, error : the page's React state                   *)
(*   scriptPc, scriptVfs : the seeding script process and its tree         *)
(* History variables for the properties: ver counts completed saves (a   *)
(* fetch answer carries the ver it read, viewVer the one a tab shows);    *)
(* recorded holds the uploads the add-file route answered without a      *)
(* warning, and ackFolders the folders the add-folder route answered     *)
(* success for.                                                            *)
(***************************************************************************)
VARIABLES disk, srvSave, post, fetches, pc, initialLoading, vfs, error,
          clicks, scriptPc, scriptVfs, faults, ver, viewVer, recorded,
          ackFolders

vars == <<disk, srvSave, post, fetches, pc, initialLoading, vfs, error,
          clicks, scriptPc, scriptVfs, faults, ver, viewVer, recorded,
          ackFolders>>

NoPost == [kind |-> "none", arg |-> "none", stage |-> "none", status |-> "none"]

ServerFree == srvSave = Null
Writing == srvSave # Null \/ scriptPc = "saving"

\* A request of fetchVfs, not yet answered.
Request(t, awaited) ==
  [tab |-> t, awaited |-> awaited, stage |-> "sent", ok |-> FALSE, tree |-> Null, ver |-> 0]

Answer(p, st) == [p EXCEPT !.stage = "answered", !.status = st]

Init ==
  /\ disk = Missing
  /\ srvSave = Null
  /\ post = [t \in Tabs |-> NoPost]
  /\ fetches = {Request(t, FALSE) : t \in Tabs}   \* useEffect(() => fetchVfs(), [])
  /\ pc = [t \in Tabs |-> "idle"]
  /\ initialLoading = [t \in Tabs |-> TRUE]
  /\ vfs = [t \in Tabs |-> Null]
  /\ error = [t \in Tabs |-> FALSE]
  /\ clicks = [t \in Tabs |-> 0]
  /\ scriptPc = IF RunScript THEN "ready" ELSE "done"
  /\ scriptVfs = Null
  /\ faults = 0
  /\ ver = 0
  /\ viewVer = [t \in Tabs |-> 0]
  /\ recorded = {}
  /\ ackFolders = {}

(***************************************************************************)
(* The drive page (page.tsx).  The inputs are rendered only once          *)
(* initialLoading is false, and are disabled while loading.               *)
(***************************************************************************)
\* Mutant: the inputs are usable while the first fetchVfs is pending.
CanClickDuringInitialLoad(t) ==
  /\ pc[t] = "idle" /\ clicks[t] < MaxClicks
  /\ clicks' = [clicks EXCEPT ![t] = @ + 1]

CanClick(t) ==
  /\ ~initialLoading[t] /\ pc[t] = "idle" /\ clicks[t] < MaxClicks
  /\ clicks' = [clicks EXCEPT ![t] = @ + 1]

\* handleAddFolder: a blank name is refused; otherwise POST /api/fs/add-folder.
HandleAddFolder(t, in) ==
  /\ CanClick(t)
  /\ IF in = <<>>
     THEN /\ error' = [error EXCEPT ![t] = TRUE]
          /\ UNCHANGED <<pc, post>>
     ELSE /\ error' = [error EXCEPT ![t] = FALSE]
          /\ pc' = [pc EXCEPT ![t] = "post"]
          /\ post' = [post EXCEPT ![t] =
                        [kind |-> "folder", arg |-> in, stage |-> "sent", status |-> "none"]]
  /\ UNCHANGED <<disk, srvSave, fetches, initialLoading, vfs, scriptPc, scriptVfs,
                 faults, ver, viewVer, recorded, ackFolders>>

\* handleAddFile: POST the selected file to /api/fs/add-file.
HandleAddFile(t, u) ==
  /\ CanClick(t)
  /\ error' = [error EXCEPT ![t] = FALSE]
  /\ pc' = [pc EXCEPT ![t] = "post"]
  /\ post' = [post EXCEPT ![t] = [kind |-> "file", arg |-> u, stage |-> "sent", status |-> "none"]]
  /\ UNCHANGED <<disk, srvSave, fetches, initialLoading, vfs, scriptPc, scriptVfs,
                 faults, ver, viewVer, recorded, ackFolders>>

\* Mutant: the error path does not clear loading (no finally).
PostReturnsNoFinally(t) ==
  /\ post[t].stage = "answered"
  /\ post' = [post EXCEPT ![t] = NoPost]
  /\ IF post[t].status = "fail"
     THEN /\ error' = [error EXCEPT ![t] = TRUE]
          /\ UNCHANGED <<pc, fetches>>
     ELSE /\ pc' = [pc EXCEPT ![t] = "refetch"]
          /\ fetches' = fetches \cup {Request(t, TRUE)}
          /\ UNCHANGED error
  /\ UNCHANGED <<disk, srvSave, initialLoading, vfs, clicks, scriptPc, scriptVfs,
                 faults, ver, viewVer, recorded, ackFolders>>

\* The POST's response reaches the handler: on !res.ok (or a network error)
\* it sets the error and the finally clears loading; on success it awaits
\* fetchVfs.
PostReturns(t) ==
  /\ post[t].stage = "answered"
  /\ post' = [post EXCEPT ![t] = NoPost]
  /\ IF post[t].status = "fail"
     THEN /\ error' = [error EXCEPT ![t] = TRUE]
          /\ pc' = [pc EXCEPT ![t] = "idle"]
          /\ UNCHANGED fetches
     ELSE /\ pc' = [pc EXCEPT ![t] = "refetch"]
          /\ fetches' = fetches \cup {Request(t, TRUE)}
          /\ UNCHANGED error
  /\ UNCHANGED <<disk, srvSave, initialLoading, vfs, clicks, scriptPc, scriptVfs,
                 faults, ver, viewVer, recorded, ackFolders>>

\* Mutant: setVfs is given the response object, not its parsed body.
FetchReturnsSetsResponse(f) ==
  /\ f.stage = "answered"
  /\ fetches' = fetches \ {f}
  /\ IF f.ok
     THEN /\ vfs' = [vfs EXCEPT ![f.tab] = f]
          /\ viewVer' = [viewVer EXCEPT ![f.tab] = f.ver]
          /\ error' = [error EXCEPT ![f.tab] = FALSE]
     ELSE /\ error' = [error EXCEPT ![f.tab] = TRUE]
          /\ UNCHANGED <<vfs, viewVer>>
  /\ initialLoading' = [initialLoading EXCEPT ![f.tab] = FALSE]
  /\ pc' = IF f.awaited THEN [pc EXCEPT ![f.tab] = "idle"] ELSE pc
  /\ UNCHANGED <<disk, srvSave, post, clicks, scriptPc, scriptVfs, faults, ver,
                 recorded, ackFolders>>

\* fetchVfs resumes with the answer: setVfs(data) and clear the error, or
\* set the error; finally initialLoading is cleared.  The handler awaiting
\* it then clears loading.
FetchReturns(f) ==
  /\ f.stage = "answered"
  /\ fetches' = fetches \ {f}
  /\ IF f.ok
     THEN /\ vfs' = [vfs EXCEPT ![f.tab] = f.tree]
          /\ viewVer' = [viewVer EXCEPT ![f.tab] = f.ver]
          /\ error' = [error EXCEPT ![f.tab] = FALSE]
     ELSE /\ error' = [error EXCEPT ![f.tab] = TRUE]
          /\ UNCHANGED <<vfs, viewVer>>
  /\ initialLoading' = [initialLoading EXCEPT ![f.tab] = FALSE]
  /\ pc' = IF f.awaited THEN [pc EXCEPT ![f.tab] = "idle"] ELSE pc
  /\ UNCHANGED <<disk, srvSave, post, clicks, scriptPc, scriptVfs, faults, ver,
                 recorded, ackFolders>>

(***************************************************************************)
(* The Next.js server.  Its handlers interleave only at their awaits; the *)
(* load, addFolder/addFile and save after the last await run without one, *)
(* and the server does nothing else until writeFileSync returns.          *)
(***************************************************************************)
\* add-folder route: await req.json(), load, addFolder, answer success.
\* The tree addFolder changed is dropped: nothing saves it.
AddFolderRoute(t) ==
  /\ post[t].kind = "folder" /\ post[t].stage = "sent" /\ ServerFree
  /\ IF LoadThrows(disk)
     THEN /\ post' = [post EXCEPT ![t] = Answer(@, "fail")]
          /\ UNCHANGED ackFolders
     ELSE /\ post' = [post EXCEPT ![t] = Answer(@, "ok")]
          /\ ackFolders' = ackFolders \cup {post[t].arg}
  /\ UNCHANGED <<disk, srvSave, fetches, pc, initialLoading, vfs, error, clicks,
                 scriptPc, scriptVfs, faults, ver, viewVer, recorded>>

\* add-file route, steps 1-3: the form data and the daemon's /api/v0/add.
\* The daemon may be down, answer !ok, or give no "Hash": a 500 answer.
\* The awaits resume on the event loop, which a writeFileSync blocks.
AddFileIpfs(t) ==
  /\ post[t].kind = "file" /\ post[t].stage = "sent" /\ ServerFree
  /\ \/ post' = [post EXCEPT ![t].stage = "vfs"]
     \/ post' = [post EXCEPT ![t] = Answer(@, "fail")]
  /\ UNCHANGED <<disk, srvSave, fetches, pc, initialLoading, vfs, error, clicks,
                 scriptPc, scriptVfs, faults, ver, viewVer, recorded, ackFolders>>

\* add-file route, step 4: load, addFile at /<name>, and writeFileSync,
\* which opens the file with O_TRUNC first.  A load that throws, or an
\* open that fails (a fault), is caught and answered success with a
\* warning; the file is as it was.
AddFileVfs(t) ==
  /\ post[t].kind = "file" /\ post[t].stage = "vfs" /\ ServerFree
  /\ CASE LoadThrows(disk) ->
            /\ post' = [post EXCEPT ![t] = Answer(@, "warn")]
            /\ UNCHANGED <<disk, srvSave, faults>>
       [] OTHER ->
            \/ /\ srvSave' = addFile(Load(disk), <<post[t].arg.name>>, post[t].arg.cid)
               /\ disk' = Torn
               /\ post' = [post EXCEPT ![t].stage = "saving"]
               /\ UNCHANGED faults
            \/ /\ faults < MaxFaults
               /\ faults' = faults + 1
               /\ post' = [post EXCEPT ![t] = Answer(@, "warn")]
               /\ UNCHANGED <<disk, srvSave>>
  /\ UNCHANGED <<fetches, pc, initialLoading, vfs, error, clicks, scriptPc, scriptVfs,
                 ver, viewVer, recorded, ackFolders>>

\* writeFileSync returns and the route answers success; or the write fails
\* part way (a fault), leaving the truncated file, and the catch answers
\* success with a warning.
AddFileSaved(t) ==
  /\ post[t].stage = "saving"
  /\ srvSave' = Null
  /\ \/ /\ disk' = Saved(srvSave)
        /\ post' = [post EXCEPT ![t] = Answer(@, "ok")]
        /\ ver' = ver + 1
        /\ recorded' = recorded \cup {post[t].arg}
        /\ UNCHANGED faults
     \/ /\ faults < MaxFaults
        /\ faults' = faults + 1
        /\ post' = [post EXCEPT ![t] = Answer(@, "warn")]
        /\ UNCHANGED <<disk, ver, recorded>>
  /\ UNCHANGED <<fetches, pc, initialLoading, vfs, error, clicks, scriptPc, scriptVfs,
                 viewVer, ackFolders>>

\* GET /api/fs answers the tree on disk, or an error status if it does not
\* parse.
FsRoute(f) ==
  /\ f.stage = "sent" /\ ServerFree
  /\ fetches' = (fetches \ {f}) \cup
        {[f EXCEPT !.stage = "answered", !.ok = ~LoadThrows(disk),
                   !.tree = IF LoadThrows(disk) THEN Null ELSE Load(disk), !.ver = ver]}
  /\ UNCHANGED <<disk, srvSave, post, pc, initialLoading, vfs, error, clicks,
                 scriptPc, scriptVfs, faults, ver, viewVer, recorded, ackFolders>>

\* The server process dies and is restarted.  A writeFileSync in progress
\* leaves the file truncated; every request not yet answered fails.
Crash ==
  /\ faults < MaxFaults
  /\ faults' = faults + 1
  /\ srvSave' = Null
  /\ post' = [t \in Tabs |-> IF post[t].stage \in {"sent", "vfs", "saving"}
                              THEN Answer(post[t], "fail") ELSE post[t]]
  /\ fetches' = {IF f.stage = "sent" THEN [f EXCEPT !.stage = "answered"] ELSE f : f \in fetches}
  /\ UNCHANGED <<disk, pc, initialLoading, vfs, error, clicks, scriptPc, scriptVfs,
                 ver, viewVer, recorded, ackFolders>>

(***************************************************************************)
(* The seeding script (part_000), a node process of its own: load, three *)
(* edits, save.  JSON.parse throwing ends the process.                   *)
(***************************************************************************)
ScriptEdits(root) ==
  LET a == addFolder(root, <<"Documents", "Projects">>)
      b == addFile(a, <<"Documents", "Projects", "demo.js">>, "QmNewCID1")
  IN  addFile(b, <<"Documents", "readme.txt">>, "QmNewCID2")

ScriptLoad ==
  /\ scriptPc = "ready"
  /\ IF LoadThrows(disk)
     THEN scriptPc' = "failed" /\ UNCHANGED scriptVfs
     ELSE scriptPc' = "loaded" /\ scriptVfs' = ScriptEdits(Load(disk))
  /\ UNCHANGED <<disk, srvSave, post, fetches, pc, initialLoading, vfs, error, clicks,
                 faults, ver, viewVer, recorded, ackFolders>>

ScriptSave ==
  /\ scriptPc = "loaded"
  /\ scriptPc' = "saving"
  /\ disk' = Torn
  /\ UNCHANGED <<srvSave, post, fetches, pc, initialLoading, vfs, error, clicks,
                 scriptVfs, faults, ver, viewVer, recorded, ackFolders>>

ScriptSaved ==
  /\ scriptPc = "saving"
  /\ scriptPc' = "done"
  /\ disk' = Saved(scriptVfs)
  /\ ver' = ver + 1
  /\ UNCHANGED <<srvSave, post, fetches, pc, initialLoading, vfs, error, clicks,
                 scriptVfs, faults, viewVer, recorded, ackFolders>>

\* setError(null): the error banner's dismiss button, or typing a folder
\* name or choosing a file (inputs rendered after the first load and
\* enabled when not loading).  The inputs' values are the ones a later
\* click takes; clearing the error is the same step from any of the three.
DismissError(t) ==
  /\ error[t]
  /\ error' = [error EXCEPT ![t] = FALSE]
  /\ UNCHANGED <<disk, srvSave, post, fetches, pc, initialLoading, vfs, clicks, scriptPc,
                 scriptVfs, faults, ver, viewVer, recorded, ackFolders>>

\* Every tab idle with its clicks spent, nothing in flight, the script ended.
Terminating ==
  /\ \A t \in Tabs : pc[t] = "idle" /\ clicks[t] = MaxClicks /\ ~initialLoading[t]
  /\ fetches = {} /\ scriptPc \in {"done", "failed"}
  /\ UNCHANGED vars

\* The server's and the browser's work for tab t's current request.
Serve(t) ==
  \/ AddFolderRoute(t) \/ AddFileIpfs(t) \/ AddFileVfs(t) \/ AddFileSaved(t)
  \/ PostReturns(t)
  \/ \E f \in fetches : f.tab = t /\ (FsRoute(f) \/ FetchReturns(f))

Next ==
  \/ \E t \in Tabs :
       \/ \E in \in FolderInputs : HandleAddFolder(t, in)
       \/ \E u \in Uploads : HandleAddFile(t, u)
       \/ DismissError(t)
       \/ Serve(t)
  \/ Crash
  \/ ScriptLoad \/ ScriptSave \/ ScriptSaved
  \/ Terminating

\* Node's event loop and the browser run every pending continuation, and
\* an HTTP request is answered (or fails) eventually.  The script, once
\* started, runs to its end.  Users clicking and faults are not assumed.
Spec ==
  /\ Init /\ [][Next]_vars
  /\ \A t \in Tabs : WF_vars(Serve(t))
  /\ WF_vars(ScriptSave \/ ScriptSaved)

(***************************************************************************)
(* Properties.                                                             *)
(***************************************************************************)
TypeOK ==
  /\ disk.state \in {"missing", "torn", "ok"}
  /\ pc \in [Tabs -> {"idle", "post", "refetch"}]
  /\ \A t \in Tabs : "type" \in DOMAIN vfs[t] /\ vfs[t].type \in {"null", "folder"}
  /\ \A f \in fetches : f.tab \in Tabs /\ f.stage \in {"sent", "answered"}
  /\ \A t \in Tabs : post[t].stage \in {"none", "sent", "vfs", "saving", "answered"}
  /\ scriptPc \in {"ready", "loaded", "saving", "done", "failed"}
  /\ clicks \in [Tabs -> 0 .. MaxClicks] /\ faults \in 0 .. MaxFaults

\* The files a tree holds at its root, as the uploads that put them there.
RootFiles(t) ==
  {[name |-> c.name, cid |-> c.cid] : c \in {c \in Range(t.children) : c.type = "file"}}

\* An upload the add-file route answered without a warning is in the
\* saved file from then on, whatever other requests, processes and
\* faults do (the app has no delete), whenever no write is in progress.
RecordedUploadsKept ==
  ~Writing => \A u \in recorded : disk.state = "ok" /\ u \in RootFiles(disk.tree)

\* A folder the add-folder route answered success for is a folder in the
\* saved file.
AcknowledgedFolderSaved ==
  ~Writing => \A p \in ackFolders : disk.state = "ok" /\ findNode(p, disk.tree).type = "folder"

\* A tab never replaces the tree it shows with an older one: fetchVfs
\* answers reach setVfs in the order the tab saw saves complete.
ViewNeverRegresses == [][\A t \in Tabs : viewVer'[t] >= viewVer[t]]_vars

\* Every click of a tab's button ends with loading cleared.
PageSettles == \A t \in Tabs : pc[t] # "idle" ~> pc[t] = "idle"

(***************************************************************************)
(* Refinement.  The durable tree is the one on disk, or, while the server *)
(* writes, the tree it is writing; the acknowledged uploads are those the *)
(* add-file route answered without a warning.  A torn file left by a      *)
(* crash has no abstract tree.                                             *)
(***************************************************************************)
StoreTree ==
  CASE srvSave # Null -> srvSave
    [] LoadThrows(disk) -> Null
    [] OTHER -> Load(disk)

Store == INSTANCE VfsStore WITH tree <- StoreTree, acked <- recorded

\* The server implements the atomic store: every save it completes is one
\* append of the requested upload to the tree that was durable when its
\* load ran, and an upload is acknowledged only after its save ended.
StoreRefinement == Store!Spec

=============================================================================

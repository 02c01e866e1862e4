----------------------------- MODULE ImageStore -----------------------------
(***************************************************************************)
(* The image cache of the CRI plugin: PullImage and RemoveImage of         *)
(* image.go, the image half of the store, and the copy of an image's root  *)
(* file system by CreateContainer.  A record (meta.json) is read and       *)
(* written under the store's lock; the root file system beside it is       *)
(* written by tar and read by copyDir without any lock.                    *)
(***************************************************************************)
EXTENDS Naturals

CONSTANTS NumIds,       \* image IDs, in the order ReadDir lists them
          Refs,         \* repo tags
          Files,        \* the files of an image's root file system
          Calls,        \* CRI calls in flight
          None

Ids == 1..NumIds

ASSUME ImageAssumption == /\ NumIds \in Nat
                          /\ Refs \cap Ids = {} /\ None \notin Refs
                          /\ None \notin Calls /\ None \notin Files

NoRecord == {None}

VARIABLES rec,          \* meta.json of each image: its RepoTags, or NoRecord
          root,         \* images whose rootfs directory exists
          fs,           \* each file of each rootfs: "none", "part" or "full"
          docker,       \* the image each tag names in the registry
          locked,       \* the call that holds s.mu across RemoveAll, or None
          call,         \* the calls in flight
          spoiled       \* history: images whose calls overlapped in a way no lock
                        \* prevents, or whose RemoveAll failed before meta.json

imageVars == <<rec, root, fs, docker, locked, call, spoiled>>

Idle == [op |-> "idle", pc |-> "idle", ref |-> None, id |-> 0, tags |-> {},
         todo |-> {}, got |-> {}]

ImageInit ==
    /\ rec = [i \in Ids |-> NoRecord]
    /\ root = {}
    /\ fs = [i \in Ids |-> [f \in Files |-> "none"]]
    /\ docker \in [Refs -> Ids]
    /\ locked = None
    /\ call = [k \in Calls |-> Idle]
    /\ spoiled = {}

At(k, pc) == call[k].pc = pc
Become(k, c) == call' = [call EXCEPT ![k] = c]
Return(k) == Become(k, Idle)

\* Calls on one image that get in each other's way.
Conflicts == {<<"pull", "pull">>, <<"pull", "remove">>, <<"remove", "pull">>,
              <<"remove", "create">>, <<"create", "remove">>}
Clash(op, i) == \E k \in Calls : call[k].id = i /\ <<op, call[k].op>> \in Conflicts

\* Call k begins to work on image i; nothing keeps others from doing so too.
Begin(k, op, pc, r, i) ==
    /\ call[k] = Idle
    /\ Become(k, [Idle EXCEPT !.op = op, !.pc = pc, !.ref = r, !.id = i])
    /\ spoiled' = IF Clash(op, i) THEN spoiled \cup {i} ELSE spoiled
    /\ UNCHANGED <<rec, root, fs, docker, locked>>

\* The store's methods run under its lock.
GetImage(i) == rec[i] # NoRecord
CreateImage(i, tags) == locked = None /\ rec' = [rec EXCEPT ![i] = tags]

\* GetImageByRef: the first record in directory order that has the tag, or the ID.
Matches(x, i) == rec[i] # NoRecord /\ (x \in rec[i] \/ x = i)
GetImageByRef(x, i) == Matches(x, i) /\ \A j \in 1..(i - 1) : ~Matches(x, j)

-----------------------------------------------------------------------------
\* docker pull and docker inspect: the ID the tag names now.
PullImage(k, r) == Begin(k, "pull", "cached", r, docker[r])

\* Mutant: the rest of the pull is skipped when files are left of an earlier one.
PullCachedDir(k) ==
    /\ At(k, "cached") /\ locked = None
    /\ call[k].id \in root
    /\ Become(k, [call[k] EXCEPT !.tags = {call[k].ref}, !.pc = "refresh"])
    /\ UNCHANGED <<rec, root, fs, docker, locked, spoiled>>

\* A cached image keeps its tags and gets the new one.
PullCached(k) ==
    /\ At(k, "cached") /\ locked = None
    /\ GetImage(call[k].id)
    /\ Become(k, [call[k] EXCEPT !.tags = rec[call[k].id] \cup {call[k].ref},
                                 !.pc = "refresh"])
    /\ UNCHANGED <<rec, root, fs, docker, locked, spoiled>>

\* Otherwise the tags T are those docker knows of the image, and the new one.
PullUncached(k, T) ==
    /\ At(k, "cached") /\ locked = None
    /\ ~GetImage(call[k].id)
    /\ \A r \in T : docker[r] = call[k].id
    /\ Become(k, [call[k] EXCEPT !.tags = T \cup {call[k].ref}, !.pc = "mkdir"])
    /\ UNCHANGED <<rec, root, fs, docker, locked, spoiled>>

\* CreateImage of the record read before.
PullRefresh(k) ==
    /\ At(k, "refresh")
    /\ CreateImage(call[k].id, call[k].tags)
    /\ Return(k)
    /\ UNCHANGED <<root, fs, docker, locked, spoiled>>

\* docker create, then the rootfs directory, which may be there already.
PullMkdir(k) ==
    /\ At(k, "mkdir")
    /\ root' = root \cup {call[k].id}
    /\ Become(k, [call[k] EXCEPT !.pc = "extract", !.todo = Files])
    /\ UNCHANGED <<rec, fs, docker, locked, spoiled>>

\* tar --overwrite opens a file with O_TRUNC, and fills it.
PullOpen(k, f) ==
    /\ At(k, "extract") /\ f \in call[k].todo
    /\ fs' = [fs EXCEPT ![call[k].id][f] = "part"]
    /\ Become(k, [call[k] EXCEPT !.pc = "fill", !.got = {f}])
    /\ UNCHANGED <<rec, root, docker, locked, spoiled>>
PullFill(k) ==
    /\ At(k, "fill")
    /\ LET c == call[k] IN
       /\ fs' = [fs EXCEPT ![c.id] = [f \in Files |->
                     IF f \in c.got /\ @[f] # "none" THEN "full" ELSE @[f]]]
       /\ Become(k, [c EXCEPT !.pc = "extract", !.todo = c.todo \ c.got, !.got = {}])
    /\ UNCHANGED <<rec, root, docker, locked, spoiled>>

\* docker, tar or the request's context fails: the files stay as they are.
PullFails(k) ==
    /\ call[k].op = "pull" /\ call[k].pc \in {"refresh", "mkdir", "extract", "fill", "failing"}
    /\ Return(k)
    /\ UNCHANGED <<rec, root, fs, docker, locked, spoiled>>

\* CreateImage: the record is written once tar has ended.
PullPersist(k) ==
    /\ At(k, "extract") /\ call[k].todo = {}
    /\ CreateImage(call[k].id, call[k].tags)
    /\ Return(k)
    /\ UNCHANGED <<root, fs, docker, locked, spoiled>>

-----------------------------------------------------------------------------
RemoveImage(k, x) ==
    /\ locked = None
    /\ \E i \in Ids : GetImageByRef(x, i) /\ Begin(k, "remove", "delete", None, i)

\* DeleteImage takes the lock and lists what RemoveAll will unlink.
DeleteImage(k) ==
    /\ At(k, "delete") /\ locked = None
    /\ locked' = k
    /\ Become(k, [call[k] EXCEPT !.pc = "unlink",
                      !.todo = {f \in Files : fs[call[k].id][f] # "none"} \cup {None}])
    /\ UNCHANGED <<rec, root, fs, docker, spoiled>>

\* RemoveAll unlinks the entries in any order; None is meta.json.
Unlink(k, e) ==
    /\ At(k, "unlink") /\ e \in call[k].todo
    /\ IF e = None
       THEN rec' = [rec EXCEPT ![call[k].id] = NoRecord] /\ UNCHANGED fs
       ELSE /\ fs' = [fs EXCEPT ![call[k].id] = [f \in Files |-> IF f = e THEN "none" ELSE @[f]]]
            /\ UNCHANGED rec
    /\ Become(k, [call[k] EXCEPT !.todo = @ \ {e}])
    /\ UNCHANGED <<root, docker, locked, spoiled>>

\* The directory goes if it is empty, and a tar that works in it can only fail.
Rmdir(k) ==
    /\ At(k, "unlink") /\ call[k].todo = {}
    /\ locked' = None
    /\ LET i == call[k].id
           gone == \A f \in Files : fs[i][f] = "none"
       IN /\ root' = IF gone THEN root \ {i} ELSE root
          /\ call' = [j \in Calls |->
                IF j = k THEN Idle
                ELSE IF gone /\ call[j].op = "pull" /\ call[j].id = i
                        /\ call[j].pc \in {"extract", "fill"}
                     THEN [call[j] EXCEPT !.pc = "failing"]
                     ELSE call[j]]
    /\ spoiled' = IF \E j \in Calls \ {k} : call[j].id = call[k].id
                  THEN spoiled ELSE spoiled \ {call[k].id}
    /\ UNCHANGED <<rec, fs, docker>>

\* RemoveAll fails, or the plugin is killed in it, with some entries unlinked.
DeleteFails(k) ==
    /\ At(k, "unlink")
    /\ locked' = None
    /\ spoiled' = IF None \in call[k].todo THEN spoiled \cup {call[k].id} ELSE spoiled
    /\ Return(k)
    /\ UNCHANGED <<rec, root, fs, docker>>

-----------------------------------------------------------------------------
\* CreateContainer finds the image, then copyDir walks its rootfs.
CreateContainer(k, x) ==
    /\ locked = None
    /\ \E i \in Ids : GetImageByRef(x, i) /\ Begin(k, "create", "list", None, i)

\* filepath.Walk reads the names of the directory once.
CopyList(k) ==
    /\ At(k, "list") /\ call[k].id \in root
    /\ Become(k, [call[k] EXCEPT !.pc = "copy",
                      !.todo = {f \in Files : fs[call[k].id][f] # "none"}])
    /\ UNCHANGED <<rec, root, fs, docker, locked, spoiled>>

\* Mutant: the walk ends after the first file.
CopyFileOnce(k, f) ==
    /\ At(k, "copy") /\ f \in call[k].todo
    /\ Become(k, [call[k] EXCEPT !.todo = {}, !.got = @ \cup {f}])
    /\ UNCHANGED <<rec, root, fs, docker, locked, spoiled>>

\* copyFile copies what is there.
CopyFile(k, f) ==
    /\ At(k, "copy") /\ f \in call[k].todo
    /\ fs[call[k].id][f] # "none"
    /\ Become(k, [call[k] EXCEPT !.todo = @ \ {f},
                      !.got = IF fs[call[k].id][f] = "full" THEN @ \cup {f} ELSE @])
    /\ UNCHANGED <<rec, root, fs, docker, locked, spoiled>>

\* A directory or a file that is gone, or a copy that fails, ends the call.
CopyFails(k) ==
    /\ call[k].pc \in {"list", "copy"}
    /\ Return(k)
    /\ UNCHANGED <<rec, root, fs, docker, locked, spoiled>>

\* The container's record is written.
CopyDone(k) ==
    /\ At(k, "copy") /\ call[k].todo = {}
    /\ Return(k)
    /\ UNCHANGED <<rec, root, fs, docker, locked, spoiled>>

\* The registry's tag moves to another image.
Retag(r, i) == /\ docker' = [docker EXCEPT ![r] = i]
               /\ UNCHANGED <<rec, root, fs, locked, call, spoiled>>

Pull(k) == \/ \E r \in Refs : PullImage(k, r)
           \/ PullCached(k) \/ PullRefresh(k) \/ PullMkdir(k)
           \/ \E T \in SUBSET Refs : PullUncached(k, T)
           \/ \E f \in Files : PullOpen(k, f)
           \/ PullFill(k) \/ PullFails(k) \/ PullPersist(k)
Remove(k) == \/ \E x \in Refs \cup Ids : RemoveImage(k, x)
             \/ DeleteImage(k)
             \/ \E e \in Files \cup {None} : Unlink(k, e)
             \/ Rmdir(k) \/ DeleteFails(k)
Create(k) == \/ \E x \in Refs \cup Ids : CreateContainer(k, x)
             \/ CopyList(k) \/ CopyFails(k) \/ CopyDone(k)
             \/ \E f \in Files : CopyFile(k, f)

ImageNext ==
    \/ \E k \in Calls : Pull(k) \/ Remove(k) \/ Create(k)
    \/ \E r \in Refs, i \in Ids : Retag(r, i)

ImageSpec == ImageInit /\ [][ImageNext]_imageVars

-----------------------------------------------------------------------------
Ops == {"idle", "pull", "remove", "create"}
Pcs == {"idle", "cached", "refresh", "mkdir", "extract", "fill", "failing", "delete",
        "unlink", "list", "copy"}

CallType == [op : Ops, pc : Pcs, ref : Refs \cup {None}, id : Ids \cup {0},
             tags : SUBSET Refs, todo : SUBSET (Files \cup {None}),
             got : SUBSET Files]

\* Type correctness: CreateImage writes tag lists, the calls work on images.
ImageTypeOK ==
    /\ rec \in [Ids -> (SUBSET Refs) \cup {NoRecord}]
    /\ root \subseteq Ids /\ spoiled \subseteq Ids
    /\ fs \in [Ids -> [Files -> {"none", "part", "full"}]]
    /\ docker \in [Refs -> Ids]
    /\ locked \in Calls \cup {None}
    /\ call \in [Calls -> CallType]

\* An image with a record has its whole root file system, whatever pulls failed
\* or were repeated before: PullImage writes the record last, and treats an
\* image as cached only if it has one.  The only ways to a record over less are
\* two pulls of the image at once, a removal at the same time as a pull, and a
\* RemoveAll that fails before it comes to meta.json.
RecordedIsComplete ==
    \A i \in Ids \ spoiled :
        rec[i] # NoRecord /\ (\A k \in Calls : ~(At(k, "unlink") /\ call[k].id = i))
            => i \in root /\ \A f \in Files : fs[i][f] = "full"

\* A container that CreateContainer completes has every file of its image, also
\* when images are pulled while copyDir walks, unless the image was removed
\* meanwhile or was not complete itself (RecordedIsComplete).
ContainerIsComplete ==
    \A k \in Calls : At(k, "copy") /\ call[k].id \notin spoiled /\ call[k].todo = {}
        => call[k].got = Files
=============================================================================

------------------------------- MODULE Vendor -------------------------------
(***************************************************************************)
(* util/vendor.py: copies an upstream repository into this one.  A         *)
(* description names the upstream branch, the directories to copy and the  *)
(* directory of local patches; a lock file holds the revision last         *)
(* imported.  One run loads both, may refresh the patches, clones, removes *)
(* the old copy, copies and patches item by item, rewrites the lock file   *)
(* and may commit.  Nothing is undone when a step fails, so a run can stop *)
(* between any two of them, and the next run starts from what is there.    *)
(* What lies on disk, what git has staged and what it has committed are    *)
(* three records of one shape: the imported items, the patches and the     *)
(* lock file.                                                              *)
(***************************************************************************)
EXTENDS Naturals, Sequences

CONSTANTS
    Names,      \* destinations of the mapping, Root among them
    Root,       \* the destination of the default mapping
    Revs,       \* upstream revisions (commit hashes)
    Branch,     \* the branch name the description gives as its revision
    None,       \* no such file, no such argument
    Torn,       \* a lock file cut short while it was written
    Partial,    \* an item cut short while it was copied, or edited by hand
    Patches,    \* numbers of the patch files, applied in this order
    Descs,      \* description files
    ArgSets,    \* command lines
    MaxRuns,    \* bound on the runs of the tool
    MaxEdits    \* bound on the user's changes between runs

ASSUME VendorAssumption ==
    /\ Root \in Names
    /\ Patches \subseteq Nat
    /\ {Branch, None, Torn, Partial} \cap Revs = {}
    /\ Branch \notin {None, Torn} /\ None # Torn
    /\ Descs \subseteq [mapped : BOOLEAN, patchDir : BOOLEAN, patchRepo : BOOLEAN,
                       items : Seq([name : Names, file : BOOLEAN, dir : BOOLEAN,
                                    escapes : BOOLEAN])]

VARIABLES
    desc,       \* the description file
    disk,       \* working tree
    index,      \* git's staging area
    head,       \* the last commit
    pc,         \* the next statement of main, or "idle"
    args,       \* the command line
    update,     \* args.update, which a missing lock file turns on
    lock,       \* the lock file as read at the start
    up,         \* desc.upstream.rev
    newRev,     \* upstream_new_rev
    todo,       \* items still to import, the one in work first
    pending,    \* patches of that item still to apply
    runs, edits \* how often the tool and the user have acted

mem == <<args, update, lock, up>>
vars == <<desc, disk, index, head, pc, args, update, lock, up, newRev,
          todo, pending, runs, edits>>

-----------------------------------------------------------------------------
(* The description file *)

\* The mapping's items; without a mapping everything is copied straight through.
Items(d) == IF d.mapped THEN d.items
            ELSE <<[name |-> Root, file |-> FALSE, dir |-> d.patchDir,
                    escapes |-> FALSE]>>

\* Some item of the mapping names a directory of patches.
HasPatchDir(d) == \E i \in DOMAIN d.items : d.items[i].dir

\* What Desc's constructor accepts.
DescOK(d) ==
    /\ d.mapped => \A i \in DOMAIN d.items : ~d.items[i].escapes
    /\ d.patchRepo => d.patchDir
    /\ ~(d.patchRepo /\ d.mapped)
    /\ d.mapped => (d.patchDir <=> HasPatchDir(d))

\* An override replaces the key it names, which must be an overridable one:
\* for the upstream revision that is "ref".
ApplyOverride(data, value) ==
    IF value = None THEN data ELSE [data EXCEPT !["ref"] = value]

\* The revision Upstream takes from the description's data.
UpstreamRev(data) == data["rev"]

UsedNames == {Items(desc)[i].name : i \in DOMAIN Items(desc)}

\* The item that is the last to write to destination n.
IsLastFor(n, i) ==
    /\ Items(desc)[i].name = n
    /\ \A j \in DOMAIN Items(desc) : j > i => Items(desc)[j].name # n

LastItem(n) == Items(desc)[CHOOSE i \in DOMAIN Items(desc) : IsLastFor(n, i)]

\* What a complete import of revision r with patch files ps leaves in the items.
Import(r, ps) ==
    [n \in UsedNames |->
        [rev |-> r, applied |-> IF LastItem(n).dir THEN ps[n] ELSE {}]]

Imported(tree, r) ==
    \A n \in UsedNames : tree.target[n] = Import(r, tree.patches)[n]

-----------------------------------------------------------------------------
(* git, as the tool uses it *)

\* Only the staging area is compared.
MutStagedOnly == index = head

\* Staged and unstaged changes; files git does not track are not looked at.
CleanWorkdir ==
    /\ index = head
    /\ \A n \in Names :
          /\ head.target[n] # None => disk.target[n] = head.target[n]
          /\ head.patches[n] \subseteq disk.patches[n]
    /\ head.lock # None => disk.lock = head.lock

Empty == [target  |-> [n \in Names |-> None],
          patches |-> [n \in Names |-> {}],
          lock    |-> None]

Init ==
    /\ desc \in Descs
    /\ disk = Empty /\ index = Empty /\ head = Empty
    /\ pc = "idle"
    /\ args \in ArgSets /\ update = FALSE /\ lock = None /\ up = Branch
    /\ newRev = None /\ todo = <<>> /\ pending = {}
    /\ runs = 0 /\ edits = 0

-----------------------------------------------------------------------------
(* One run of main *)

\* The command line is parsed.
Start ==
    /\ pc = "idle" /\ runs < MaxRuns
    /\ runs' = runs + 1
    /\ args' \in ArgSets
    /\ update' = args'.update
    /\ lock' = None /\ up' = Branch
    /\ newRev' = None /\ todo' = <<>> /\ pending' = {}
    /\ pc' = "load"
    /\ UNCHANGED <<desc, disk, index, head, edits>>

\* A lock file that does not parse counts as none.
MutTornIsNone ==
    /\ pc = "load"
    /\ DescOK(desc)
    /\ lock' = IF disk.lock = Torn THEN None ELSE disk.lock
    /\ up' = UpstreamRev(ApplyOverride([rev |-> Branch, ref |-> Branch],
                                       args.override))
    /\ pc' = "clean"
    /\ UNCHANGED <<desc, disk, index, head, args, update, newRev, todo, pending,
                   runs, edits>>

\* Desc and LockDesc are read; a description or a lock file that does not parse
\* ends the run, a lock file that does not exist does not.
Load ==
    /\ pc = "load"
    /\ DescOK(desc) /\ disk.lock # Torn
    /\ lock' = disk.lock
    /\ up' = UpstreamRev(ApplyOverride([rev |-> Branch, ref |-> Branch],
                                       args.override))
    /\ pc' = "clean"
    /\ UNCHANGED <<desc, disk, index, head, args, update, newRev, todo, pending,
                   runs, edits>>

\* --commit asks for a clean working directory.
CheckClean ==
    /\ pc = "clean"
    /\ args.commit => CleanWorkdir
    /\ pc' = "settle"
    /\ UNCHANGED <<desc, disk, index, head, mem, newRev, todo, pending, runs, edits>>

\* Without a lock file the run updates; with one and no --update the locked
\* upstream takes the place of the description's.
Settle ==
    /\ pc = "settle"
    /\ update' = (update \/ lock = None)
    /\ up' = IF lock # None /\ ~update THEN lock ELSE up
    /\ pc' = IF args.refresh THEN "unlink" ELSE "clone"
    /\ UNCHANGED <<desc, disk, index, head, args, lock, newRev, todo, pending,
                   runs, edits>>

\* refresh_patches removes the patch files one by one ...
UnlinkPatch ==
    /\ pc = "unlink" /\ desc.patchRepo
    /\ \E p \in disk.patches[Root] :
          disk' = [disk EXCEPT !.patches[Root] = @ \ {p}]
    /\ UNCHANGED <<desc, index, head, pc, mem, newRev, todo, pending, runs, edits>>

\* ... and has git write those of the patch repository, whatever they are now.
ExportPatches ==
    /\ pc = "unlink" /\ desc.patchRepo /\ disk.patches[Root] = {}
    /\ \E ps \in SUBSET Patches :
          /\ disk' = [disk EXCEPT !.patches[Root] = ps]
          /\ pc' \in {"clone", "failed"}
    /\ UNCHANGED <<desc, index, head, mem, newRev, todo, pending, runs, edits>>

\* clone_git_repo: the branch is wherever upstream has moved it, a revision is
\* itself.
Clone ==
    /\ pc = "clone"
    /\ newRev' \in IF up = Branch THEN Revs ELSE {up}
    /\ pc' = "check"
    /\ UNCHANGED <<desc, disk, index, head, mem, todo, pending, runs, edits>>

\* Whatever was checked out is imported.
MutAnyRev ==
    /\ pc = "check"
    /\ pc' = "rmtree"
    /\ UNCHANGED <<desc, disk, index, head, mem, newRev, todo, pending, runs, edits>>

\* A locked revision must be the one that was checked out.
CheckRev ==
    /\ pc = "check"
    /\ ~update => newRev = lock
    /\ pc' = "rmtree"
    /\ UNCHANGED <<desc, disk, index, head, mem, newRev, todo, pending, runs, edits>>

\* Behind the last item: the lock file of a run that updates, the commit of one
\* that was asked for it, or the end.
AfterImport == IF update THEN "lock" ELSE IF args.commit THEN "add" ELSE "done"

\* The old import is removed; what cannot be removed stays, silently.  A mapping
\* without items imports nothing more.
RemoveTarget ==
    /\ pc = "rmtree"
    /\ \E kept \in SUBSET UsedNames :
          disk' = [disk EXCEPT !.target =
                      [n \in Names |-> IF n \in UsedNames \ kept THEN None ELSE @[n]]]
    /\ todo' = Items(desc)
    /\ pc' = IF Items(desc) # <<>> THEN "copy" ELSE AfterImport
    /\ UNCHANGED <<desc, index, head, mem, newRev, pending, runs, edits>>

\* One item is copied: a file over whatever is there, a directory only where
\* there is none.  The patch files are listed once it is there.
CopyItem ==
    /\ pc = "copy" /\ todo # <<>>
    /\ LET it == Head(todo) IN
          /\ it.file \/ disk.target[it.name] = None
          /\ disk' = [disk EXCEPT !.target[it.name] = [rev |-> newRev, applied |-> {}]]
          /\ pending' = IF it.dir THEN disk.patches[it.name] ELSE {}
    /\ pc' = "patch"
    /\ UNCHANGED <<desc, index, head, mem, newRev, todo, runs, edits>>

\* Copying stops half-way.
CopyBreaks ==
    /\ pc = "copy" /\ todo # <<>>
    /\ disk' = [disk EXCEPT !.target[Head(todo).name] = Partial]
    /\ pc' = "failed"
    /\ UNCHANGED <<desc, index, head, mem, newRev, todo, pending, runs, edits>>

\* git apply, in the order of the patches' names.
ApplyPatch ==
    /\ pc = "patch"
    /\ \E p \in pending :
          /\ \A q \in pending : p <= q
          /\ disk' = [disk EXCEPT !.target[Head(todo).name].applied = @ \cup {p}]
          /\ pending' = pending \ {p}
    /\ UNCHANGED <<desc, index, head, pc, mem, newRev, todo, runs, edits>>

\* An item that takes no patches ends the loop.
MutUnpatchedIsLast ==
    /\ pc = "patch" /\ pending = {}
    /\ todo' = Tail(todo)
    /\ pc' = IF Tail(todo) # <<>> /\ todo[2].dir THEN "copy" ELSE AfterImport
    /\ UNCHANGED <<desc, disk, index, head, mem, newRev, pending, runs, edits>>

\* The next item, or what comes behind the last one.
NextItem ==
    /\ pc = "patch" /\ pending = {}
    /\ todo' = Tail(todo)
    /\ pc' = IF Tail(todo) # <<>> THEN "copy" ELSE AfterImport
    /\ UNCHANGED <<desc, disk, index, head, mem, newRev, pending, runs, edits>>

\* Opening the lock file empties it ...
OpenLock ==
    /\ pc = "lock"
    /\ disk' = [disk EXCEPT !.lock = Torn]
    /\ pc' = "dump"
    /\ UNCHANGED <<desc, index, head, mem, newRev, todo, pending, runs, edits>>

\* ... before the new revision is in it.
DumpLock ==
    /\ pc = "dump"
    /\ disk' = [disk EXCEPT !.lock = newRev]
    /\ pc' = IF args.commit THEN "add" ELSE "done"
    /\ UNCHANGED <<desc, index, head, mem, newRev, todo, pending, runs, edits>>

\* git_add_commit stages the target, the lock file and, if they were
\* refreshed, the patches ...
Add ==
    /\ pc = "add"
    /\ index' = [target  |-> disk.target,
                 patches |-> IF args.refresh THEN disk.patches ELSE index.patches,
                 lock    |-> disk.lock]
    /\ pc' = "commit"
    /\ UNCHANGED <<desc, disk, head, mem, newRev, todo, pending, runs, edits>>

\* ... and commits.  A commit git refuses is a warning: the run ends well and
\* leaves everything staged.
Commit ==
    /\ pc = "commit"
    /\ head' \in {index, head}
    /\ pc' = "done"
    /\ UNCHANGED <<desc, disk, index, mem, newRev, todo, pending, runs, edits>>

\* A check fails, a called program fails, or the user interrupts: the run ends
\* where it is.
Abort ==
    /\ pc \notin {"idle", "done", "failed"}
    /\ pc' = "failed"
    /\ UNCHANGED <<desc, disk, index, head, mem, newRev, todo, pending, runs, edits>>

\* The process is gone, and with it all it kept in memory.
Return ==
    /\ pc \in {"done", "failed"}
    /\ pc' = "idle"
    /\ lock' = None /\ up' = Branch /\ update' = FALSE
    /\ newRev' = None /\ todo' = <<>> /\ pending' = {}
    /\ UNCHANGED <<desc, disk, index, head, args, runs, edits>>

-----------------------------------------------------------------------------
(* The user, between runs *)

UserActs == pc = "idle" /\ edits < MaxEdits /\ edits' = edits + 1

\* Patches, imported files or the lock file are written or removed by hand; a
\* lock written by hand may name the branch.
UserEdits ==
    /\ UserActs
    /\ \/ \E n \in UsedNames, ps \in SUBSET Patches :
             disk' = [disk EXCEPT !.patches[n] = ps]
       \/ \E n \in UsedNames : disk' = [disk EXCEPT !.target[n] = Partial]
       \/ \E l \in {None, Branch} : disk' = [disk EXCEPT !.lock = l]
    /\ UNCHANGED <<desc, index, head, pc, mem, newRev, todo, pending, runs>>

\* git add of everything, and a commit of it or none.
UserStages ==
    /\ UserActs
    /\ index' = disk
    /\ head' \in {disk, head}
    /\ UNCHANGED <<desc, disk, pc, mem, newRev, todo, pending, runs>>

\* git reset --hard, which leaves what git does not track.
UserResets ==
    /\ UserActs
    /\ index' = head
    /\ disk' = [target  |-> [n \in Names |->
                               IF head.target[n] = None /\ index.target[n] = None
                               THEN disk.target[n] ELSE head.target[n]],
                patches |-> [n \in Names |->
                               head.patches[n] \cup (disk.patches[n] \ index.patches[n])],
                lock    |-> IF head.lock = None /\ index.lock = None
                            THEN disk.lock ELSE head.lock]
    /\ UNCHANGED <<desc, head, pc, mem, newRev, todo, pending, runs>>

Tool == \/ Start \/ Load \/ CheckClean \/ Settle
        \/ UnlinkPatch \/ ExportPatches
        \/ Clone \/ CheckRev
        \/ RemoveTarget \/ CopyItem \/ CopyBreaks \/ ApplyPatch \/ NextItem
        \/ OpenLock \/ DumpLock
        \/ Add \/ Commit
        \/ Abort \/ Return

Next == Tool \/ UserEdits \/ UserStages \/ UserResets

Spec == Init /\ [][Next]_vars

-----------------------------------------------------------------------------
(* What the tool promises *)

\* A run of main that ends well leaves the items exactly as an import of the
\* revision in the lock file with the patches in the directory would make them,
\* whatever an earlier run or the user had left there.
LockedImport == pc = "done" => disk.lock \in Revs /\ Imported(disk, disk.lock)

\* The lock file changes only once the whole import of the new revision is
\* done: a revision is not locked for the first time by a run that only half
\* copied it.  A run that imports the locked revision again and fails does leave
\* half of it under that lock.
LockGoesLast == pc \in {"lock", "dump", "add", "commit"} => Imported(disk, newRev)

\* A run that was not asked to update and found a lock file takes no other
\* revision than the locked one, wherever the branch is by now, and leaves the
\* lock file as it is; and no run works under a lock file it cannot read, which
\* is not the same as having none.
NoSilentUpdate ==
    /\ ~args.update /\ lock # None =>
          /\ disk.lock = lock
          /\ pc \in {"rmtree", "copy", "patch", "lock", "dump", "add", "commit", "done"}
                => newRev = lock
    /\ disk.lock = Torn => pc \in {"idle", "load", "dump", "failed"}

\* What the tool commits can be made again from the commit: the items are the
\* import of the committed lock with the committed patches, and with those
\* patches lying in the directory that git does not track.
CommitReproducible ==
    [][pc = "commit" /\ head' # head =>
          \A n \in UsedNames :
             /\ head'.target[n].rev = head'.lock
             /\ \E extra \in SUBSET (disk.patches[n] \ index.patches[n]) :
                   head'.target[n].applied =
                      Import(head'.lock, [k \in Names |-> head'.patches[k] \cup extra])[n].applied
      ]_vars

\* A run that may update takes the revision an override on its command line
\* names: "Keys in the description (configuration) file which can be overridden
\* through the command line" (util/vendor.py:41).
OverrideHonoured ==
    update /\ newRev # None /\ args.override # None => newRev = args.override
=============================================================================

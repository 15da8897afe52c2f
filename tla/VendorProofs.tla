---------------------------- MODULE VendorProofs ----------------------------
(***************************************************************************)
(* Proofs about Vendor, for every description, command line and set of     *)
(* revisions and any number of runs and edits: no run updates without      *)
(* having been asked to, and none works under a lock it cannot read; what  *)
(* a run that ends well leaves is the import of the locked revision; the   *)
(* lock file is written last; and what is committed can be made again.     *)
(***************************************************************************)
EXTENDS Vendor, TLAPS, SequenceTheorems

-----------------------------------------------------------------------------
\* Statements of main behind the one that settles what to import, and those
\* behind the check of the revision.
Settled  == {"unlink", "clone", "check", "rmtree", "copy", "patch", "lock", "dump",
             "add", "commit", "done"}
Imports  == {"rmtree", "copy", "patch", "lock", "dump", "add", "commit", "done"}

\* The tool's variables hold what the statements before left in them.
RunOK ==
    /\ pc \in {"idle", "load", "clean", "settle", "failed"} \cup Settled
    /\ pc \in {"idle", "load"} => lock = None
    /\ pc \in {"load", "clean", "settle"} => update = args.update
    /\ pc \in Settled /\ update => args.update \/ lock = None
    /\ pc \in {"lock", "dump"} => update

\* Nothing that could be written to the lock file is a torn one.
NeverTorn == lock # Torn /\ up # Torn /\ newRev # Torn

\* The revision to import is the locked one unless the run updates.
RevOK == pc \in Imports /\ ~update => newRev = lock

\* The lock file is as it was read unless the run updates, and torn only between
\* the two halves of a write or behind a run that died there.
DiskOK ==
    /\ DOMAIN disk = {"target", "patches", "lock"}
    /\ ~args.update /\ lock # None => disk.lock = lock
    /\ disk.lock = Torn => pc \in {"idle", "load", "dump", "failed"}

IInv == RunOK /\ NeverTorn /\ RevOK /\ DiskOK

-----------------------------------------------------------------------------
\* No override reaches the revision.
LEMMA UpIsBranch ==
    ASSUME NEW v
    PROVE  UpstreamRev(ApplyOverride([rev |-> Branch, ref |-> Branch], v)) = Branch
  BY DEF UpstreamRev, ApplyOverride

LEMMA InitIInv == Init => IInv
  BY VendorAssumption DEF Init, Empty, IInv, RunOK, NeverTorn, RevOK, DiskOK, Settled, Imports

\* A statement that leaves the lock file and the tool's memory of it alone and
\* goes on within the import.
LEMMA WithinImport ==
    ASSUME IInv, pc \in {"rmtree", "copy", "patch"},
           UNCHANGED <<args, update, lock, up, newRev>>,
           DOMAIN disk' = {"target", "patches", "lock"}, disk'.lock = disk.lock,
           \/ pc' \in {"copy", "patch", "failed", "add", "done"}
           \/ pc' = "lock" /\ update
    PROVE  IInv'
  BY DEF IInv, RunOK, NeverTorn, RevOK, DiskOK, Settled, Imports

\* Every action keeps the invariant.
LEMMA NextIInv == IInv /\ [Next]_vars => IInv'
<1> SUFFICES ASSUME IInv, [Next]_vars PROVE IInv'
  OBVIOUS
<1> USE DEF IInv, mem
<1>1. CASE Start
  BY <1>1, VendorAssumption DEF Start, RunOK, NeverTorn, RevOK, DiskOK, Settled, Imports
<1>2. CASE Load
  <2>1. /\ pc = "load" /\ disk.lock # Torn /\ lock' = disk.lock /\ up' = Branch
        /\ pc' = "clean" /\ UNCHANGED <<disk, args, update, newRev>>
    BY <1>2, UpIsBranch DEF Load
  <2> QED  BY <2>1, VendorAssumption DEF RunOK, NeverTorn, RevOK, DiskOK, Settled, Imports
<1>3. CASE CheckClean
  BY <1>3 DEF CheckClean, RunOK, NeverTorn, RevOK, DiskOK, Settled, Imports
<1>4. CASE Settle
  BY <1>4 DEF Settle, RunOK, NeverTorn, RevOK, DiskOK, Settled, Imports
<1>5. CASE UnlinkPatch
  <2>1. DOMAIN disk' = {"target", "patches", "lock"} /\ disk'.lock = disk.lock
    BY <1>5 DEF UnlinkPatch, DiskOK
  <2> QED  BY <1>5, <2>1 DEF UnlinkPatch, RunOK, NeverTorn, RevOK, DiskOK, Settled, Imports
<1>6. CASE ExportPatches
  <2>1. DOMAIN disk' = {"target", "patches", "lock"} /\ disk'.lock = disk.lock
    BY <1>6 DEF ExportPatches, DiskOK
  <2> QED  BY <1>6, <2>1 DEF ExportPatches, RunOK, NeverTorn, RevOK, DiskOK, Settled, Imports
<1>7. CASE Clone
  <2>1. newRev' \in Revs \/ newRev' = up
    BY <1>7 DEF Clone
  <2> QED  BY <1>7, <2>1, VendorAssumption
           DEF Clone, RunOK, NeverTorn, RevOK, DiskOK, Settled, Imports
<1>8. CASE CheckRev
  BY <1>8 DEF CheckRev, RunOK, NeverTorn, RevOK, DiskOK, Settled, Imports
<1>9. CASE RemoveTarget
  <2>1. DOMAIN disk' = {"target", "patches", "lock"} /\ disk'.lock = disk.lock
    BY <1>9 DEF RemoveTarget, DiskOK
  <2>2. \/ pc' \in {"copy", "add", "done"}
        \/ pc' = "lock" /\ update
    BY <1>9 DEF RemoveTarget, AfterImport
  <2> QED  BY <1>9, <2>1, <2>2, WithinImport DEF RemoveTarget
<1>10. CASE CopyItem
  <2>1. DOMAIN disk' = {"target", "patches", "lock"} /\ disk'.lock = disk.lock
    BY <1>10 DEF CopyItem, DiskOK
  <2> QED  BY <1>10, <2>1, WithinImport DEF CopyItem
<1>11. CASE CopyBreaks
  <2>1. DOMAIN disk' = {"target", "patches", "lock"} /\ disk'.lock = disk.lock
    BY <1>11 DEF CopyBreaks, DiskOK
  <2> QED  BY <1>11, <2>1, WithinImport DEF CopyBreaks
<1>12. CASE ApplyPatch
  <2>1. DOMAIN disk' = {"target", "patches", "lock"} /\ disk'.lock = disk.lock
    BY <1>12 DEF ApplyPatch, DiskOK
  <2> QED  BY <1>12, <2>1, WithinImport DEF ApplyPatch
<1>13. CASE NextItem
  <2>1. \/ pc' \in {"copy", "add", "done"}
        \/ pc' = "lock" /\ update
    BY <1>13 DEF NextItem, AfterImport
  <2> QED  BY <1>13, <2>1, WithinImport DEF NextItem, DiskOK
<1>14. CASE OpenLock
  <2>1. DOMAIN disk' = {"target", "patches", "lock"} /\ disk'.lock = Torn
    BY <1>14 DEF OpenLock, DiskOK
  <2> QED  BY <1>14, <2>1 DEF OpenLock, RunOK, NeverTorn, RevOK, DiskOK, Settled, Imports
<1>15. CASE DumpLock
  <2>1. DOMAIN disk' = {"target", "patches", "lock"} /\ disk'.lock = newRev
    BY <1>15 DEF DumpLock, DiskOK
  <2> QED  BY <1>15, <2>1 DEF DumpLock, RunOK, NeverTorn, RevOK, DiskOK, Settled, Imports
<1>16. CASE Add
  BY <1>16 DEF Add, RunOK, NeverTorn, RevOK, DiskOK, Settled, Imports
<1>17. CASE Commit
  BY <1>17 DEF Commit, RunOK, NeverTorn, RevOK, DiskOK, Settled, Imports
<1>18. CASE Abort
  BY <1>18 DEF Abort, RunOK, NeverTorn, RevOK, DiskOK, Settled, Imports
<1>19. CASE Return
  BY <1>19, VendorAssumption DEF Return, RunOK, NeverTorn, RevOK, DiskOK, Settled, Imports
<1>20. CASE UserEdits \/ UserStages \/ UserResets
  <2>1. pc = "idle" /\ UNCHANGED <<pc, args, update, lock, up, newRev>>
    BY <1>20 DEF UserEdits, UserStages, UserResets, UserActs
  <2>2. DOMAIN disk' = {"target", "patches", "lock"}
    <3>1. CASE UserEdits
      BY <3>1 DEF UserEdits, DiskOK
    <3>2. CASE UserStages
      BY <3>2 DEF UserStages, DiskOK
    <3>3. CASE UserResets
      BY <3>3 DEF UserResets
    <3> QED  BY <1>20, <3>1, <3>2, <3>3
  <2> QED  BY <2>1, <2>2 DEF RunOK, NeverTorn, RevOK, DiskOK, Settled, Imports
<1>21. CASE UNCHANGED vars
  BY <1>21 DEF vars, RunOK, NeverTorn, RevOK, DiskOK
<1> QED
  BY <1>1, <1>2, <1>3, <1>4, <1>5, <1>6, <1>7, <1>8, <1>9, <1>10, <1>11, <1>12, <1>13,
     <1>14, <1>15, <1>16, <1>17, <1>18, <1>19, <1>20, <1>21 DEF Next, Tool

\* A run that was not asked to update leaves the lock file as it is and imports
\* the revision in it, and no run goes on under a torn lock (util/vendor.py, main
\* from the reading of the lock file to its writing).
THEOREM NothingSilent == Spec => []NoSilentUpdate
<1>1. IInv => NoSilentUpdate
  BY DEF IInv, RunOK, RevOK, DiskOK, NoSilentUpdate, Settled, Imports
<1> QED  BY <1>1, InitIInv, NextIInv, PTL DEF Spec
-----------------------------------------------------------------------------
(* What a run leaves behind *)

\* The three records of the repository.
Content == {None, Partial} \cup [rev : Revs, applied : SUBSET Patches]
Tree == [target  : [Names -> Content],
         patches : [Names -> SUBSET Patches],
         lock    : Revs \cup {None, Branch, Torn}]

TypeOK ==
    /\ desc \in Descs
    /\ disk \in Tree /\ index \in Tree /\ head \in Tree
    /\ lock \in Revs \cup {None, Branch}
    /\ up \in Revs \cup {Branch}
    /\ newRev \in Revs \cup {None}
    /\ pending \in SUBSET Patches

\* What the statements before have established about the run.
KnownOK ==
    /\ pc \in {"check"} \cup Imports => newRev \in Revs
    /\ pc \in Settled /\ ~update => lock # None /\ ~args.update
    /\ pc \in {"add", "commit", "done"} /\ update => disk.lock = newRev
    /\ pc = "unlink" => args.refresh
    /\ pc \in {"add", "commit"} => args.commit

\* One item of a mapping.
Item == [name : Names, file : BOOLEAN, dir : BOOLEAN, escapes : BOOLEAN]

\* The items still to import are the last ones of the mapping.
Done == Len(Items(desc)) - Len(todo)
TodoOK ==
    pc \in {"copy", "patch"} =>
        /\ todo \in Seq(Item) /\ todo # <<>>
        /\ Len(todo) <= Len(Items(desc))
        /\ \A i \in 1..Len(todo) : todo[i] = Items(desc)[Done + i]

\* Nothing that is still to come writes to destination n.
Finished(n) == \A i \in 1..Len(todo) : todo[i].name # n

\* What no item still writes to is as a complete import leaves it, and the item
\* in work has the patches that are no longer pending.
ItemsOK ==
    /\ pc \in {"copy", "patch"} =>
          \A n \in UsedNames :
             Finished(n) => disk.target[n] = Import(newRev, disk.patches)[n]
    /\ pc = "patch" =>
          LET it == todo[1]
              ps == IF it.dir THEN disk.patches[it.name] ELSE {}
          IN  /\ pending \subseteq ps
              /\ disk.target[it.name] = [rev |-> newRev, applied |-> ps \ pending]
    /\ pc \in {"lock", "dump", "add", "commit", "done"} => Imported(disk, newRev)

\* What git has staged of the patches a commit will hold lies in the directory,
\* and behind the staging the rest of the commit is what lies on disk.
StagedOK ==
    /\ pc \in {"settle"} \cup Settled /\ args.commit /\ ~args.refresh =>
          \A n \in Names : index.patches[n] \subseteq disk.patches[n]
    /\ pc = "commit" =>
          /\ index.target = disk.target /\ index.lock = disk.lock
          /\ args.refresh => index.patches = disk.patches

ImportInv == IInv /\ TypeOK /\ KnownOK /\ TodoOK /\ ItemsOK /\ StagedOK

-----------------------------------------------------------------------------
(* The mapping and its items *)

LEMMA ItemsTyped == desc \in Descs => Items(desc) \in Seq(Item)
<1> SUFFICES ASSUME desc \in Descs PROVE Items(desc) \in Seq(Item)
  OBVIOUS
<1>1. /\ desc.items \in Seq(Item) /\ desc.patchDir \in BOOLEAN /\ Root \in Names
  BY VendorAssumption DEF Item
<1>2. [name |-> Root, file |-> FALSE, dir |-> desc.patchDir, escapes |-> FALSE] \in Item
  BY <1>1 DEF Item
<1> QED  BY <1>1, <1>2 DEF Items

LEMMA UsedAreNames == desc \in Descs => UsedNames \subseteq Names
<1> SUFFICES ASSUME desc \in Descs, NEW i \in DOMAIN Items(desc)
             PROVE  Items(desc)[i].name \in Names
  BY DEF UsedNames
<1>1. Items(desc)[i] \in Item
  BY ItemsTyped
<1> QED  BY <1>1 DEF Item

\* An item behind which none writes to its destination is the last for it.
LEMMA LastIs ==
    ASSUME NEW n, NEW i \in DOMAIN Items(desc), IsLastFor(n, i), desc \in Descs
    PROVE  LastItem(n) = Items(desc)[i]
<1> DEFINE k == CHOOSE j \in DOMAIN Items(desc) : IsLastFor(n, j)
<1>1. k \in DOMAIN Items(desc) /\ IsLastFor(n, k)
  OBVIOUS
<1>2. i \in Nat /\ k \in Nat
  BY <1>1, ItemsTyped
<1>3. ~(i > k) /\ ~(k > i)
  BY <1>1 DEF IsLastFor
<1>4. i = k
  BY <1>2, <1>3
<1> QED  BY <1>4 DEF LastItem

\* What an import leaves at destination n.
ImportAt(r, ps, n) == [rev |-> r, applied |-> IF LastItem(n).dir THEN ps[n] ELSE {}]

LEMMA ImportIs ==
    ASSUME NEW r, NEW ps, NEW n \in UsedNames
    PROVE  Import(r, ps)[n] = ImportAt(r, ps, n)
  BY DEF Import, ImportAt

\* The description never changes.
LEMMA SameDescription == [Next]_vars => desc' = desc
  BY DEF Next, Tool, vars, Start, Load, CheckClean, Settle, UnlinkPatch, ExportPatches,
         Clone, CheckRev, RemoveTarget, CopyItem, CopyBreaks, ApplyPatch, NextItem,
         OpenLock, DumpLock, Add, Commit, Abort, Return, UserEdits, UserStages, UserResets

LEMMA SameItems ==
    ASSUME desc' = desc
    PROVE  /\ Items(desc)' = Items(desc) /\ UsedNames' = UsedNames
           /\ \A n : LastItem(n)' = LastItem(n)
  BY DEF UsedNames, LastItem, IsLastFor

-----------------------------------------------------------------------------
(* The three records keep their shape *)

LEMMA TreeParts ==
    ASSUME NEW t \in Tree
    PROVE  /\ t.target \in [Names -> Content]
           /\ t.patches \in [Names -> SUBSET Patches]
           /\ t.lock \in Revs \cup {None, Branch, Torn}
  BY DEF Tree

LEMMA NewTarget ==
    ASSUME NEW t \in Tree, NEW n \in Names, NEW c \in Content
    PROVE  /\ [t EXCEPT !.target[n] = c] \in Tree
           /\ [t EXCEPT !.target[n] = c].target = [t.target EXCEPT ![n] = c]
           /\ [t EXCEPT !.target[n] = c].patches = t.patches
           /\ [t EXCEPT !.target[n] = c].lock = t.lock
  BY DEF Tree

LEMMA NewPatches ==
    ASSUME NEW t \in Tree, NEW n \in Names, NEW ps \in SUBSET Patches
    PROVE  /\ [t EXCEPT !.patches[n] = ps] \in Tree
           /\ [t EXCEPT !.patches[n] = ps].target = t.target
           /\ [t EXCEPT !.patches[n] = ps].lock = t.lock
  BY DEF Tree

LEMMA NewLock ==
    ASSUME NEW t \in Tree, NEW l \in Revs \cup {None, Branch, Torn}
    PROVE  /\ [t EXCEPT !.lock = l] \in Tree
           /\ [t EXCEPT !.lock = l].target = t.target
           /\ [t EXCEPT !.lock = l].patches = t.patches
           /\ [t EXCEPT !.lock = l].lock = l
  BY DEF Tree

\* The item in work.
LEMMA InWork ==
    ASSUME ImportInv, pc \in {"copy", "patch"}
    PROVE  /\ Head(todo) = todo[1] /\ todo[1] \in Item
           /\ todo[1] = Items(desc)[Done + 1]
           /\ Done + 1 \in DOMAIN Items(desc)
           /\ todo[1].name \in UsedNames /\ todo[1].name \in Names
           /\ Done \in Nat /\ Len(todo) \in Nat /\ Len(todo) >= 1
           /\ Done + Len(todo) = Len(Items(desc))
           /\ todo \in Seq(Item)
<1>1. /\ Items(desc) \in Seq(Item) /\ desc \in Descs
      /\ todo \in Seq(Item) /\ todo # <<>>
      /\ Len(todo) <= Len(Items(desc))
      /\ \A i \in 1..Len(todo) : todo[i] = Items(desc)[Done + i]
  BY ItemsTyped DEF ImportInv, TypeOK, TodoOK
<1>2. Len(Items(desc)) \in Nat /\ DOMAIN Items(desc) = 1..Len(Items(desc))
  BY <1>1
<1>4. Len(todo) \in Nat /\ Len(todo) # 0 /\ Head(todo) = todo[1]
  BY <1>1, EmptySeq
<1>5. /\ Done \in Nat /\ Done + 1 \in 1..Len(Items(desc)) /\ 1 \in 1..Len(todo)
      /\ Done + Len(todo) = Len(Items(desc))
  BY <1>1, <1>2, <1>4 DEF Done
<1>6. todo[1] = Items(desc)[Done + 1] /\ Items(desc)[Done + 1] \in Item
  BY <1>1, <1>2, <1>5
<1>7. todo[1].name \in UsedNames /\ todo[1].name \in Names
  BY <1>1, <1>2, <1>5, <1>6, UsedAreNames DEF UsedNames
<1>8. todo[1] \in Item /\ Len(todo) >= 1
  BY <1>4, <1>6
<1> QED  BY <1>1, <1>2, <1>4, <1>5, <1>6, <1>7, <1>8

-----------------------------------------------------------------------------
(* Every statement keeps the invariant, one part of it after the other *)

LEMMA EmptyIsTree == Empty \in Tree
  BY DEF Empty, Tree, Content

LEMMA InitImportInv == Init => ImportInv
<1> SUFFICES ASSUME Init PROVE ImportInv
  OBVIOUS
<1>1. IInv
  BY InitIInv
<1>2. TypeOK
  BY EmptyIsTree DEF Init, TypeOK
<1>3. KnownOK /\ TodoOK /\ ItemsOK /\ StagedOK
  BY DEF Init, KnownOK, TodoOK, ItemsOK, StagedOK, Imports, Settled
<1> QED  BY <1>1, <1>2, <1>3 DEF ImportInv

\* The removal of the old import.
LEMMA Removed ==
    ASSUME disk \in Tree, NEW kept,
           disk' = [disk EXCEPT !.target =
                      [n \in Names |-> IF n \in UsedNames \ kept THEN None ELSE @[n]]]
    PROVE  disk' \in Tree /\ disk'.patches = disk.patches /\ disk'.lock = disk.lock
<1>1. disk.target \in [Names -> Content] /\ None \in Content
  BY TreeParts DEF Content
<1> DEFINE f == [n \in Names |-> IF n \in UsedNames \ kept THEN None ELSE disk.target[n]]
<1>2. f \in [Names -> Content]
  BY <1>1
<1>3. disk' = [disk EXCEPT !.target = f]
  OBVIOUS
<1> HIDE DEF f
<1> QED  BY <1>2, <1>3 DEF Tree

\* A copied item holds the revision and no patch yet.
LEMMA Copied ==
    ASSUME ImportInv, CopyItem
    PROVE  /\ [rev |-> newRev, applied |-> {}] \in Content
           /\ disk' \in Tree
           /\ disk'.target = [disk.target EXCEPT ![todo[1].name] =
                                 [rev |-> newRev, applied |-> {}]]
           /\ disk'.patches = disk.patches /\ disk'.lock = disk.lock
           /\ pending' = IF todo[1].dir THEN disk.patches[todo[1].name] ELSE {}
           /\ pending' \in SUBSET Patches
<1>1. pc = "copy" /\ disk \in Tree
  BY DEF CopyItem, ImportInv, TypeOK
<1>2. newRev \in Revs
  BY <1>1 DEF ImportInv, KnownOK, Imports
<1>3. Head(todo) = todo[1] /\ todo[1].name \in Names
  BY <1>1, InWork
<1>4. [rev |-> newRev, applied |-> {}] \in Content
  BY <1>2 DEF Content
<1>5. disk' = [disk EXCEPT !.target[todo[1].name] = [rev |-> newRev, applied |-> {}]]
  BY <1>3 DEF CopyItem
<1>6. pending' = IF todo[1].dir THEN disk.patches[todo[1].name] ELSE {}
  BY <1>3 DEF CopyItem
<1>7. pending' \in SUBSET Patches
  BY <1>1, <1>3, <1>6, TreeParts
<1> QED  BY <1>1, <1>3, <1>4, <1>5, <1>6, <1>7, NewTarget

LEMMA CopyBroken ==
    ASSUME ImportInv, CopyBreaks
    PROVE  /\ disk' \in Tree
           /\ disk'.patches = disk.patches /\ disk'.lock = disk.lock
<1>1. pc = "copy" /\ disk \in Tree
  BY DEF CopyBreaks, ImportInv, TypeOK
<1>2. Head(todo) = todo[1] /\ todo[1].name \in Names /\ Partial \in Content
  BY <1>1, InWork DEF Content
<1>3. disk' = [disk EXCEPT !.target[todo[1].name] = Partial]
  BY <1>2 DEF CopyBreaks
<1> QED  BY <1>1, <1>2, <1>3, NewTarget

\* One patch more is applied to the item in work, and no longer pending.
LEMMA Patched ==
    ASSUME ImportInv, ApplyPatch
    PROVE  LET it == todo[1]
               ps == IF it.dir THEN disk.patches[it.name] ELSE {}
           IN  /\ disk' \in Tree
               /\ disk'.target = [disk.target EXCEPT ![it.name] =
                                     [rev |-> newRev, applied |-> ps \ pending']]
               /\ disk'.patches = disk.patches /\ disk'.lock = disk.lock
               /\ pending' \subseteq ps
               /\ pending' \in SUBSET Patches
<1> DEFINE it == todo[1]
           ps == IF it.dir THEN disk.patches[it.name] ELSE {}
<1>1. pc = "patch" /\ disk \in Tree /\ pending \in SUBSET Patches
  BY DEF ApplyPatch, ImportInv, TypeOK
<1>2. Head(todo) = it /\ it.name \in Names
  BY <1>1, InWork
<1>3. newRev \in Revs
  BY <1>1 DEF ImportInv, KnownOK, Imports
<1>4. pending \subseteq ps /\ disk.target[it.name] = [rev |-> newRev, applied |-> ps \ pending]
  BY <1>1 DEF ImportInv, ItemsOK
<1>5. ps \in SUBSET Patches
  BY <1>1, <1>2, TreeParts
<1>6. PICK p \in pending :
         /\ disk' = [disk EXCEPT !.target[Head(todo).name].applied = @ \cup {p}]
         /\ pending' = pending \ {p}
  BY DEF ApplyPatch
<1> HIDE DEF ps, it
<1>7. (ps \ pending) \cup {p} = ps \ pending'
  BY <1>4, <1>6
<1>8. pending' \subseteq ps /\ pending' \in SUBSET Patches
  BY <1>1, <1>4, <1>6
<1> DEFINE c == [rev |-> newRev, applied |-> ps \ pending']
<1> DEFINE u == [disk.target[it.name] EXCEPT !.applied = disk.target[it.name].applied \cup {p}]
<1>9. disk' = [disk EXCEPT !.target = [disk.target EXCEPT ![it.name] = u]]
  BY <1>2, <1>6
<1>10. u = c
  BY <1>4, <1>7
<1> HIDE DEF u
<1>11. disk' = [disk EXCEPT !.target[it.name] = c]
  BY <1>9, <1>10
<1>12. c \in Content
  BY <1>3, <1>5 DEF Content
<1> HIDE DEF c
<1>13. /\ disk' \in Tree /\ disk'.target = [disk.target EXCEPT ![it.name] = c]
       /\ disk'.patches = disk.patches /\ disk'.lock = disk.lock
  BY <1>1, <1>2, <1>11, <1>12, NewTarget
<1> QED  BY <1>8, <1>13 DEF c, it, ps

\* The variables keep their types.
LEMMA TypeStep == ImportInv /\ [Next]_vars => TypeOK'
<1> SUFFICES ASSUME ImportInv, [Next]_vars PROVE TypeOK'
  OBVIOUS
<1> USE DEF mem
<1>a. /\ desc \in Descs /\ disk \in Tree /\ index \in Tree /\ head \in Tree
      /\ lock \in Revs \cup {None, Branch} /\ up \in Revs \cup {Branch}
      /\ newRev \in Revs \cup {None} /\ pending \in SUBSET Patches
  BY DEF ImportInv, TypeOK
<1>b. desc' = desc
  BY SameDescription
<1>c. /\ disk.target \in [Names -> Content] /\ disk.patches \in [Names -> SUBSET Patches]
      /\ disk.lock \in Revs \cup {None, Branch, Torn}
      /\ index.patches \in [Names -> SUBSET Patches]
  BY <1>a, TreeParts
<1>1. CASE Start
  BY <1>1, <1>a, <1>b DEF Start, TypeOK
<1>2. CASE Load
  <2>1. up' = Branch /\ UNCHANGED <<disk, index, head, newRev, pending>>
        /\ lock' \in Revs \cup {None, Branch}
    BY <1>2, <1>c, UpIsBranch DEF Load
  <2> QED  BY <2>1, <1>a, <1>b DEF TypeOK
<1>3. CASE CheckClean \/ CheckRev \/ NextItem \/ Abort
  BY <1>3, <1>a, <1>b DEF CheckClean, CheckRev, NextItem, Abort, TypeOK
<1>4. CASE Settle
  BY <1>4, <1>a, <1>b DEF Settle, TypeOK
<1>5. CASE UnlinkPatch
  <2>1. PICK p : disk' = [disk EXCEPT !.patches[Root] = disk.patches[Root] \ {p}]
    BY <1>5 DEF UnlinkPatch
  <2>2. Root \in Names /\ disk.patches[Root] \ {p} \in SUBSET Patches
    BY <1>c, VendorAssumption
  <2>3. disk' \in Tree
    BY <2>1, <2>2, <1>a, NewPatches
  <2> QED  BY <1>5, <2>3, <1>a, <1>b DEF UnlinkPatch, TypeOK
<1>6. CASE ExportPatches
  <2>1. PICK ps \in SUBSET Patches : disk' = [disk EXCEPT !.patches[Root] = ps]
    BY <1>6 DEF ExportPatches
  <2>2. disk' \in Tree
    BY <2>1, <1>a, NewPatches, VendorAssumption
  <2> QED  BY <1>6, <2>2, <1>a, <1>b DEF ExportPatches, TypeOK
<1>7. CASE Clone
  <2>1. newRev' \in Revs
    BY <1>7, <1>a DEF Clone
  <2> QED  BY <1>7, <2>1, <1>a, <1>b DEF Clone, TypeOK
<1>8. CASE RemoveTarget
  <2>1. disk' \in Tree
    BY <1>8, <1>a, Removed DEF RemoveTarget
  <2> QED  BY <1>8, <2>1, <1>a, <1>b DEF RemoveTarget, TypeOK
<1>9. CASE CopyItem
  <2>1. disk' \in Tree /\ pending' \in SUBSET Patches
    BY <1>9, Copied
  <2> QED  BY <1>9, <2>1, <1>a, <1>b DEF CopyItem, TypeOK
<1>10. CASE CopyBreaks
  BY <1>10, CopyBroken, <1>a, <1>b DEF CopyBreaks, TypeOK
<1>11. CASE ApplyPatch
  <2>1. disk' \in Tree /\ pending' \in SUBSET Patches
    BY <1>11, Patched
  <2> QED  BY <1>11, <2>1, <1>a, <1>b DEF ApplyPatch, TypeOK
<1>12. CASE OpenLock
  <2>1. disk' \in Tree
    BY <1>12, <1>a, NewLock DEF OpenLock
  <2> QED  BY <1>12, <2>1, <1>a, <1>b DEF OpenLock, TypeOK
<1>13. CASE DumpLock
  <2>1. disk' \in Tree
    BY <1>13, <1>a, NewLock DEF DumpLock
  <2> QED  BY <1>13, <2>1, <1>a, <1>b DEF DumpLock, TypeOK
<1>14. CASE Add
  <2>1. index' \in Tree
    BY <1>14, <1>c DEF Add, Tree
  <2> QED  BY <1>14, <2>1, <1>a, <1>b DEF Add, TypeOK
<1>15. CASE Commit
  BY <1>15, <1>a, <1>b DEF Commit, TypeOK
<1>16. CASE Return
  BY <1>16, <1>a, <1>b DEF Return, TypeOK
<1>17. CASE UserEdits
  <2>1. disk' \in Tree
    <3>1. CASE \E n \in UsedNames, ps \in SUBSET Patches :
                  disk' = [disk EXCEPT !.patches[n] = ps]
      BY <3>1, <1>a, NewPatches, UsedAreNames
    <3>2. CASE \E n \in UsedNames : disk' = [disk EXCEPT !.target[n] = Partial]
      <4>1. Partial \in Content
        BY DEF Content
      <4> QED  BY <3>2, <4>1, <1>a, NewTarget, UsedAreNames
    <3>3. CASE \E l \in {None, Branch} : disk' = [disk EXCEPT !.lock = l]
      BY <3>3, <1>a, NewLock
    <3> QED  BY <1>17, <3>1, <3>2, <3>3 DEF UserEdits
  <2> QED  BY <1>17, <2>1, <1>a, <1>b DEF UserEdits, TypeOK
<1>18. CASE UserStages
  BY <1>18, <1>a, <1>b DEF UserStages, TypeOK
<1>19. CASE UserResets
  <2>1. /\ head.target \in [Names -> Content] /\ head.patches \in [Names -> SUBSET Patches]
        /\ head.lock \in Revs \cup {None, Branch, Torn}
    BY <1>a, TreeParts
  <2>2. disk' \in Tree
    BY <1>19, <2>1, <1>c DEF UserResets, Tree
  <2> QED  BY <1>19, <2>2, <1>a, <1>b DEF UserResets, TypeOK
<1>20. CASE UNCHANGED vars
  BY <1>20, <1>a DEF vars, TypeOK
<1> QED
  BY <1>1, <1>2, <1>3, <1>4, <1>5, <1>6, <1>7, <1>8, <1>9, <1>10, <1>11, <1>12, <1>13,
     <1>14, <1>15, <1>16, <1>17, <1>18, <1>19, <1>20 DEF Next, Tool

\* Where the run may go from here.
LEMMA KnownStep == ImportInv /\ [Next]_vars => KnownOK'
<1> SUFFICES ASSUME ImportInv, [Next]_vars PROVE KnownOK'
  OBVIOUS
<1> USE DEF mem, Imports, Settled
<1>a. KnownOK /\ RunOK /\ RevOK
  BY DEF ImportInv, IInv
<1>b. /\ disk \in Tree /\ lock \in Revs \cup {None, Branch} /\ up \in Revs \cup {Branch}
      /\ newRev \in Revs \cup {None}
  BY DEF ImportInv, TypeOK
<1>1. CASE Start \/ Load \/ CheckClean \/ Abort \/ Return \/ CopyBreaks
  BY <1>1 DEF Start, Load, CheckClean, Abort, Return, CopyBreaks, KnownOK
<1>2. CASE Settle
  BY <1>2, <1>a DEF Settle, KnownOK, RunOK
<1>3. CASE UnlinkPatch \/ ExportPatches
  BY <1>3, <1>a DEF UnlinkPatch, ExportPatches, KnownOK
<1>4. CASE Clone
  <2>1. newRev' \in Revs
    BY <1>4, <1>b DEF Clone
  <2> QED  BY <1>4, <2>1, <1>a DEF Clone, KnownOK
<1>5. CASE CheckRev
  BY <1>5, <1>a DEF CheckRev, KnownOK
<1>6. CASE RemoveTarget \/ NextItem
  <2>1. /\ pc' \in {"copy", "lock", "add", "done"}
        /\ pc' = "add" => ~update /\ args.commit
        /\ pc' = "done" => ~update
    BY <1>6 DEF RemoveTarget, NextItem, AfterImport
  <2>2. pc \in {"rmtree", "patch"} /\ UNCHANGED <<args, update, lock, newRev>>
    BY <1>6 DEF RemoveTarget, NextItem
  <2> QED  BY <2>1, <2>2, <1>a DEF KnownOK
<1>7. CASE CopyItem \/ ApplyPatch
  BY <1>7, <1>a DEF CopyItem, ApplyPatch, KnownOK
<1>8. CASE OpenLock
  BY <1>8, <1>a DEF OpenLock, KnownOK
<1>9. CASE DumpLock
  <2>1. disk'.lock = newRev
    BY <1>9, <1>b, NewLock DEF DumpLock
  <2> QED  BY <1>9, <2>1, <1>a DEF DumpLock, KnownOK
<1>10. CASE Add \/ Commit
  BY <1>10, <1>a DEF Add, Commit, KnownOK
<1>11. CASE UserEdits \/ UserStages \/ UserResets
  BY <1>11 DEF UserEdits, UserStages, UserResets, UserActs, KnownOK
<1>12. CASE UNCHANGED vars
  BY <1>12, <1>a DEF vars, KnownOK
<1> QED
  BY <1>1, <1>2, <1>3, <1>4, <1>5, <1>6, <1>7, <1>8, <1>9, <1>10, <1>11, <1>12
     DEF Next, Tool

\* Statements of main that are not about single items.
LEMMA OutsideTheLoop ==
    ASSUME [Next]_vars,
           ~(RemoveTarget \/ CopyItem \/ ApplyPatch \/ NextItem \/ UNCHANGED vars)
    PROVE  pc' \notin {"copy", "patch"}
  BY DEF Next, Tool, Start, Load, CheckClean, Settle, UnlinkPatch, ExportPatches,
         Clone, CheckRev, CopyBreaks, OpenLock, DumpLock, Add, Commit, Abort, Return,
         UserEdits, UserStages, UserResets, UserActs

\* The items left are the last ones of the mapping.
LEMMA TodoStep == ImportInv /\ [Next]_vars => TodoOK'
<1> SUFFICES ASSUME ImportInv, [Next]_vars PROVE TodoOK'
  OBVIOUS
<1>a. TodoOK /\ desc \in Descs
  BY DEF ImportInv, TypeOK
<1>b. desc' = desc /\ Items(desc)' = Items(desc)
  BY SameDescription, SameItems
<1>1. CASE RemoveTarget
  <2> SUFFICES ASSUME pc' = "copy" \/ pc' = "patch"
               PROVE  TodoOK'
    BY DEF TodoOK
  <2> DEFINE s == Items(desc)
  <2>1. todo' = s /\ s # <<>>
    BY <1>1 DEF RemoveTarget, AfterImport
  <2>2. s \in Seq(Item) /\ Len(s) \in Nat
    BY <1>a, ItemsTyped
  <2>4. Done' = 0
    BY <2>1, <2>2, <1>b DEF Done
  <2>5. \A i \in 1..Len(s) : s[i] = s[0 + i]
    BY <2>2
  <2> HIDE DEF s
  <2>6. Items(desc)' = s /\ Len(todo)' = Len(s)
    BY <1>b, <2>1 DEF s
  <2> QED  BY <2>1, <2>2, <2>4, <2>5, <2>6 DEF TodoOK
<1>2. CASE CopyItem \/ ApplyPatch
  <2>1. UNCHANGED todo /\ pc \in {"copy", "patch"}
    BY <1>2 DEF CopyItem, ApplyPatch
  <2>2. UNCHANGED Done
    BY <2>1, <1>b DEF Done
  <2> QED  BY <2>1, <2>2, <1>a, <1>b DEF TodoOK
<1>3. CASE NextItem
  <2> SUFFICES ASSUME pc' = "copy" \/ pc' = "patch"
               PROVE  TodoOK'
    BY DEF TodoOK
  <2> DEFINE s == Items(desc)
  <2>1. pc = "patch" /\ todo' = Tail(todo) /\ Tail(todo) # <<>>
    BY <1>3 DEF NextItem, AfterImport
  <2>2. /\ todo \in Seq(Item) /\ todo # <<>> /\ Len(todo) <= Len(s) /\ Len(s) \in Nat
        /\ \A i \in 1..Len(todo) : todo[i] = s[Done + i]
        /\ Done \in Nat /\ Len(todo) \in Nat
    <3>1. s \in Seq(Item)
      BY <1>a, ItemsTyped
    <3> QED  BY <2>1, <3>1, <1>a, InWork DEF TodoOK
  <2>3. /\ Tail(todo) \in Seq(Item) /\ Len(Tail(todo)) = Len(todo) - 1
        /\ \A i \in 1..Len(todo) - 1 : Tail(todo)[i] = todo[i + 1]
    BY <2>2, HeadTailProperties
  <2> HIDE DEF s
  <2>4. Done' = Done + 1
    <3>1. Done = Len(s) - Len(todo)
      BY DEF Done, s
    <3>2. Done' = Len(s) - (Len(todo) - 1)
      BY <1>b, <2>1, <2>3 DEF Done, s
    <3> QED  BY <3>1, <3>2, <2>2
  <2>5. \A i \in 1..Len(Tail(todo)) : Tail(todo)[i] = s[(Done + 1) + i]
    <3> SUFFICES ASSUME NEW i \in 1..Len(todo) - 1
                 PROVE  todo[i + 1] = s[(Done + 1) + i]
      BY <2>3
    <3>1. i + 1 \in 1..Len(todo) /\ Done + (i + 1) = (Done + 1) + i
      BY <2>2
    <3> QED  BY <3>1, <2>2
  <2>6. Items(desc)' = s /\ Len(Tail(todo)) <= Len(s)
    BY <1>b, <2>2, <2>3 DEF s
  <2> QED  BY <2>1, <2>3, <2>4, <2>5, <2>6 DEF TodoOK
<1>4. CASE UNCHANGED vars
  BY <1>4, <1>a DEF vars, TodoOK, Done
<1>5. CASE ~(RemoveTarget \/ CopyItem \/ ApplyPatch \/ NextItem \/ UNCHANGED vars)
  BY <1>5, OutsideTheLoop DEF TodoOK
<1> QED  BY <1>1, <1>2, <1>3, <1>4, <1>5

\* What is finished stays as it is, and what is worked at becomes finished.
LEMMA ItemsStep == ImportInv /\ [Next]_vars => ItemsOK'
<1> SUFFICES ASSUME ImportInv, [Next]_vars PROVE ItemsOK'
  OBVIOUS
<1> USE DEF mem
<1>a. /\ ItemsOK /\ desc \in Descs /\ disk \in Tree
      /\ disk.target \in [Names -> Content]
  BY TreeParts DEF ImportInv, TypeOK
<1>b. desc' = desc /\ UsedNames' = UsedNames /\ (\A n : LastItem(n)' = LastItem(n))
  BY SameDescription, SameItems
<1>c. ASSUME NEW r, NEW ps, NEW n \in UsedNames
      PROVE  Import(r, ps)[n] = ImportAt(r, ps, n)
  BY ImportIs
<1>d. /\ \A n \in UsedNames : Import(newRev, disk.patches)[n] = ImportAt(newRev, disk.patches, n)
      /\ \A n \in UsedNames : Import(newRev, disk.patches)'[n] = ImportAt(newRev', disk'.patches, n)
  <2>1. \A n \in UsedNames' : Import(newRev, disk.patches)'[n] = ImportAt(newRev, disk.patches, n)'
    BY DEF Import, ImportAt
  <2>2. \A n \in UsedNames : ImportAt(newRev, disk.patches, n)' = ImportAt(newRev', disk'.patches, n)
    BY <1>b DEF ImportAt
  <2> QED  BY <1>b, <1>c, <2>1, <2>2
\* The whole invariant, with what an import leaves spelled out.
<1> DEFINE At(n)  == disk.target[n] = ImportAt(newRev, disk.patches, n)
           AtN(n) == disk'.target[n] = ImportAt(newRev', disk'.patches, n)
<1>e. /\ pc \in {"copy", "patch"} => \A n \in UsedNames : Finished(n) => At(n)
      /\ pc \in {"lock", "dump", "add", "commit", "done"} => \A n \in UsedNames : At(n)
  BY <1>a, <1>d DEF ItemsOK, Imported
<1>f. ASSUME pc' \in {"copy", "patch"} => \A n \in UsedNames : Finished(n)' => AtN(n),
             pc' = "patch" =>
                LET it == todo'[1]
                    ps == IF it.dir THEN disk'.patches[it.name] ELSE {}
                IN  /\ pending' \subseteq ps
                    /\ disk'.target[it.name] = [rev |-> newRev', applied |-> ps \ pending'],
             pc' \in {"lock", "dump", "add", "commit", "done"} => \A n \in UsedNames : AtN(n)
      PROVE  ItemsOK'
  BY <1>b, <1>d, <1>f DEF ItemsOK, Imported
<1> HIDE DEF At, AtN
<1>1. CASE RemoveTarget
  <2>1. todo' = Items(desc) /\ pc' # "patch" /\ (pc' # "copy" => Items(desc) = <<>>)
    BY <1>1 DEF RemoveTarget, AfterImport
  <2>2. \A n \in UsedNames : ~Finished(n)'
    <3> SUFFICES ASSUME NEW n \in UsedNames PROVE ~Finished(n)'
      OBVIOUS
    <3> PICK i \in DOMAIN Items(desc) : n = Items(desc)[i].name
      BY DEF UsedNames
    <3>1. i \in 1..Len(todo')
      BY <1>a, <2>1, ItemsTyped
    <3> QED  BY <2>1, <3>1 DEF Finished
  <2>3. pc' # "copy" => UsedNames = {}
    <3>1. Items(desc) = <<>> => DOMAIN Items(desc) = {}
      OBVIOUS
    <3> QED  BY <2>1, <3>1 DEF UsedNames
  <2> QED  BY <2>1, <2>2, <2>3, <1>f
<1>2. CASE CopyItem
  <2> DEFINE it == todo[1]
             c  == [rev |-> newRev, applied |-> {}]
  <2>1. /\ pc = "copy" /\ pc' = "patch" /\ UNCHANGED <<todo, newRev>>
        /\ disk'.target = [disk.target EXCEPT ![it.name] = c]
        /\ disk'.patches = disk.patches
        /\ pending' = IF it.dir THEN disk.patches[it.name] ELSE {}
    BY <1>2, Copied DEF CopyItem
  <2>2. it.name \in Names /\ 1 \in 1..Len(todo)
    BY <2>1, InWork
  <2>3. disk'.target[it.name] = c
    BY <1>a, <2>1, <2>2
  <2>4. ASSUME NEW n \in UsedNames, Finished(n)'
        PROVE  AtN(n)
    <3>1. Finished(n) /\ n # it.name
      BY <2>1, <2>2, <2>4 DEF Finished
    <3>2. disk'.target[n] = disk.target[n]
      BY <1>a, <2>1, <3>1
    <3> QED  BY <1>e, <2>1, <3>1, <3>2 DEF At, AtN
  <2>5. pending' \ pending' = {}
    OBVIOUS
  <2> HIDE DEF it
  <2> QED  BY <2>1, <2>3, <2>4, <2>5, <1>f DEF it
<1>3. CASE ApplyPatch
  <2> DEFINE it == todo[1]
             ps == IF it.dir THEN disk.patches[it.name] ELSE {}
  <2>1. /\ pc = "patch" /\ pc' = "patch" /\ UNCHANGED <<todo, newRev>>
        /\ disk'.target = [disk.target EXCEPT ![it.name] =
                              [rev |-> newRev, applied |-> ps \ pending']]
        /\ disk'.patches = disk.patches
        /\ pending' \subseteq ps
    BY <1>3, Patched DEF ApplyPatch
  <2>2. it.name \in Names /\ 1 \in 1..Len(todo)
    BY <2>1, InWork
  <2>3. disk'.target[it.name] = [rev |-> newRev, applied |-> ps \ pending']
    BY <1>a, <2>1, <2>2
  <2>4. ASSUME NEW n \in UsedNames, Finished(n)'
        PROVE  AtN(n)
    <3>1. Finished(n) /\ n # it.name
      BY <2>1, <2>2, <2>4 DEF Finished
    <3>2. disk'.target[n] = disk.target[n]
      BY <1>a, <2>1, <3>1
    <3> QED  BY <1>e, <2>1, <3>1, <3>2 DEF At, AtN
  <2> QED  BY <2>1, <2>3, <2>4, <1>f
<1>4. CASE NextItem
  <2> DEFINE it == todo[1]
  <2>1. /\ pc = "patch" /\ pending = {} /\ todo' = Tail(todo)
        /\ UNCHANGED <<disk, newRev, pending>>
        /\ pc' \in {"copy", "lock", "add", "done"}
        /\ pc' # "copy" => Tail(todo) = <<>>
    BY <1>4 DEF NextItem, AfterImport
  <2>2. /\ it \in Item /\ it = Items(desc)[Done + 1] /\ Done + 1 \in DOMAIN Items(desc)
        /\ Done \in Nat /\ Len(todo) \in Nat /\ Len(todo) >= 1
        /\ Done + Len(todo) = Len(Items(desc)) /\ todo \in Seq(Item)
    BY <2>1, InWork
  <2>3. /\ Tail(todo) \in Seq(Item) /\ Len(Tail(todo)) = Len(todo) - 1
        /\ \A i \in 1..Len(todo) - 1 : Tail(todo)[i] = todo[i + 1]
    <3>1. todo # <<>>
      BY <2>1 DEF ImportInv, TodoOK
    <3> QED  BY <2>2, <3>1, HeadTailProperties
  <2>4. disk.target[it.name] = [rev |-> newRev, applied |->
                                  IF it.dir THEN disk.patches[it.name] ELSE {}]
    BY <1>a, <2>1 DEF ItemsOK
  \* The item that was in work is the last for its destination if none is left.
  <2>5. ASSUME NEW n, n = it.name, Finished(n)'
        PROVE  AtN(n)
    <3>1. IsLastFor(it.name, Done + 1)
      <4> SUFFICES ASSUME NEW j \in DOMAIN Items(desc), j > Done + 1
                   PROVE  Items(desc)[j].name # it.name
        BY <2>2 DEF IsLastFor
      <4> DEFINE i == (j - Done) - 1
      <4>1. j \in Nat /\ j <= Len(Items(desc))
        BY <1>a, ItemsTyped
      <4>2. i \in 1..Len(todo) - 1 /\ Done + (i + 1) = j /\ i + 1 \in 1..Len(todo)
        BY <2>2, <4>1
      <4>3. Tail(todo)[i].name # it.name
        BY <2>1, <2>3, <2>5, <4>2 DEF Finished
      <4>4. todo[i + 1] = Items(desc)[Done + (i + 1)]
        BY <2>1, <4>2 DEF ImportInv, TodoOK
      <4> QED  BY <2>3, <4>2, <4>3, <4>4
    <3>2. LastItem(it.name) = it
      BY <1>a, <2>2, <3>1, LastIs
    <3> QED  BY <2>1, <2>4, <2>5, <3>2 DEF AtN, ImportAt
  <2>6. ASSUME NEW n \in UsedNames, Finished(n)'
        PROVE  AtN(n)
    <3>1. CASE n = it.name
      BY <2>5, <2>6, <3>1
    <3>2. CASE n # it.name
      <4>1. Finished(n)
        <5> SUFFICES ASSUME NEW i \in 1..Len(todo), i # 1
                     PROVE  todo[i].name # n
          BY <3>2 DEF Finished
        <5>1. i - 1 \in 1..Len(todo) - 1 /\ (i - 1) + 1 = i
          BY <2>2
        <5>2. Tail(todo)[i - 1].name # n
          BY <2>1, <2>3, <2>6, <5>1 DEF Finished
        <5> QED  BY <2>3, <5>1, <5>2
      <4> QED  BY <1>e, <2>1, <4>1 DEF At, AtN
    <3> QED  BY <3>1, <3>2
  <2>7. pc' # "copy" => \A n \in UsedNames : Finished(n)'
    BY <2>1, EmptySeq DEF Finished
  <2> QED  BY <2>1, <2>6, <2>7, <1>f
<1>5. CASE OpenLock \/ DumpLock
  <2>1. /\ pc \in {"lock", "dump"} /\ pc' \in {"dump", "add", "done"}
        /\ UNCHANGED newRev
        /\ disk'.target = disk.target /\ disk'.patches = disk.patches
    <3>1. CASE OpenLock
      BY <3>1, <1>a, NewLock DEF OpenLock
    <3>2. CASE DumpLock
      <4>1. newRev \in Revs \cup {None}
        BY DEF ImportInv, TypeOK
      <4> QED  BY <3>2, <4>1, <1>a, NewLock DEF DumpLock
    <3> QED  BY <1>5, <3>1, <3>2
  <2> QED  BY <2>1, <1>e, <1>f DEF At, AtN
<1>6. CASE Add \/ Commit
  <2>1. /\ pc \in {"add", "commit"} /\ pc' \in {"commit", "done"}
        /\ UNCHANGED <<disk, newRev>>
    BY <1>6 DEF Add, Commit
  <2> QED  BY <2>1, <1>e, <1>f DEF At, AtN
<1>7. CASE UNCHANGED vars
  <2>1. UNCHANGED <<pc, disk, newRev, todo, pending>>
    BY <1>7 DEF vars
  <2>2. \A n : Finished(n)' = Finished(n)
    BY <2>1 DEF Finished
  <2> QED  BY <1>a, <1>e, <2>1, <2>2, <1>f DEF At, AtN, ItemsOK
<1>8. CASE \/ Start \/ Load \/ CheckClean \/ Settle \/ UnlinkPatch \/ ExportPatches
           \/ Clone \/ CheckRev \/ CopyBreaks \/ Abort \/ Return
           \/ UserEdits \/ UserStages \/ UserResets
  <2>1. pc' \notin {"copy", "patch", "lock", "dump", "add", "commit", "done"}
    BY <1>8 DEF Start, Load, CheckClean, Settle, UnlinkPatch, ExportPatches, Clone,
                CheckRev, CopyBreaks, Abort, Return, UserEdits, UserStages, UserResets,
                UserActs
  <2> QED  BY <2>1, <1>f
<1> QED  BY <1>1, <1>2, <1>3, <1>4, <1>5, <1>6, <1>7, <1>8 DEF Next, Tool

\* The patches git has staged stay in the directory, and what is staged last is
\* what lies on disk.
LEMMA StagedStep == ImportInv /\ [Next]_vars => StagedOK'
<1> SUFFICES ASSUME ImportInv, [Next]_vars PROVE StagedOK'
  OBVIOUS
<1> USE DEF mem, Settled
<1>a. /\ StagedOK /\ KnownOK /\ disk \in Tree /\ newRev \in Revs \cup {None}
  BY DEF ImportInv, TypeOK
<1>1. CASE CheckClean
  BY <1>1 DEF CheckClean, CleanWorkdir, StagedOK
<1>2. CASE Settle
  BY <1>2, <1>a DEF Settle, StagedOK
<1>3. CASE UnlinkPatch \/ ExportPatches
  <2>1. pc = "unlink" /\ pc' # "commit" /\ UNCHANGED args
    BY <1>3 DEF UnlinkPatch, ExportPatches
  <2> QED  BY <2>1, <1>a DEF StagedOK, KnownOK
<1>4. CASE Clone \/ CheckRev \/ NextItem
  <2>1. /\ pc \in Settled /\ pc' # "commit" /\ UNCHANGED <<args, index, disk>>
    BY <1>4 DEF Clone, CheckRev, NextItem, AfterImport
  <2> QED  BY <2>1, <1>a DEF StagedOK
<1>5. CASE RemoveTarget \/ CopyItem \/ ApplyPatch \/ OpenLock \/ DumpLock
  <2>1. pc \in Settled /\ pc' # "commit" /\ UNCHANGED <<args, index>>
    BY <1>5 DEF RemoveTarget, AfterImport, CopyItem, ApplyPatch, OpenLock, DumpLock
  <2>2. disk'.patches = disk.patches
    <3>1. CASE RemoveTarget
      BY <3>1, <1>a, Removed DEF RemoveTarget
    <3>2. CASE CopyItem
      BY <3>2, Copied
    <3>3. CASE ApplyPatch
      BY <3>3, Patched
    <3>4. CASE OpenLock
      BY <3>4, <1>a, NewLock DEF OpenLock
    <3>5. CASE DumpLock
      BY <3>5, <1>a, NewLock DEF DumpLock
    <3> QED  BY <1>5, <3>1, <3>2, <3>3, <3>4, <3>5
  <2> QED  BY <2>1, <2>2, <1>a DEF StagedOK
<1>6. CASE Add
  <2>1. /\ pc = "add" /\ UNCHANGED <<disk, args>>
        /\ index'.target = disk.target /\ index'.lock = disk.lock
        /\ index'.patches = IF args.refresh THEN disk.patches ELSE index.patches
    BY <1>6 DEF Add
  <2> QED  BY <2>1, <1>a DEF StagedOK, KnownOK
<1>7. CASE Commit
  <2>1. pc = "commit" /\ pc' = "done" /\ UNCHANGED <<args, index, disk>>
    BY <1>7 DEF Commit
  <2> QED  BY <2>1, <1>a DEF StagedOK
<1>8. CASE UNCHANGED vars
  BY <1>8, <1>a DEF vars, StagedOK
<1>9. CASE Start \/ Load \/ CopyBreaks \/ Abort \/ Return \/ UserEdits \/ UserStages \/ UserResets
  <2>1. pc' \notin {"settle"} \cup Settled
    BY <1>9 DEF Start, Load, CopyBreaks, Abort, Return, UserEdits, UserStages, UserResets,
                UserActs
  <2> QED  BY <2>1 DEF StagedOK
<1> QED  BY <1>1, <1>2, <1>3, <1>4, <1>5, <1>6, <1>7, <1>8, <1>9 DEF Next, Tool

LEMMA NextImportInv == ImportInv /\ [Next]_vars => ImportInv'
  BY NextIInv, TypeStep, KnownStep, TodoStep, ItemsStep, StagedStep DEF ImportInv

LEMMA AlwaysImportInv == Spec => []ImportInv
  BY InitImportInv, NextImportInv, PTL DEF Spec

\* A run of vendor.py that ends well has imported the locked revision with the
\* patches of the directory, whatever lay there before (util/vendor.py, main and
\* Desc.import_from_upstream).
THEOREM ImportsTheLock == Spec => []LockedImport
<1>1. ImportInv => LockedImport
  <2> SUFFICES ASSUME ImportInv, pc = "done"
               PROVE  disk.lock \in Revs /\ Imported(disk, disk.lock)
    BY DEF LockedImport
  <2>1. newRev \in Revs /\ Imported(disk, newRev)
    BY DEF ImportInv, KnownOK, ItemsOK, Imports
  <2>2. disk.lock = newRev
    BY DEF ImportInv, IInv, KnownOK, RevOK, DiskOK, Imports, Settled
  <2> QED  BY <2>1, <2>2
<1> QED  BY <1>1, AlwaysImportInv, PTL

\* The lock file is written only behind the last item and its last patch
\* (util/vendor.py:726).
THEOREM LockIsWrittenLast == Spec => []LockGoesLast
<1>1. ImportInv => LockGoesLast
  BY DEF ImportInv, ItemsOK, LockGoesLast
<1> QED  BY <1>1, AlwaysImportInv, PTL

\* What vendor.py commits is the import of the lock file and the patches in the
\* commit, but for patches git does not track (util/vendor.py, git_add_commit and
\* git_is_clean_workdir).
THEOREM CommitsCanBeMadeAgain == Spec => CommitReproducible
<1> DEFINE Reproducible ==
             pc = "commit" /\ head' # head =>
               \A n \in UsedNames :
                  /\ head'.target[n].rev = head'.lock
                  /\ \E extra \in SUBSET (disk.patches[n] \ index.patches[n]) :
                        head'.target[n].applied =
                           Import(head'.lock,
                                  [k \in Names |-> head'.patches[k] \cup extra])[n].applied
<1>1. ImportInv /\ [Next]_vars => [Reproducible]_vars
  <2> SUFFICES ASSUME ImportInv, Next, pc = "commit", head' # head, NEW n \in UsedNames
               PROVE  /\ head'.target[n].rev = head'.lock
                      /\ \E extra \in SUBSET (disk.patches[n] \ index.patches[n]) :
                            head'.target[n].applied =
                               Import(head'.lock,
                                      [k \in Names |-> head'.patches[k] \cup extra])[n].applied
    BY DEF vars
  <2>1. head' = index
    BY DEF Next, Tool, Start, Load, CheckClean, Settle, UnlinkPatch, ExportPatches,
           Clone, CheckRev, RemoveTarget, CopyItem, CopyBreaks, ApplyPatch, NextItem,
           OpenLock, DumpLock, Add, Commit, Abort, Return, UserEdits, UserStages,
           UserResets, UserActs
  <2>2. /\ index.target = disk.target /\ index.lock = disk.lock
        /\ args.refresh => index.patches = disk.patches
        /\ ~args.refresh => \A k \in Names : index.patches[k] \subseteq disk.patches[k]
    BY DEF ImportInv, StagedOK, KnownOK, Settled
  <2>3. disk.lock = newRev /\ Imported(disk, newRev)
    BY DEF ImportInv, IInv, KnownOK, RevOK, DiskOK, ItemsOK, Imports, Settled
  <2>4. n \in Names
    BY UsedAreNames DEF ImportInv, TypeOK
  <2>5. disk.target[n] = ImportAt(newRev, disk.patches, n)
    BY <2>3, ImportIs DEF Imported
  <2> DEFINE extra == disk.patches[n] \ index.patches[n]
             f == [k \in Names |-> index.patches[k] \cup extra]
  <2>6. f[n] = disk.patches[n]
    <3>1. index.patches[n] \subseteq disk.patches[n]
      BY <2>2, <2>4
    <3> QED  BY <2>4, <3>1
  <2>7. Import(disk.lock, f)[n] = ImportAt(disk.lock, f, n)
    BY ImportIs
  <2> HIDE DEF f
  <2>8. Import(disk.lock, f)[n].applied = disk.target[n].applied
    BY <2>5, <2>6, <2>7 DEF ImportAt
  <2>9. disk.target[n].rev = disk.lock
    BY <2>3, <2>5 DEF ImportAt
  <2> QED  BY <2>1, <2>2, <2>8, <2>9 DEF f
<1> QED  BY <1>1, AlwaysImportInv, PTL DEF Spec, CommitReproducible
=============================================================================

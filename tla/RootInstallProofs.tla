-------------------------- MODULE RootInstallProofs --------------------------
(***************************************************************************)
(* What an update does to the root file system, for any tree, any pair of  *)
(* manifests and any damage, and any number of runs, kills and failures.   *)
(***************************************************************************)
EXTENDS RootInstall, FiniteSetTheorems, TLAPS

----------------------------------------------------------------------------
(* The inductive invariant.                                                *)

Listed == ToSet(list)

\* The manifest of the server describes a tree, and the bumped paths are paths.
ManifestInv == IsTree(new) /\ bumped \subseteq Paths

\* Only a top-level directory that can hold something keeps a file of the user's.
MineInv == \A d \in mine : disk[d] = "dir" /\ Kids(d) # {}

\* A staged file has the new content of a path that is still to be installed,
\* whichever run staged it.
UpdateInv ==
  \A p \in Paths : update[p] # "absent" =>
    /\ update[p] = new[p] /\ p \in ToInstall
    /\ new[p] # old[p] \/ disk[p] # new[p]

\* What both versions have as a file is a file of that type or gone.
KeepInv == \A p \in Paths : InBoth(p) /\ disk[p] # "absent" => Type(disk[p]) = Type(new[p])

\* The list has every changed path once, and of the bumped paths those that are
\* not installed.
ListInv ==
  pc # "idle" =>
    /\ \A i, j \in 1 .. Len(list) : i # j => list[i] # list[j]
    /\ \A p \in Paths : new[p] # old[p] => p \in Listed
    /\ Listed \subseteq ToInstall
    /\ \A p \in bumped : p \in Listed \/ disk[p] = new[p]

\* Until the renames begin, a listed file that is in the way of nothing but its
\* hash is as it was when the list was made.
StillOutdated ==
  pc \in {"download", "stage", "prepare", "install"} =>
    \A p \in Listed : \/ new[p] # old[p] \/ new[p] \in {"dir", "absent"}
                      \/ disk[p] # new[p]

\* Where stage_single_file is.
PointInv ==
  /\ pc = "download" => at = 1
  /\ pc \in {"prepare", "install"} => at <= Len(list) /\ ~Deleted(Item)
  /\ pc = "install" => /\ IsAbsolute(Parent[Item], disk) /\ update[Item] = "absent"
                       /\ ~TypeChanged(Item)

\* Each error and each directory left for later is a path that was passed.
ErrInv ==
  /\ errs >= 0 /\ errs + Len(again) <= Len(list)
  /\ pc \in {"download", "stage", "prepare", "install"} => errs = 0 /\ again = <<>>
  /\ pc = "rename" => errs + Len(again) <= at - 1

AgainInv == pc = "rename" => \A i \in 1 .. Len(again) : again[i] \in Listed /\ Deleted(again[i])

\* What is staged of one path: a directory is made, another file has its .update
\* and nothing of another type in its place.
StagedPath(p) == \/ new[p] = "dir" /\ disk[p] = "dir"
                 \/ Deleted(p)
                 \/ new[p] # "dir" /\ update[p] = new[p] /\ ~TypeChanged(p)

StagedInv ==
  pc \in {"stage", "prepare", "install"} => \A i \in 1 .. at - 1 : StagedPath(list[i])

\* What is renamed is installed, unless it is left for the second pass or an
\* error was counted.
RenamedPath(p) == \/ disk[p] = new[p] /\ update[p] = "absent"
                  \/ Deleted(p) /\ p \in ToSet(again)

RenameInv ==
  pc = "rename" =>
    /\ \A i \in at .. Len(list) : StagedPath(list[i])
    /\ errs = 0 => \A i \in 1 .. at - 1 : RenamedPath(list[i])

OkInv == result = "ok" => pc = "idle" /\ Installed

RInv == /\ TypeOK /\ ManifestInv /\ MineInv /\ UpdateInv /\ KeepInv /\ ListInv
        /\ StillOutdated /\ PointInv /\ ErrInv /\ AgainInv /\ StagedInv /\ RenameInv /\ OkInv

----------------------------------------------------------------------------
(* Paths.                                                                  *)

USE DEF vars, treeVars, manifestVars, budgets

LEMMA ParentFacts ==
  /\ \A p \in Paths : Parent[p] \in Paths \union {Root} /\ Parent[p] # p
  /\ \A p \in Paths : Parent[p] # Root => Parent[Parent[p]] = Root
  /\ Root \notin Paths
BY PathsAssumption

\* What lies in a directory of the top level holds nothing itself.
LEMMA KidsAreTopLevel ==
  \A d \in Paths : Kids(d) # {} => Parent[d] = Root
BY ParentFacts DEF Kids

LEMMA FinitePaths == IsFiniteSet(Paths)
<1>1. Len(Order) \in Nat /\ DOMAIN Order = 1 .. Len(Order) /\ IsFiniteSet(1 .. Len(Order))
  BY PathsAssumption, FS_Interval
<1>2. Order \in Surjection(1 .. Len(Order), Paths)
  BY <1>1, PathsAssumption DEF Surjection, Paths
<1> QED BY <1>1, <1>2, FS_Surjection

\* The directory of p is no link and not missing.
Open(p) == Parent[p] = Root \/ disk[Parent[p]] = "dir"

LEMMA OpenIsAbsolute ==
  \A p \in Paths : IsAbsolute(Parent[p], disk) <=> Open(p)
BY ParentFacts DEF IsAbsolute, Open

\* In an open directory no link is followed.
LEMMA OpenIsReached ==
  \A p \in Paths : Open(p) => Reached(p) = p
BY DEF Open, Reached

----------------------------------------------------------------------------
(* What a step does to the tree, whatever part of the program it is of.    *)

AtItem(p) == at <= Len(list) /\ p = Item

NoneTouched == UNCHANGED <<disk, update, mine>>

\* The directory q is made or found.
DirMade(q) ==
  /\ q \in Listed \/ \E x \in Listed : q = Parent[x]
  /\ q \in Paths /\ new[q] = "dir" /\ Open(q)
  /\ disk' = [disk EXCEPT ![q] = "dir"]
  /\ UNCHANGED <<update, mine>>

InTheWay(p) == p \in Paths /\ p \in Listed /\ (Deleted(p) \/ TypeChanged(p))

\* What is at p makes way, and holds nothing.
PathCleared(p) ==
  /\ InTheWay(p) /\ Open(p)
  /\ disk[p] # "dir" \/ Empty(p)
  /\ disk' = [disk EXCEPT ![p] = "absent"]
  /\ update' = update \/ update' = [update EXCEPT ![p] = "absent"]
  /\ UNCHANGED mine

\* The directory d makes way with what it holds.
DirMoved(d) ==
  /\ InTheWay(d) /\ Open(d) /\ disk[d] = "dir"
  /\ disk' = [p \in Paths |-> IF d \in {p, Parent[p]} THEN "absent" ELSE disk[p]]
  /\ \/ update' = [p \in Paths |-> IF Parent[p] = d THEN "absent" ELSE update[p]]
     \/ update' = [p \in Paths |-> IF d \in {p, Parent[p]} THEN "absent" ELSE update[p]]
  /\ mine' = mine \ {d}
  /\ d \in mine => \E b \in backups' : b.dir = d /\ b.mine

\* p is staged.
PathStaged(p) ==
  /\ pc = "install"
  /\ p \in Paths /\ p \in Listed /\ new[p] \notin {"absent", "dir"} /\ Open(p)
  /\ p \in ToInstall /\ (new[p] # old[p] \/ disk[p] # new[p])
  /\ update' = [update EXCEPT ![p] = new[p]]
  /\ UNCHANGED <<disk, mine>>

\* The staged name of p is dropped.
StagedDropped(p) ==
  /\ p \in Paths /\ p \in Listed /\ AtItem(p)
  /\ update' = [update EXCEPT ![p] = "absent"]
  /\ UNCHANGED <<disk, mine>>

\* The staged file replaces what is at p.
PathRenamed(p) ==
  /\ pc = "rename" /\ pc' = "rename"
  /\ p \in Paths /\ p \in Listed /\ AtItem(p)
  /\ update[p] # "absent" /\ disk[p] # "dir"
  /\ disk' = [disk EXCEPT ![p] = update[p]]
  /\ update' = [update EXCEPT ![p] = "absent"]
  /\ UNCHANGED mine

PathTouched(p) == \/ DirMade(p) \/ PathCleared(p) \/ DirMoved(p) \/ PathStaged(p)
                  \/ StagedDropped(p) \/ PathRenamed(p)

\* Every step of swupd touches one path of the list, or the directory it is in.
LEMMA TreeStep ==
  ASSUME RInv, [Next]_vars
  PROVE  NoneTouched \/ \E p \in Paths : PathTouched(p)
<1> DEFINE goal == NoneTouched \/ \E p \in Paths : PathTouched(p)
<1>t. /\ disk \in Trees /\ new \in Trees /\ list \in Seq(Paths) /\ again \in Seq(Paths)
      /\ update \in [Paths -> Files \union {"link", "absent"}]
      /\ at \in 1 .. Len(list) + 1
  BY DEF RInv, TypeOK
<1>i. ASSUME at <= Len(list) PROVE Item \in Paths /\ Item \in Listed
  <2>1. at \in DOMAIN list
    BY <1>t, <1>i
  <2> QED BY <1>t, <2>1 DEF Item, Listed, ToSet
<1>h. ASSUME again # <<>>, pc = "rename"
      PROVE  Head(again) \in Paths /\ Head(again) \in Listed /\ Deleted(Head(again))
  <2>1. Len(again) >= 1 /\ Head(again) = again[1] /\ again[1] \in Paths
    BY <1>t, <1>h
  <2> QED BY <2>1, <1>h, <1>t DEF RInv, AgainInv
<1>o. \A p \in Paths : IsAbsolute(Parent[p], disk) <=> Open(p)
  BY OpenIsAbsolute
<1>c. \A p \in Paths : Open(p) => Reached(p) = p
  BY OpenIsReached
<1>p. \A p \in Paths : /\ disk[p] \in Nodes /\ new[p] \in Nodes
                       /\ update[p] \in Files \union {"link", "absent"}
  BY <1>t DEF Trees
<1>1. CASE StageFixParent
  <2> DEFINE q == Parent[Item]
  <2>1. Item \in Paths /\ Item \in Listed
    BY <1>1, <1>i DEF StageFixParent
  <2>2. q \in Paths /\ Open(q)
    BY <1>1, <2>1, ParentFacts DEF StageFixParent, LeadsToDir, Open
  <2>3. DirMade(q)
    BY <1>1, <2>1, <2>2 DEF StageFixParent, DirMade
  <2> QED BY <2>2, <2>3 DEF PathTouched
<1>2. CASE StagePrepare
  <2>1. Item \in Paths /\ Item \in Listed /\ at <= Len(list)
    BY <1>2, <1>i DEF StagePrepare, RInv, PointInv
  <2>2. Open(Item) /\ Reached(Item) = Item
    BY <1>2, <2>1, <1>o, <1>c DEF StagePrepare
  <2> DEFINE cleaned == [update EXCEPT ![Item] = "absent"]
  <2>3. CASE /\ ~TypeChanged(Item) /\ update' = cleaned /\ UNCHANGED <<disk, mine, backups>>
    BY <2>3, <2>1 DEF StagedDropped, AtItem, PathTouched
  <2>4. CASE /\ TypeChanged(Item) /\ CanRemove(Item) /\ Unlink(Item)
             /\ update' = cleaned /\ UNCHANGED <<mine, backups>>
    <3>1. disk' = [disk EXCEPT ![Item] = "absent"] /\ (disk[Item] # "dir" \/ Empty(Item))
      BY <2>4, <2>2 DEF Unlink, CanRemove
    <3> QED BY <3>1, <2>4, <2>1, <2>2 DEF PathCleared, InTheWay, PathTouched
  <2>5. CASE TypeChanged(Item) /\ ~CanRemove(Item) /\ MoveAway(Item, cleaned)
    <3>1. disk[Item] = "dir"
      BY <2>5, <2>2 DEF CanRemove
    <3>2. update' = [p \in Paths |-> IF Item \in {p, Parent[p]} THEN "absent" ELSE update[p]]
      BY <2>5, <2>1, <1>t DEF MoveAway
    <3>3. Item \in mine => \E b \in backups' : b.dir = Item /\ b.mine
      <4> DEFINE b == [dir |-> Item, mine |-> Item \in mine, held |-> [p \in Kids(Item) |-> disk[p]]]
      <4>1. b \in backups' /\ b.dir = Item /\ (Item \in mine => b.mine)
        BY <2>5 DEF MoveAway
      <4> QED BY <4>1
    <3>4. /\ disk' = [p \in Paths |-> IF Item \in {p, Parent[p]} THEN "absent" ELSE disk[p]]
          /\ mine' = mine \ {Item}
      BY <2>5 DEF MoveAway
    <3>5. DirMoved(Item)
      BY <3>1, <3>2, <3>3, <3>4, <2>5, <2>1, <2>2 DEF DirMoved, InTheWay
    <3> QED BY <3>5, <2>1 DEF PathTouched
  <2> QED BY <1>2, <2>3, <2>4, <2>5 DEF StagePrepare
<1>3. CASE StageInstall
  <2>1. Item \in Paths /\ Item \in Listed /\ ~Deleted(Item) /\ Open(Item)
    BY <1>3, <1>i, <1>o DEF StageInstall, RInv, PointInv
  <2>2. CASE new[Item] = "dir"
    <3>1. DirMade(Item)
      BY <1>3, <2>1, <2>2 DEF StageInstall, DirMade
    <3> QED BY <3>1, <2>1 DEF PathTouched
  <2>3. CASE new[Item] # "dir"
    <3>1. new[Item] # old[Item] \/ disk[Item] # new[Item]
      BY <1>3, <2>1, <2>3 DEF StageInstall, RInv, StillOutdated, Deleted
    <3>2. Item \in ToInstall
      BY <1>3, <2>1 DEF StageInstall, RInv, ListInv
    <3>3. PathStaged(Item)
      BY <1>3, <2>1, <2>3, <3>1, <3>2 DEF StageInstall, PathStaged, Deleted
    <3> QED BY <3>3, <2>1 DEF PathTouched
  <2> QED BY <2>2, <2>3
<1>4. CASE RenameDeleted
  <2>1. Item \in Paths /\ Item \in Listed /\ Deleted(Item)
    BY <1>4, <1>i DEF RenameDeleted
  <2>2. CASE IsAbsolute(Parent[Item], disk) /\ CanRemove(Item) /\ Unlink(Item)
    <3>1. Open(Item) /\ Reached(Item) = Item
      BY <2>2, <2>1, <1>o, <1>c
    <3>2. disk' = [disk EXCEPT ![Item] = "absent"] /\ (disk[Item] # "dir" \/ Empty(Item))
      BY <2>2, <3>1 DEF Unlink, CanRemove
    <3> QED BY <3>1, <3>2, <1>4, <2>1 DEF RenameDeleted, PathCleared, InTheWay, PathTouched
  <2>3. CASE UNCHANGED disk
    BY <2>3, <1>4 DEF RenameDeleted, NoneTouched
  <2> QED BY <1>4, <2>2, <2>3 DEF RenameDeleted
<1>5. CASE RenameStaged
  <2>1. Item \in Paths /\ Item \in Listed
    BY <1>5, <1>i DEF RenameStaged
  <2>2. PathRenamed(Item)
    BY <1>5, <2>1 DEF RenameStaged, PathRenamed, AtItem, Renamed, Step
  <2> QED BY <2>1, <2>2 DEF PathTouched
<1>6. CASE RenameError
  <2>1. Item \in Paths /\ Item \in Listed
    BY <1>6, <1>i DEF RenameError
  <2> QED BY <1>6, <2>1 DEF RenameError, Renamed, StagedDropped, AtItem, NoneTouched, PathTouched
<1>7. CASE RemoveAgain
  <2> DEFINE d == Head(again)
  <2>1. d \in Paths /\ d \in Listed /\ Deleted(d)
    BY <1>7, <1>h DEF RemoveAgain
  <2>2. CASE IsAbsolute(Parent[d], disk) /\ ~CanRemove(d)
    <3>1. Open(d) /\ Reached(d) = d /\ disk[d] = "dir"
      BY <2>1, <2>2, <1>o, <1>c DEF CanRemove
    <3>2. MoveAway(d, update)
      BY <1>7, <2>2 DEF RemoveAgain
    <3>3. d \in mine => \E b \in backups' : b.dir = d /\ b.mine
      <4> DEFINE b == [dir |-> d, mine |-> d \in mine, held |-> [p \in Kids(d) |-> disk[p]]]
      <4>1. b \in backups' /\ b.dir = d /\ (d \in mine => b.mine)
        BY <3>2 DEF MoveAway
      <4> QED BY <4>1
    <3>4. /\ disk' = [p \in Paths |-> IF d \in {p, Parent[p]} THEN "absent" ELSE disk[p]]
          /\ update' = [p \in Paths |-> IF Parent[p] = d THEN "absent" ELSE update[p]]
          /\ mine' = mine \ {d}
      BY <3>2 DEF MoveAway
    <3>5. DirMoved(d)
      BY <3>1, <3>3, <3>4, <2>1 DEF DirMoved, InTheWay
    <3> QED BY <3>5, <2>1 DEF PathTouched
  <2>3. CASE IsAbsolute(Parent[d], disk) /\ CanRemove(d)
    <3>1. Open(d) /\ Reached(d) = d /\ Unlink(d) /\ UNCHANGED <<update, mine>>
      BY <1>7, <2>1, <2>3, <1>o, <1>c DEF RemoveAgain
    <3>2. PathCleared(d)
      BY <3>1, <2>1, <2>3 DEF PathCleared, InTheWay, Unlink, CanRemove
    <3> QED BY <3>2, <2>1 DEF PathTouched
  <2>4. CASE ~IsAbsolute(Parent[d], disk)
    BY <1>7, <2>4 DEF RemoveAgain, NoneTouched
  <2> QED BY <2>2, <2>3, <2>4
<1>8. CASE \/ AlreadyUpToDate \/ Compare \/ Download \/ Crash \/ Rest \/ UNCHANGED vars
  BY <1>8 DEF AlreadyUpToDate, Compare, Download, Crash, Rest, NoneTouched
<1>9. CASE \/ StageSkip \/ StageFixNotDownloaded \/ StageFixFails \/ StageParentFound
           \/ StageNotAbsolute \/ StageError \/ StageEnd
  BY <1>9 DEF StageSkip, StageFixNotDownloaded, StageFixFails, StageParentFound,
              StageNotAbsolute, StageError, StageEnd, NoneTouched
<1>10. CASE RenameDir \/ RemoveAgainError \/ RenameEnd
  BY <1>10 DEF RenameDir, RemoveAgainError, RenameEnd, NoneTouched
<1> QED
  BY <1>1, <1>2, <1>3, <1>4, <1>5, <1>6, <1>7, <1>8, <1>9, <1>10 DEF Next, Stage, Rename

LEMMA ManifestsFixed ==
  ASSUME [Next]_vars
  PROVE  UNCHANGED <<old, new, bumped>>
BY DEF Next, Stage, Rename, AlreadyUpToDate, Compare, Download, Crash, Rest, StageSkip,
       StageFixParent, StageFixNotDownloaded, StageFixFails, StageParentFound,
       StageNotAbsolute, StagePrepare, StageInstall, StageError, StageEnd, RenameDeleted,
       RenameDir, RenameStaged, RenameError, RemoveAgain, RemoveAgainError, RenameEnd

\* The types of the tree, and that it is one.
TreeTypes ==
  /\ disk \in Trees /\ mine \subseteq Paths
  /\ update \in [Paths -> Files \union {"link", "absent"}]

LEMMA TreeStaysTree ==
  ASSUME RInv, [Next]_vars
  PROVE  TreeTypes' /\ OnlyDirsHold'
<1>t. /\ disk \in [Paths -> Nodes] /\ new \in [Paths -> Nodes] /\ mine \subseteq Paths
      /\ update \in [Paths -> Files \union {"link", "absent"}]
  BY DEF RInv, TypeOK, Trees
<1>n. "absent" \in Nodes /\ "dir" \in Nodes /\ Files \union {"link", "absent"} \subseteq Nodes
  BY DEF Nodes
<1>d. \A p \in Paths : Parent[p] # Root /\ disk[Parent[p]] # "dir" =>
        disk[p] = "absent" /\ update[p] = "absent" /\ Parent[p] \notin mine
  BY DEF RInv, TypeOK, OnlyDirsHold
<1>m. \A d \in mine : disk[d] = "dir" /\ Kids(d) # {}
  BY DEF RInv, MineInv
<1>f. ParentFacts!1 /\ ParentFacts!2 /\ ParentFacts!3
  BY ParentFacts
<1>1. CASE NoneTouched
  BY <1>1, <1>t, <1>d DEF NoneTouched, OnlyDirsHold, TreeTypes, Trees
<1>2. ASSUME NEW q \in Paths, DirMade(q) PROVE TreeTypes' /\ OnlyDirsHold'
  <2>1. TreeTypes'
    BY <1>2, <1>t, <1>n DEF DirMade, TreeTypes, Trees
  <2>2. \A p \in Paths : disk'[p] = IF p = q THEN "dir" ELSE disk[p]
    BY <1>2, <1>t DEF DirMade
  <2>3. update' = update /\ mine' = mine /\ Open(q)
    BY <1>2 DEF DirMade
  <2> QED BY <2>1, <2>2, <2>3, <1>d, <1>f DEF OnlyDirsHold, Open
<1>3. ASSUME NEW q \in Paths, PathCleared(q) PROVE TreeTypes' /\ OnlyDirsHold'
  <2>1. TreeTypes'
    BY <1>3, <1>t, <1>n DEF PathCleared, TreeTypes, Trees
  <2>2. \A p \in Paths : disk'[p] = IF p = q THEN "absent" ELSE disk[p]
    BY <1>3, <1>t DEF PathCleared
  <2>3. \A p \in Paths : update'[p] = update[p] \/ update'[p] = "absent"
    BY <1>3, <1>t DEF PathCleared
  <2>4. mine' = mine /\ Open(q)
    BY <1>3 DEF PathCleared
  <2>5. \A p \in Paths : Parent[p] = q => disk[p] = "absent" /\ update[p] = "absent" /\ q \notin mine
    <3>1. CASE disk[q] # "dir"
      BY <3>1, <1>d, <1>f
    <3>2. CASE Empty(q)
      BY <3>2 DEF Empty, Kids
    <3> QED BY <3>1, <3>2, <1>3 DEF PathCleared
  <2> QED BY <2>1, <2>2, <2>3, <2>4, <2>5, <1>d, <1>f DEF OnlyDirsHold, Open
<1>4. ASSUME NEW q \in Paths, DirMoved(q) PROVE TreeTypes' /\ OnlyDirsHold'
  <2>1. TreeTypes'
    BY <1>4, <1>t, <1>n DEF DirMoved, TreeTypes, Trees
  <2>2. \A p \in Paths : disk'[p] = IF q \in {p, Parent[p]} THEN "absent" ELSE disk[p]
    BY <1>4 DEF DirMoved
  <2>3. \A p \in Paths : /\ update'[p] = update[p] \/ update'[p] = "absent"
                         /\ Parent[p] = q => update'[p] = "absent"
    BY <1>4 DEF DirMoved
  <2>4. mine' = mine \ {q}
    BY <1>4 DEF DirMoved
  <2> QED BY <2>1, <2>2, <2>3, <2>4, <1>d, <1>f DEF OnlyDirsHold
<1>5. ASSUME NEW q \in Paths, PathStaged(q) PROVE TreeTypes' /\ OnlyDirsHold'
  <2>0. new[q] \in Files \union {"link", "absent"}
    BY <1>5, <1>t DEF PathStaged, Nodes
  <2>1. TreeTypes'
    BY <1>5, <2>0, <1>t, <1>n DEF PathStaged, TreeTypes, Trees
  <2>2. \A p \in Paths : update'[p] = IF p = q THEN new[p] ELSE update[p]
    BY <1>5, <1>t DEF PathStaged
  <2>3. disk' = disk /\ mine' = mine /\ Open(q)
    BY <1>5 DEF PathStaged
  <2> QED BY <2>1, <2>2, <2>3, <1>d DEF OnlyDirsHold, Open
<1>6. ASSUME NEW q \in Paths, StagedDropped(q) PROVE TreeTypes' /\ OnlyDirsHold'
  <2>1. TreeTypes'
    BY <1>6, <1>t, <1>n DEF StagedDropped, TreeTypes, Trees
  <2>2. \A p \in Paths : update'[p] = IF p = q THEN "absent" ELSE update[p]
    BY <1>6, <1>t DEF StagedDropped
  <2>3. disk' = disk /\ mine' = mine
    BY <1>6 DEF StagedDropped
  <2> QED BY <2>1, <2>2, <2>3, <1>d DEF OnlyDirsHold
<1>7. ASSUME NEW q \in Paths, PathRenamed(q) PROVE TreeTypes' /\ OnlyDirsHold'
  <2>1. TreeTypes'
    BY <1>7, <1>t, <1>n DEF PathRenamed, TreeTypes, Trees
  <2>2. \A p \in Paths : /\ disk'[p] = IF p = q THEN update[p] ELSE disk[p]
                         /\ update'[p] = IF p = q THEN "absent" ELSE update[p]
    BY <1>7, <1>t DEF PathRenamed
  <2>3. mine' = mine /\ update[q] # "absent" /\ disk[q] # "dir"
    BY <1>7 DEF PathRenamed
  <2>4. ASSUME NEW p \in Paths, Parent[p] # Root, disk'[Parent[p]] # "dir"
        PROVE  disk'[p] = "absent" /\ update'[p] = "absent" /\ Parent[p] \notin mine'
    <3>1. Parent[p] \in Paths /\ disk[Parent[p]] # "dir"
      BY <2>4, <2>2, <2>3, <1>f
    <3>2. disk[p] = "absent" /\ update[p] = "absent" /\ Parent[p] \notin mine
      BY <3>1, <2>4, <1>d
    <3> QED BY <3>2, <2>2, <2>3
  <2> QED BY <2>1, <2>4 DEF OnlyDirsHold
<1> QED BY TreeStep, <1>1, <1>2, <1>3, <1>4, <1>5, <1>6, <1>7 DEF PathTouched

\* The user's directories stay, or are moved to a .deleted. name.
LEMMA MineStep ==
  ASSUME RInv, [Next]_vars
  PROVE  /\ MineInv'
         /\ \A d \in mine : \/ d \in mine' /\ disk'[d] = "dir"
                            \/ \E b \in backups' : b.dir = d /\ b.mine
<1>t. disk \in [Paths -> Nodes] /\ mine \subseteq Paths
  BY DEF RInv, TypeOK, Trees
<1>m. \A d \in mine : disk[d] = "dir" /\ Kids(d) # {} /\ Parent[d] = Root
  BY <1>t, KidsAreTopLevel DEF RInv, MineInv
<1>k. \A d \in Paths : Kids(d)' = Kids(d)
  BY DEF Kids
<1> SUFFICES /\ \A d \in mine : \/ d \in mine' /\ disk'[d] = "dir"
                                \/ \E b \in backups' : b.dir = d /\ b.mine
             /\ \A d \in mine' : d \in mine /\ disk'[d] = "dir"
  BY <1>m, <1>k, <1>t DEF MineInv
<1>1. CASE NoneTouched
  BY <1>1, <1>m DEF NoneTouched
<1>2. ASSUME NEW q \in Paths, DirMade(q) \/ PathStaged(q) \/ StagedDropped(q)
      PROVE  \A d \in mine : d \in mine' /\ disk'[d] = "dir"
  BY <1>2, <1>t, <1>m DEF DirMade, PathStaged, StagedDropped
<1>3. ASSUME NEW q \in Paths, PathCleared(q) \/ PathRenamed(q)
      PROVE  \A d \in mine : d \in mine' /\ disk'[d] = "dir"
  <2>1. q \notin mine
    BY <1>3, <1>m DEF PathCleared, PathRenamed, Empty
  <2> QED BY <1>3, <2>1, <1>t, <1>m DEF PathCleared, PathRenamed
<1>4. ASSUME NEW q \in Paths, DirMoved(q)
      PROVE  /\ \A d \in mine' : d \in mine /\ disk'[d] = "dir"
             /\ q \in mine => \E b \in backups' : b.dir = q /\ b.mine
             /\ mine' = mine \ {q}
  <2>1. \A p \in Paths : disk'[p] = IF q \in {p, Parent[p]} THEN "absent" ELSE disk[p]
    BY <1>4 DEF DirMoved
  <2>2. mine' = mine \ {q} /\ (q \in mine => \E b \in backups' : b.dir = q /\ b.mine)
    BY <1>4 DEF DirMoved
  <2> QED BY <2>1, <2>2, <1>m, <1>t, ParentFacts
<1>5. ASSUME NEW q \in Paths, ~DirMoved(q), PathTouched(q)
      PROVE  mine' = mine
  BY <1>5 DEF PathTouched, DirMade, PathStaged, StagedDropped, PathCleared, PathRenamed
<1>6. ASSUME NEW q \in Paths, PathTouched(q)
      PROVE  /\ \A d \in mine : \/ d \in mine' /\ disk'[d] = "dir"
                                \/ \E b \in backups' : b.dir = d /\ b.mine
             /\ \A d \in mine' : d \in mine /\ disk'[d] = "dir"
  <2>1. CASE DirMoved(q)
    BY <2>1, <1>4
  <2>2. CASE ~DirMoved(q)
    BY <2>2, <1>2, <1>3, <1>5, <1>6 DEF PathTouched
  <2> QED BY <2>1, <2>2
<1> QED BY TreeStep, <1>1, <1>6 DEF NoneTouched

\* Staged files keep the new content of a path that is to be installed.
LEMMA UpdateStep ==
  ASSUME RInv, [Next]_vars
  PROVE  UpdateInv'
<1>t. /\ disk \in [Paths -> Nodes]
      /\ update \in [Paths -> Files \union {"link", "absent"}]
  BY DEF RInv, TypeOK, Trees
<1>u. \A p \in Paths : update[p] # "absent" =>
        /\ update[p] = new[p] /\ p \in ToInstall /\ (new[p] # old[p] \/ disk[p] # new[p])
  BY DEF RInv, UpdateInv
<1>m. new' = new /\ old' = old /\ ToInstall' = ToInstall
  BY ManifestsFixed DEF ToInstall
<1>d. "dir" \notin Files \union {"link", "absent"}
  BY DEF Files
<1> SUFFICES ASSUME NEW p \in Paths, update'[p] # "absent"
             PROVE  /\ update'[p] = new[p] /\ p \in ToInstall
                    /\ new[p] # old[p] \/ disk'[p] # new[p]
  BY <1>m DEF UpdateInv
<1>1. CASE NoneTouched
  BY <1>1, <1>u DEF NoneTouched
<1>2. ASSUME NEW q \in Paths, DirMade(q)
      PROVE  update'[p] = update[p] /\ disk'[p] = IF p = q THEN new[p] ELSE disk[p]
  BY <1>2, <1>t DEF DirMade
<1>3. ASSUME NEW q \in Paths, DirMade(q), p = q PROVE FALSE
  <2>1. update[p] = "dir"
    BY <1>2, <1>3, <1>u DEF DirMade
  <2> QED BY <2>1, <1>t, <1>d
<1>4. ASSUME NEW q \in Paths, PathCleared(q) \/ DirMoved(q)
      PROVE  update'[p] = update[p] /\ disk'[p] \in {disk[p], "absent"}
  BY <1>4, <1>t DEF PathCleared, DirMoved
<1>5. ASSUME NEW q \in Paths, PathStaged(q)
      PROVE  /\ disk' = disk /\ update'[p] = IF p = q THEN new[p] ELSE update[p]
             /\ q \in ToInstall /\ (new[q] # old[q] \/ disk[q] # new[q])
  BY <1>5, <1>t DEF PathStaged
<1>6. ASSUME NEW q \in Paths, StagedDropped(q) \/ PathRenamed(q)
      PROVE  update'[p] = update[p] /\ disk'[p] = disk[p]
  BY <1>6, <1>t DEF StagedDropped, PathRenamed
<1>7. ASSUME NEW q \in Paths, PathTouched(q)
      PROVE  /\ update'[p] = new[p] /\ p \in ToInstall
             /\ new[p] # old[p] \/ disk'[p] # new[p]
  <2>1. CASE DirMade(q)
    BY <2>1, <1>2, <1>3, <1>u
  <2>2. CASE PathCleared(q) \/ DirMoved(q)
    BY <2>2, <1>4, <1>u
  <2>3. CASE PathStaged(q)
    BY <2>3, <1>5, <1>u
  <2>4. CASE StagedDropped(q) \/ PathRenamed(q)
    BY <2>4, <1>6, <1>u
  <2> QED BY <1>7, <2>1, <2>2, <2>3, <2>4 DEF PathTouched
<1> QED BY TreeStep, <1>1, <1>7

\* What is in the way of the update is nothing that both versions have.
LEMMA InTheWayIsNew ==
  ASSUME RInv, NEW q \in Paths, InTheWay(q), disk[q] # "absent"
  PROVE  /\ ~InBoth(q)
         /\ disk[q] = "dir" => \A p \in Paths : Parent[p] = q => ~InBoth(p)
<1>1. ~InBoth(q)
  BY DEF InTheWay, InBoth, Deleted, TypeChanged, RInv, KeepInv
<1>2. ASSUME disk[q] = "dir", NEW p \in Paths, Parent[p] = q, InBoth(p) PROVE FALSE
  <2>1. new[q] = "dir"
    BY <1>2, ParentFacts DEF InBoth
  <2> QED BY <1>2, <2>1 DEF InTheWay, Deleted, TypeChanged
<1> QED BY <1>1, <1>2

\* What both versions have is replaced by a file of its type, never removed.
LEMMA KeepStep ==
  ASSUME RInv, [Next]_vars
  PROVE  /\ KeepInv'
         /\ \A p \in Paths : InBoth(p) /\ disk[p] # "absent" => disk'[p] # "absent"
<1>t. /\ disk \in [Paths -> Nodes]
      /\ update \in [Paths -> Files \union {"link", "absent"}]
  BY DEF RInv, TypeOK, Trees
<1>m. new' = new /\ \A p \in Paths : InBoth(p)' <=> InBoth(p)
  BY ManifestsFixed DEF InBoth
<1> SUFFICES ASSUME NEW p \in Paths, InBoth(p)
             PROVE  /\ disk'[p] # "absent" => Type(disk'[p]) = Type(new[p])
                    /\ disk[p] # "absent" => disk'[p] # "absent"
  BY <1>m DEF KeepInv, Type
<1>k. disk[p] # "absent" => Type(disk[p]) = Type(new[p])
  BY DEF RInv, KeepInv
<1>1. CASE NoneTouched
  BY <1>1, <1>k DEF NoneTouched
<1>2. ASSUME NEW q \in Paths, DirMade(q) PROVE disk'[p] = disk[p]
  BY <1>2, <1>t DEF DirMade, InBoth
<1>3. ASSUME NEW q \in Paths, PathCleared(q)
      PROVE  disk'[p] = disk[p]
  BY <1>3, <1>t, InTheWayIsNew DEF PathCleared
<1>4. ASSUME NEW q \in Paths, DirMoved(q)
      PROVE  disk'[p] = disk[p]
  <2>1. disk'[p] = IF q \in {p, Parent[p]} THEN "absent" ELSE disk[p]
    BY <1>4 DEF DirMoved
  <2>2. p # q /\ Parent[p] # q
    BY <1>4, InTheWayIsNew DEF DirMoved
  <2> QED BY <2>1, <2>2
<1>5. ASSUME NEW q \in Paths, PathStaged(q) \/ StagedDropped(q)
      PROVE  disk'[p] = disk[p]
  BY <1>5 DEF PathStaged, StagedDropped
<1>6. ASSUME NEW q \in Paths, PathRenamed(q)
      PROVE  disk'[p] = IF p = q THEN new[p] ELSE disk[p]
  BY <1>6, <1>t DEF PathRenamed, RInv, UpdateInv
<1>7. new[p] # "absent"
  BY DEF InBoth
<1>8. ASSUME NEW q \in Paths, PathTouched(q)
      PROVE  disk'[p] \in {disk[p], new[p]}
  BY <1>2, <1>3, <1>4, <1>5, <1>6, <1>8 DEF PathTouched
<1> QED BY TreeStep, <1>1, <1>7, <1>8, <1>k

\* What a step changes is in the list, or holds or is held by what is in it.
LEMMA ListedStep ==
  ASSUME RInv, [Next]_vars, NEW p \in Paths, disk'[p] # disk[p]
  PROVE  \E q \in ToSet(list) : p = q \/ p = Parent[q] \/ Parent[p] = q
<1>t. disk \in [Paths -> Nodes]
  BY DEF RInv, TypeOK, Trees
<1>1. ~NoneTouched
  BY DEF NoneTouched
<1>2. PICK q \in Paths : PathTouched(q)
  BY <1>1, TreeStep
<1>3. CASE DirMade(q)
  BY <1>3, <1>t DEF DirMade, Listed
<1>4. CASE PathCleared(q) \/ PathRenamed(q)
  BY <1>4, <1>t DEF PathCleared, PathRenamed, InTheWay, Listed
<1>5. CASE DirMoved(q)
  BY <1>5, <1>t DEF DirMoved, InTheWay, Listed
<1>6. CASE PathStaged(q) \/ StagedDropped(q)
  BY <1>6 DEF PathStaged, StagedDropped
<1> QED BY <1>2, <1>3, <1>4, <1>5, <1>6 DEF PathTouched

----------------------------------------------------------------------------
(* The update list and the control points.                                 *)

LEMMA SortedList ==
  ASSUME NEW C \in SUBSET Paths, NEW s \in Sorted(C)
  PROVE  /\ s \in Seq(Paths) /\ ToSet(s) = C
         /\ \A i, j \in 1 .. Len(s) : i # j => s[i] # s[j]
<1> DEFINE n == Cardinality(C)
<1>1. n \in Nat
  BY FinitePaths, FS_Subset, FS_CardinalityType
<1>2. /\ s \in [1 .. n -> C]
      /\ \A i, j \in 1 .. n : s[i] = s[j] => i = j
      /\ \A p \in C : \E i \in 1 .. n : s[i] = p
  BY DEF Sorted, Bijection, Injection, Surjection, IsInjective
<1> HIDE DEF n
<1>3. s \in Seq(Paths) /\ Len(s) = n /\ DOMAIN s = 1 .. n
  BY <1>1, <1>2
<1>4. ToSet(s) = C
  BY <1>2, <1>3 DEF ToSet
<1> QED BY <1>2, <1>3, <1>4

Points == {"idle", "download", "stage", "prepare", "install", "rename"}

ControlOK ==
  /\ pc \in Points
  /\ list \in Seq(Paths) /\ at \in 1 .. Len(list) + 1 /\ again \in Seq(Paths)
  /\ errs \in 0 .. Len(list)
  /\ result \in {"none", "ok", "current", "failed"}

\* Every listed item is a path.
LEMMA ItemFacts ==
  ASSUME RInv
  PROVE  /\ at <= Len(list) => Item \in Paths /\ Item \in Listed
         /\ \A i \in 1 .. Len(list) : list[i] \in Paths /\ list[i] \in Listed
         /\ Listed \subseteq Paths
         /\ again # <<>> => /\ Len(again) \in Nat \ {0} /\ Head(again) = again[1]
                            /\ Tail(again) \in Seq(Paths) /\ Len(Tail(again)) = Len(again) - 1
                            /\ \A i \in 1 .. Len(again) - 1 : Tail(again)[i] = again[i + 1]
<1>1. list \in Seq(Paths) /\ at \in 1 .. Len(list) + 1 /\ again \in Seq(Paths)
  BY DEF RInv, TypeOK
<1>2. \A i \in 1 .. Len(list) : list[i] \in Paths /\ list[i] \in Listed
  BY <1>1 DEF Listed, ToSet
<1>3. Listed \subseteq Paths
  BY <1>1 DEF Listed, ToSet
<1>4. at <= Len(list) => Item \in Paths /\ Item \in Listed
  BY <1>1, <1>2 DEF Item
<1>5. again # <<>> => /\ Len(again) \in Nat \ {0} /\ Head(again) = again[1]
                      /\ Tail(again) \in Seq(Paths) /\ Len(Tail(again)) = Len(again) - 1
  BY <1>1
<1>6. again # <<>> => \A i \in 1 .. Len(again) - 1 : Tail(again)[i] = again[i + 1]
  BY <1>1
<1> QED BY <1>2, <1>3, <1>4, <1>5, <1>6

\* The list, the cursor and the counters.
LEMMA ControlStep ==
  ASSUME RInv, [Next]_vars
  PROVE  ControlOK' /\ ErrInv' /\ AgainInv'
<1>t. /\ pc \in Points /\ list \in Seq(Paths) /\ at \in 1 .. Len(list) + 1
      /\ again \in Seq(Paths) /\ errs \in 0 .. Len(list) /\ Len(list) \in Nat
      /\ Len(again) \in Nat /\ result \in {"none", "ok", "current", "failed"}
  BY DEF RInv, TypeOK, Points
<1>e. /\ errs + Len(again) <= Len(list)
      /\ pc \in {"download", "stage", "prepare", "install"} => errs = 0 /\ again = <<>>
      /\ pc = "rename" => errs + Len(again) <= at - 1
  BY DEF RInv, ErrInv
<1>g. pc = "rename" => \A i \in 1 .. Len(again) : again[i] \in Listed /\ Deleted(again[i])
  BY DEF RInv, AgainInv
<1>n. \A p \in Paths : Deleted(p)' <=> Deleted(p)
  BY ManifestsFixed DEF Deleted
<1>l. list' = list => Listed' = Listed
  BY DEF Listed
<1>1. CASE AlreadyUpToDate \/ Rest \/ UNCHANGED vars
  <2>1. UNCHANGED <<pc, list, at, again, errs>> /\ result' \in {"current", result}
    BY <1>1 DEF AlreadyUpToDate, Rest
  <2>2. ControlOK' /\ ErrInv'
    BY <2>1, <1>t, <1>e DEF ControlOK, ErrInv
  <2>3. AgainInv'
    BY <2>1, <1>t, <1>g, <1>n, <1>l DEF AgainInv
  <2> QED BY <2>2, <2>3
<1>2. CASE Compare
  <2>1. list' \in Seq(Paths)
    BY <1>2, SortedList DEF Compare, Changed
  <2>2. pc' = "download" /\ result' = "none" /\ at' = 1 /\ again' = <<>> /\ errs' = 0
    BY <1>2 DEF Compare
  <2> QED BY <2>1, <2>2 DEF ControlOK, ErrInv, AgainInv, Points
<1>3. CASE Download
  <2>1. /\ UNCHANGED <<list, at, again, errs>> /\ pc = "download"
        /\ pc' \in {"stage", "idle"} /\ result' \in {"failed", result}
    BY <1>3 DEF Download, Fails
  <2> QED BY <2>1, <1>t, <1>e DEF ControlOK, ErrInv, AgainInv, Points
<1>4. CASE \/ StageFixParent \/ StageFixNotDownloaded \/ StageFixFails \/ StageParentFound
           \/ StageNotAbsolute \/ StagePrepare \/ StageError
  <2>1. /\ UNCHANGED <<list, at, again, errs>> /\ pc \in {"stage", "prepare", "install"}
        /\ pc' \in {"prepare", "install", "idle"} /\ result' \in {"failed", result}
    BY <1>4 DEF StageFixParent, StageFixNotDownloaded, StageFixFails, StageParentFound,
                StageNotAbsolute, StagePrepare, StageError, Fails
  <2> QED BY <2>1, <1>t, <1>e DEF ControlOK, ErrInv, AgainInv, Points
<1>5. CASE StageSkip \/ StageInstall
  <2>1. /\ UNCHANGED <<list, again, errs, result>> /\ pc \in {"stage", "install"}
        /\ pc' = "stage" /\ at' = at + 1 /\ at <= Len(list)
    BY <1>5 DEF StageSkip, StageInstall, RInv, PointInv
  <2> QED BY <2>1, <1>t, <1>e DEF ControlOK, ErrInv, AgainInv, Points
<1>6. CASE StageEnd
  <2>1. /\ UNCHANGED <<list, again, errs, result>> /\ pc = "stage"
        /\ pc' = "rename" /\ at' = 1
    BY <1>6 DEF StageEnd
  <2> QED BY <2>1, <1>t, <1>e DEF ControlOK, ErrInv, AgainInv, Points
<1>7. CASE RenameDir \/ RenameStaged
  <2>1. /\ UNCHANGED <<list, again, errs, result>> /\ pc = "rename"
        /\ pc' = "rename" /\ at' = at + 1 /\ at <= Len(list)
    BY <1>7 DEF RenameDir, RenameStaged, Step
  <2>2. ControlOK' /\ ErrInv'
    BY <2>1, <1>t, <1>e DEF ControlOK, ErrInv, Points
  <2>3. AgainInv'
    BY <2>1, <1>t, <1>g, <1>n, <1>l DEF AgainInv
  <2> QED BY <2>2, <2>3
<1>8. CASE RenameDeleted
  <2>1. /\ UNCHANGED <<list, errs, result>> /\ pc = "rename"
        /\ pc' = "rename" /\ at' = at + 1 /\ at <= Len(list)
        /\ again' = again \/ again' = <<Item>> \o again
    BY <1>8 DEF RenameDeleted, Step
  <2>2. Item \in Paths /\ Item \in Listed /\ Deleted(Item)
    BY <1>8, <2>1, ItemFacts DEF RenameDeleted
  <2>3. CASE again' = again
    <3>1. ControlOK' /\ ErrInv'
      BY <2>1, <2>3, <1>t, <1>e DEF ControlOK, ErrInv, Points
    <3>2. AgainInv'
      BY <2>1, <2>3, <1>t, <1>g, <1>n, <1>l DEF AgainInv
    <3> QED BY <3>1, <3>2
  <2>4. CASE again' = <<Item>> \o again
    <3>1. /\ again' \in Seq(Paths) /\ Len(again') = Len(again) + 1
          /\ \A i \in 1 .. Len(again') : again'[i] = IF i = 1 THEN Item ELSE again[i - 1]
      BY <2>2, <2>4, <1>t
    <3>2. ControlOK' /\ ErrInv'
      BY <3>1, <2>1, <1>t, <1>e DEF ControlOK, ErrInv, Points
    <3>3. \A i \in 1 .. Len(again') : again'[i] \in Listed /\ Deleted(again'[i]) /\ again'[i] \in Paths
      <4> SUFFICES ASSUME NEW i \in 1 .. Len(again')
                   PROVE  again'[i] \in Listed /\ Deleted(again'[i]) /\ again'[i] \in Paths
        OBVIOUS
      <4>1. CASE i = 1
        BY <4>1, <3>1, <2>2
      <4>2. CASE i # 1
        <5>1. i - 1 \in 1 .. Len(again) /\ again'[i] = again[i - 1]
          BY <4>2, <3>1, <1>t
        <5> QED BY <5>1, <2>1, <1>g, <1>t
      <4> QED BY <4>1, <4>2
    <3>4. AgainInv'
      BY <3>3, <2>1, <1>n, <1>l DEF AgainInv
    <3> QED BY <3>2, <3>4
  <2> QED BY <2>1, <2>3, <2>4
<1>9. CASE RenameError
  <2>1. /\ UNCHANGED <<list, again, result>> /\ pc = "rename" /\ errs' = errs + 1
        /\ pc' = "rename" /\ at' = at + 1 /\ at <= Len(list)
    BY <1>9 DEF RenameError, Step
  <2>2. ControlOK' /\ ErrInv'
    BY <2>1, <1>t, <1>e DEF ControlOK, ErrInv, Points
  <2>3. AgainInv'
    BY <2>1, <1>t, <1>g, <1>n, <1>l DEF AgainInv
  <2> QED BY <2>2, <2>3
<1>10. CASE RemoveAgain \/ RemoveAgainError
  <2>1. again # <<>> /\ again' = Tail(again)
    BY <1>10 DEF RemoveAgain, RemoveAgainError
  <2>2. /\ pc' = pc /\ list' = list /\ at' = at /\ result' = result
        /\ pc = "rename" /\ at > Len(list)
    BY <1>10 DEF RemoveAgain, RemoveAgainError
  <2>3. errs' = errs \/ errs' = errs + 1
    BY <1>10 DEF RemoveAgain, RemoveAgainError
  <2>4. /\ again' \in Seq(Paths) /\ Len(again) \in Nat \ {0}
        /\ Len(again') = Len(again) - 1
    BY <2>1, ItemFacts
  <2>5. ASSUME NEW i \in 1 .. Len(again')
        PROVE  again'[i] = again[i + 1] /\ i + 1 \in 1 .. Len(again)
    <3>1. i \in 1 .. Len(again) - 1 /\ i + 1 \in 1 .. Len(again)
      BY <2>4
    <3> QED BY <3>1, <2>1, ItemFacts
  <2>6. errs + Len(again) <= at - 1 /\ errs + Len(again) <= Len(list)
    BY <2>2, <1>e
  <2>7. errs' \in 0 .. Len(list)
    BY <2>3, <2>4, <2>6, <1>t
  <2>8. errs' + Len(again') <= errs + Len(again)
    BY <2>3, <2>4, <1>t
  <2>9. errs' + Len(again') <= at - 1 /\ errs' + Len(again') <= Len(list)
    BY <2>4, <2>6, <2>7, <2>8, <1>t
  <2>10. ControlOK'
    BY <2>2, <2>4, <2>7, <1>t DEF ControlOK
  <2>11. ErrInv'
    BY <2>2, <2>7, <2>9, <1>t DEF ErrInv
  <2>12. ASSUME NEW i \in 1 .. Len(again')
         PROVE  again'[i] \in Listed /\ Deleted(again'[i]) /\ again'[i] \in Paths
    <3>1. again'[i] \in Listed /\ Deleted(again'[i])
      BY <2>2, <2>5, <1>g
    <3> QED BY <3>1, ItemFacts
  <2>13. AgainInv'
    BY <2>2, <2>12, <1>n, <1>l DEF AgainInv
  <2> QED BY <2>10, <2>11, <2>13
<1>11. CASE RenameEnd
  <2>1. /\ UNCHANGED <<list, at, again, errs>> /\ pc' = "idle" /\ pc = "rename"
        /\ result' \in {"ok", "failed"}
    BY <1>11 DEF RenameEnd
  <2> QED BY <2>1, <1>t, <1>e DEF ControlOK, ErrInv, AgainInv, Points
<1>12. CASE Crash
  <2>1. /\ list' = <<>> /\ at' = 1 /\ again' = <<>> /\ errs' = 0 /\ pc' = "idle"
        /\ result' = "none"
    BY <1>12 DEF Crash
  <2>2. list' \in Seq(Paths) /\ Len(list') = 0 /\ again' \in Seq(Paths) /\ Len(again') = 0
    BY <2>1
  <2> QED BY <2>1, <2>2 DEF ControlOK, ErrInv, AgainInv, Points
<1> QED
  BY <1>1, <1>2, <1>3, <1>4, <1>5, <1>6, <1>7, <1>8, <1>9, <1>10, <1>11, <1>12
  DEF Next, Stage, Rename

\* Where stage_single_file is, what it needs of the place is so.
LEMMA PointStep ==
  ASSUME RInv, [Next]_vars
  PROVE  PointInv'
<1>t. /\ disk \in [Paths -> Nodes] /\ at \in 1 .. Len(list) + 1 /\ Len(list) \in Nat
      /\ update \in [Paths -> Files \union {"link", "absent"}]
  BY DEF RInv, TypeOK, Trees
<1>p. /\ pc = "download" => at = 1
      /\ pc \in {"prepare", "install"} => at <= Len(list) /\ ~Deleted(Item)
      /\ pc = "install" => /\ IsAbsolute(Parent[Item], disk) /\ update[Item] = "absent"
                           /\ ~TypeChanged(Item)
  BY DEF RInv, PointInv
<1>n. new' = new
  BY ManifestsFixed
<1>1. CASE StagePrepare
  <2>1. /\ pc' = "install" /\ UNCHANGED <<list, at, new>> /\ at <= Len(list) /\ ~Deleted(Item)
        /\ Item' = Item /\ Deleted(Item)' = Deleted(Item) /\ Item \in Paths
    BY <1>1, <1>p, <1>n, ItemFacts DEF StagePrepare, Item, Deleted
  <2> DEFINE i == Item
  <2>2. IsAbsolute(Parent[i], disk) /\ Open(i) /\ Reached(i) = i
    BY <1>1, <2>1, OpenIsAbsolute, OpenIsReached DEF StagePrepare
  <2>3. /\ update'[i] = "absent"
        /\ \/ ~TypeChanged(i) /\ disk' = disk
           \/ disk'[i] = "absent" /\ (Parent[i] # Root => disk'[Parent[i]] = disk[Parent[i]])
    <3> DEFINE cleaned == [update EXCEPT ![i] = "absent"]
    <3>1. CASE ~TypeChanged(i) /\ update' = cleaned /\ UNCHANGED disk
      BY <3>1, <2>1, <1>t
    <3>2. CASE Unlink(i) /\ update' = cleaned
      BY <3>2, <2>1, <2>2, <1>t, ParentFacts DEF Unlink
    <3>3. CASE MoveAway(i, cleaned)
      <4>1. /\ \A p \in Paths : disk'[p] = IF i \in {p, Parent[p]} THEN "absent" ELSE disk[p]
            /\ \A p \in Paths : update'[p] = IF Parent[p] = i THEN "absent" ELSE cleaned[p]
        BY <3>3 DEF MoveAway
      <4>2. update'[i] = "absent" /\ disk'[i] = "absent"
        BY <4>1, <2>1, <1>t
      <4>3. Parent[i] # Root => disk'[Parent[i]] = disk[Parent[i]]
        BY <4>1, <2>1, ParentFacts
      <4> QED BY <4>2, <4>3
    <3> QED BY <1>1, <3>1, <3>2, <3>3 DEF StagePrepare
  <2>4. Open(i)' /\ ~TypeChanged(i)'
    BY <2>1, <2>2, <2>3, ParentFacts DEF Open, TypeChanged, Type
  <2>5. IsAbsolute(Parent[i], disk)'
    BY <2>1, <2>4, ParentFacts DEF IsAbsolute, Open
  <2> QED BY <2>1, <2>3, <2>4, <2>5 DEF PointInv
<1>2. CASE StageFixParent \/ StageFixNotDownloaded \/ StageParentFound
  <2>1. /\ pc' = "prepare" /\ UNCHANGED <<list, at, new>> /\ at <= Len(list) /\ ~Deleted(Item)
    BY <1>2 DEF StageFixParent, StageFixNotDownloaded, StageParentFound
  <2> QED BY <2>1 DEF PointInv, Item, Deleted
<1>3. CASE Compare
  BY <1>3 DEF Compare, PointInv
<1>4. CASE Rest \/ UNCHANGED vars
  <2>1. UNCHANGED <<pc, at, list, new, disk, update>>
    BY <1>4 DEF Rest
  <2> QED BY <2>1, <1>p DEF PointInv, Item, Deleted, IsAbsolute, TypeChanged
<1>5. CASE \/ AlreadyUpToDate \/ Download \/ Crash \/ StageSkip \/ StageFixFails
           \/ StageNotAbsolute \/ StageInstall \/ StageError \/ StageEnd \/ Rename
  <2>1. pc' \in {"idle", "stage", "rename"}
    BY <1>5 DEF AlreadyUpToDate, Download, Crash, StageSkip, StageFixFails,
                StageNotAbsolute, StageInstall, StageError, StageEnd, Rename, Fails, RenameDeleted,
                RenameDir, RenameStaged, RenameError, RemoveAgain, RemoveAgainError,
                RenameEnd, Step
  <2> QED BY <2>1 DEF PointInv
<1> QED BY <1>1, <1>2, <1>3, <1>4, <1>5 DEF Next, Stage

\* A run keeps its list.
LEMMA ListFixed ==
  ASSUME [Next]_vars, ~Compare, pc' # "idle"
  PROVE  pc # "idle" /\ list' = list
BY DEF Next, Stage, Rename, AlreadyUpToDate, Download, Crash, Rest, StageSkip,
       StageFixParent, StageFixNotDownloaded, StageFixFails, StageParentFound,
       StageNotAbsolute, StagePrepare, StageInstall, StageError, StageEnd, RenameDeleted,
       RenameDir, RenameStaged, RenameError, RemoveAgain, RemoveAgainError, RenameEnd, Fails

\* What a directory that makes way holds has no place in the new tree.
LEMMA HeldIsDeleted ==
  ASSUME RInv, NEW q \in Paths, InTheWay(q), disk[q] = "dir",
         NEW p \in Paths, Parent[p] = q
  PROVE  new[p] = "absent"
<1>1. new[q] # "dir"
  BY DEF InTheWay, Deleted, TypeChanged
<1> QED BY <1>1, ParentFacts DEF RInv, ManifestInv, IsTree

\* What is as the new version has it, and not listed, stays so.
LEMMA UnlistedStep ==
  ASSUME RInv, [Next]_vars, NEW p \in Paths, p \notin Listed, disk[p] = new[p]
  PROVE  disk'[p] = new[p]
<1>t. disk \in [Paths -> Nodes]
  BY DEF RInv, TypeOK, Trees
<1>1. CASE NoneTouched
  BY <1>1 DEF NoneTouched
<1>2. ASSUME NEW q \in Paths, DirMade(q) PROVE disk'[p] = new[p]
  BY <1>2, <1>t DEF DirMade
<1>3. ASSUME NEW q \in Paths, PathCleared(q) \/ PathRenamed(q) PROVE disk'[p] = disk[p]
  BY <1>3, <1>t DEF PathCleared, InTheWay, PathRenamed
<1>4. ASSUME NEW q \in Paths, DirMoved(q) PROVE disk'[p] = new[p]
  <2>1. disk'[p] = IF q \in {p, Parent[p]} THEN "absent" ELSE disk[p]
    BY <1>4 DEF DirMoved
  <2>2. p # q
    BY <1>4 DEF DirMoved, InTheWay
  <2>3. Parent[p] = q => new[p] = "absent"
    BY <1>4, HeldIsDeleted DEF DirMoved
  <2> QED BY <2>1, <2>2, <2>3
<1>5. ASSUME NEW q \in Paths, PathStaged(q) \/ StagedDropped(q) PROVE disk'[p] = disk[p]
  BY <1>5 DEF PathStaged, StagedDropped
<1> QED BY TreeStep, <1>1, <1>2, <1>3, <1>4, <1>5 DEF PathTouched

\* The list stays what the manifests and the disk ask for.
LEMMA ListStep ==
  ASSUME RInv, [Next]_vars
  PROVE  ListInv' /\ StillOutdated'
<1>t. /\ disk \in [Paths -> Nodes] /\ bumped \subseteq Paths
  BY DEF RInv, TypeOK, Trees, ManifestInv
<1>m. new' = new /\ old' = old /\ bumped' = bumped /\ ToInstall' = ToInstall
  BY ManifestsFixed DEF ToInstall
<1>1. CASE Compare
  <2>1. Changed \in SUBSET Paths /\ list' \in Sorted(Changed) /\ disk' = disk
    BY <1>1 DEF Compare, Changed
  <2>2. /\ Listed' = Changed
        /\ \A i, j \in 1 .. Len(list') : i # j => list'[i] # list'[j]
    BY <2>1, SortedList DEF Listed
  <2>3. ListInv'
    BY <2>1, <2>2, <1>m, <1>t DEF ListInv, Changed, ToInstall
  <2>4. StillOutdated'
    BY <2>1, <2>2, <1>m DEF StillOutdated, Changed
  <2> QED BY <2>3, <2>4
<1>2. CASE pc' # "idle" /\ ~Compare
  <2>1. list' = list /\ Listed' = Listed /\ pc # "idle"
    BY <1>2, ListFixed DEF Listed
  <2>2. \A p \in bumped : p \notin Listed => disk'[p] = new[p]
    BY <2>1, <1>t, UnlistedStep DEF RInv, ListInv
  <2>3. ListInv'
    BY <2>1, <2>2, <1>m DEF RInv, ListInv
  <2>4. ASSUME pc' \in {"download", "stage", "prepare", "install"}
        PROVE  pc \in {"download", "stage", "prepare", "install"}
    BY <1>2, <2>1, <2>4
       DEF Next, Stage, Rename, AlreadyUpToDate, Download, Crash, Rest, StageSkip,
           StageFixParent, StageFixNotDownloaded, StageFixFails, StageParentFound,
           StageNotAbsolute, StagePrepare, StageInstall, StageError, StageEnd, RenameDeleted,
           RenameDir, RenameStaged, RenameError, RemoveAgain, RemoveAgainError, RenameEnd,
           Fails, Step
  <2>5. ASSUME pc' \in {"download", "stage", "prepare", "install"}, NEW p \in Listed,
               new[p] = old[p], new[p] \notin {"dir", "absent"}
        PROVE  disk'[p] # new[p]
    <3>1. disk[p] # new[p] /\ p \in Paths
      BY <2>4, <2>5, ItemFacts DEF RInv, StillOutdated
    <3>2. ASSUME NEW q \in Paths, PathTouched(q) PROVE disk'[p] \in {disk[p], "dir", "absent"}
      BY <2>5, <3>1, <3>2, <1>t DEF PathTouched, DirMade, PathCleared, DirMoved, PathStaged,
                                    StagedDropped, PathRenamed
    <3> QED BY <2>5, <3>1, <3>2, TreeStep DEF NoneTouched
  <2>6. StillOutdated'
    BY <2>1, <2>5, <1>m DEF StillOutdated
  <2> QED BY <2>3, <2>6
<1>3. CASE pc' = "idle"
  BY <1>3 DEF ListInv, StillOutdated
<1> QED BY <1>1, <1>2, <1>3

----------------------------------------------------------------------------
(* Staging and renaming.                                                   *)

\* What is staged stays so, until its own turn comes.
LEMMA StagedStep ==
  ASSUME RInv, [Next]_vars, NEW p \in Paths, StagedPath(p), ~AtItem(p)
  PROVE  StagedPath(p)'
<1>t. /\ disk \in [Paths -> Nodes]
      /\ update \in [Paths -> Files \union {"link", "absent"}]
  BY DEF RInv, TypeOK, Trees
<1>n. new' = new /\ (Deleted(p)' <=> Deleted(p))
  BY ManifestsFixed DEF Deleted
<1> SUFFICES ASSUME ~Deleted(p)
             PROVE  \/ new[p] = "dir" /\ disk'[p] = "dir"
                    \/ new[p] # "dir" /\ update'[p] = new[p] /\ disk'[p] \in {disk[p], "absent"}
  BY <1>n DEF StagedPath, TypeChanged, Type
<1>s. \/ new[p] = "dir" /\ disk[p] = "dir"
      \/ new[p] # "dir" /\ update[p] = new[p]
  BY DEF StagedPath
<1>w. ~TypeChanged(p)
  BY DEF StagedPath, TypeChanged, Type
<1>1. CASE NoneTouched
  BY <1>1, <1>s DEF NoneTouched
<1>2. ASSUME NEW q \in Paths, DirMade(q)
      PROVE  update'[p] = update[p] /\ disk'[p] = IF p = q THEN new[p] ELSE disk[p]
  BY <1>2, <1>t DEF DirMade
<1>3. ASSUME NEW q \in Paths, DirMade(q), p = q PROVE new[p] = "dir"
  BY <1>3 DEF DirMade
<1>4. ASSUME NEW q \in Paths, PathCleared(q)
      PROVE  update'[p] = update[p] /\ disk'[p] = disk[p]
  <2>1. p # q
    BY <1>4, <1>w DEF PathCleared, InTheWay
  <2> QED BY <1>4, <2>1, <1>t DEF PathCleared
<1>5. ASSUME NEW q \in Paths, DirMoved(q)
      PROVE  update'[p] = update[p] /\ disk'[p] = disk[p]
  <2>1. p # q
    BY <1>5, <1>w DEF DirMoved, InTheWay
  <2>2. Parent[p] # q
    BY <1>5, HeldIsDeleted DEF DirMoved, Deleted
  <2> QED BY <1>5, <2>1, <2>2 DEF DirMoved
<1>6. ASSUME NEW q \in Paths, PathStaged(q)
      PROVE  disk'[p] = disk[p] /\ update'[p] = IF p = q THEN new[p] ELSE update[p]
  BY <1>6, <1>t DEF PathStaged
<1>7. ASSUME NEW q \in Paths, StagedDropped(q) \/ PathRenamed(q)
      PROVE  disk'[p] = disk[p] /\ update'[p] = update[p]
  BY <1>7, <1>t DEF StagedDropped, PathRenamed
<1>8. ASSUME NEW q \in Paths, PathTouched(q)
      PROVE  \/ new[p] = "dir" /\ disk'[p] = "dir"
             \/ new[p] # "dir" /\ update'[p] = new[p] /\ disk'[p] \in {disk[p], "absent"}
  <2>1. CASE DirMade(q)
    BY <2>1, <1>2, <1>3, <1>s
  <2>2. CASE PathStaged(q)
    BY <2>2, <1>6, <1>s
  <2>3. CASE PathCleared(q) \/ DirMoved(q) \/ StagedDropped(q) \/ PathRenamed(q)
    BY <2>3, <1>4, <1>5, <1>7, <1>s
  <2> QED BY <1>8, <2>1, <2>2, <2>3 DEF PathTouched
<1> QED BY TreeStep, <1>1, <1>8

\* No path comes twice, so only one has its turn.
LEMMA OtherItems ==
  ASSUME RInv, pc # "idle", NEW i \in 1 .. Len(list), i # at
  PROVE  ~AtItem(list[i])
BY DEF RInv, TypeOK, ListInv, AtItem, Item

\* That items are staged or renamed is shown path by path.
LEMMA ByPath ==
  ASSUME NEW i, list'[i] \in Paths
  PROVE  /\ (\A p \in Paths : p = list'[i] => StagedPath(p)') => StagedPath(list[i])'
         /\ (\A p \in Paths : p = list'[i] => RenamedPath(p)') => RenamedPath(list[i])'
<1>1. (\A p \in Paths : p = list'[i] => StagedPath(p)') => StagedPath(list[i])'
  BY DEF StagedPath, Deleted, TypeChanged, Type
<1>2. (\A p \in Paths : p = list'[i] => RenamedPath(p)') => RenamedPath(list[i])'
  BY DEF RenamedPath, Deleted
<1> QED BY <1>1, <1>2

LEMMA StageStep ==
  ASSUME RInv, [Next]_vars
  PROVE  StagedInv'
<1>t. at \in 1 .. Len(list) + 1 /\ Len(list) \in Nat
  BY DEF RInv, TypeOK
<1>n. new' = new /\ \A p \in Paths : Deleted(p)' <=> Deleted(p)
  BY ManifestsFixed DEF Deleted
<1>s. ASSUME pc \in {"stage", "prepare", "install"}, NEW i \in 1 .. at - 1
      PROVE  list[i] \in Paths /\ \A p \in Paths : p = list[i] => StagedPath(p)'
  <2>1. i \in 1 .. Len(list) /\ i # at
    BY <1>t
  <2>2. list[i] \in Paths /\ StagedPath(list[i]) /\ ~AtItem(list[i])
    BY <2>1, <1>s, ItemFacts, OtherItems DEF RInv, StagedInv
  <2> QED BY <2>2, StagedStep
<1>1. CASE list' = list /\ at' = at /\ pc \in {"stage", "prepare", "install"}
  <2>1. ASSUME NEW i \in 1 .. at - 1 PROVE StagedPath(list[i])'
    BY <1>1, <2>1, <1>s, ByPath
  <2> QED BY <1>1, <2>1 DEF StagedInv
<1>2. CASE StageSkip \/ StageInstall
  <2>1. /\ list' = list /\ at' = at + 1 /\ at <= Len(list) /\ Item \in Paths
        /\ pc \in {"stage", "install"}
    BY <1>2, ItemFacts DEF StageSkip, StageInstall, RInv, PointInv
  <2>2. ASSUME NEW p \in Paths, p = Item PROVE StagedPath(p)'
    <3>1. CASE StageSkip
      BY <2>2, <3>1, <1>n DEF StageSkip, StagedPath
    <3>2. CASE StageInstall /\ new[Item] = "dir"
      <4>1. disk' = [disk EXCEPT ![p] = "dir"]
        BY <2>2, <3>2 DEF StageInstall
      <4>2. disk'[p] = "dir"
        BY <4>1 DEF RInv, TypeOK, Trees
      <4> QED BY <2>2, <3>2, <4>2, <1>n DEF StagedPath
    <3>3. CASE StageInstall /\ new[Item] # "dir"
      <4>1. update' = [update EXCEPT ![p] = new[p]] /\ disk' = disk
        BY <2>2, <3>3 DEF StageInstall
      <4>2. update'[p] = new[p]
        BY <4>1 DEF RInv, TypeOK
      <4>3. ~TypeChanged(p)
        BY <2>2, <3>3 DEF StageInstall, RInv, PointInv
      <4>4. ~TypeChanged(p)'
        BY <4>1, <4>3, <1>n DEF TypeChanged, Type
      <4> QED BY <2>2, <3>3, <4>2, <4>4, <1>n DEF StagedPath
    <3> QED BY <1>2, <3>1, <3>2, <3>3
  <2>3. ASSUME NEW i \in 1 .. at PROVE StagedPath(list[i])'
    <3>1. CASE i = at
      <4>1. list'[i] \in Paths /\ list'[i] = Item
        BY <3>1, <2>1 DEF Item
      <4>2. \A p \in Paths : p = list'[i] => StagedPath(p)'
        BY <4>1, <2>2
      <4> QED BY <4>1, <4>2, ByPath
    <3>2. CASE i # at
      <4>1. i \in 1 .. at - 1
        BY <3>2, <1>t
      <4>2. list'[i] \in Paths /\ \A p \in Paths : p = list'[i] => StagedPath(p)'
        BY <4>1, <2>1, <1>s
      <4> QED BY <4>2, ByPath
    <3> QED BY <3>1, <3>2
  <2>4. 1 .. at' - 1 = 1 .. at
    BY <2>1, <1>t
  <2> QED BY <2>3, <2>4 DEF StagedInv
<1>3. CASE Download
  BY <1>3 DEF Download, RInv, PointInv, StagedInv
<1>4. CASE \/ StageFixParent \/ StageFixNotDownloaded \/ StageFixFails \/ StageParentFound
           \/ StageNotAbsolute \/ StagePrepare \/ StageError
  BY <1>4, <1>1 DEF StageFixParent, StageFixNotDownloaded, StageFixFails, StageParentFound,
                    StageNotAbsolute, StagePrepare, StageError
<1>5. CASE AlreadyUpToDate \/ Compare \/ Crash \/ StageEnd \/ Rename
  <2>1. pc' \notin {"stage", "prepare", "install"}
    BY <1>5 DEF AlreadyUpToDate, Compare, Crash, StageEnd, Rename, RenameDeleted,
                RenameDir, RenameStaged, RenameError, RemoveAgain, RemoveAgainError,
                RenameEnd, Step
  <2> QED BY <2>1 DEF StagedInv
<1>6. CASE Rest \/ UNCHANGED vars
  <2>1. UNCHANGED <<pc, at, list, new, disk, update>>
    BY <1>6 DEF Rest
  <2> QED BY <2>1 DEF RInv, StagedInv, StagedPath, Deleted, TypeChanged
<1> QED BY <1>2, <1>3, <1>4, <1>5, <1>6 DEF Next, Stage

\* What is as the new version has it, and not staged, stays so while the others
\* are renamed.
LEMMA RenamedStep ==
  ASSUME RInv, [Next]_vars, pc = "rename", NEW p \in Paths,
         disk[p] = new[p], update[p] = "absent"
  PROVE  disk'[p] = new[p] /\ update'[p] = "absent"
<1>t. /\ disk \in [Paths -> Nodes]
      /\ update \in [Paths -> Files \union {"link", "absent"}]
  BY DEF RInv, TypeOK, Trees
<1>1. CASE NoneTouched
  BY <1>1 DEF NoneTouched
<1>2. ASSUME NEW q \in Paths, DirMade(q) PROVE disk'[p] = new[p] /\ update'[p] = "absent"
  BY <1>2, <1>t DEF DirMade
<1>3. ASSUME NEW q \in Paths, PathCleared(q) PROVE disk'[p] = new[p] /\ update'[p] = "absent"
  <2>1. p = q => new[p] = "absent"
    BY <1>3 DEF PathCleared, InTheWay, Deleted, TypeChanged
  <2> QED BY <1>3, <2>1, <1>t DEF PathCleared
<1>4. ASSUME NEW q \in Paths, DirMoved(q) PROVE disk'[p] = new[p] /\ update'[p] = "absent"
  <2>1. /\ disk'[p] = IF q \in {p, Parent[p]} THEN "absent" ELSE disk[p]
        /\ update'[p] = "absent"
    BY <1>4 DEF DirMoved
  <2>2. p = q => new[p] = "absent"
    BY <1>4 DEF DirMoved, InTheWay, Deleted, TypeChanged
  <2>3. Parent[p] = q => new[p] = "absent"
    BY <1>4, HeldIsDeleted DEF DirMoved
  <2> QED BY <2>1, <2>2, <2>3
<1>5. ASSUME NEW q \in Paths, PathStaged(q) \/ StagedDropped(q) \/ PathRenamed(q)
      PROVE  disk'[p] = new[p] /\ update'[p] = "absent"
  BY <1>5, <1>t DEF PathStaged, StagedDropped, PathRenamed
<1> QED BY TreeStep, <1>1, <1>2, <1>3, <1>4, <1>5 DEF PathTouched

\* A path that is to be deleted is never staged.
LEMMA DeletedNotStaged ==
  ASSUME RInv, NEW p \in Paths, new[p] \in {"absent", "dir"}
  PROVE  update[p] = "absent"
<1>1. update[p] \in Files \union {"link", "absent"}
  BY DEF RInv, TypeOK
<1> QED BY <1>1 DEF RInv, UpdateInv, Files

\* A directory whose turn it is in the second pass is gone after it.
LEMMA RemoveAgainRemoves ==
  ASSUME RInv, RemoveAgain
  PROVE  disk'[Head(again)] = "absent" /\ update'[Head(again)] = "absent"
<1> DEFINE d == Head(again)
<1>t. disk \in [Paths -> Nodes] /\ update \in [Paths -> Files \union {"link", "absent"}]
  BY DEF RInv, TypeOK, Trees
<1>1. again # <<>> /\ pc = "rename"
  BY DEF RemoveAgain
<1>2. 1 \in 1 .. Len(again) /\ d = again[1]
  BY <1>1, ItemFacts
<1>3. d \in Listed /\ Deleted(d)
  BY <1>1, <1>2 DEF RInv, AgainInv
<1>4. d \in Paths /\ update[d] = "absent"
  BY <1>3, ItemFacts, DeletedNotStaged DEF Deleted
<1>5. CASE IsAbsolute(Parent[d], disk) /\ ~CanRemove(d)
  <2>1. MoveAway(d, update)
    BY <1>5 DEF RemoveAgain
  <2> QED BY <2>1, <1>4, <1>t DEF MoveAway
<1>6. CASE IsAbsolute(Parent[d], disk) /\ CanRemove(d)
  <2>1. Unlink(d) /\ UNCHANGED update /\ Reached(d) = d
    BY <1>4, <1>6, OpenIsAbsolute, OpenIsReached DEF RemoveAgain
  <2> QED BY <2>1, <1>4, <1>t DEF Unlink
<1>7. CASE ~IsAbsolute(Parent[d], disk)
  <2>1. UNCHANGED <<disk, update>> /\ disk[d] = "absent"
    BY <1>4, <1>7, OpenIsAbsolute DEF RemoveAgain, Open, RInv, TypeOK, OnlyDirsHold
  <2> QED BY <2>1, <1>4
<1> QED BY <1>5, <1>6, <1>7

\* A directory that is to be removed again later is, unless its turn comes.
LEMMA AgainStep ==
  ASSUME RInv, [Next]_vars, pc = "rename", pc' = "rename", errs' = 0,
         NEW p \in Paths, Deleted(p), p \in ToSet(again)
  PROVE  RenamedPath(p)'
<1>t. again \in Seq(Paths) /\ errs \in Nat
  BY DEF RInv, TypeOK
<1>n. new' = new /\ Deleted(p)'
  BY ManifestsFixed DEF Deleted
<1>1. PICK j \in 1 .. Len(again) : p = again[j]
  BY <1>t DEF ToSet
<1>2. CASE RemoveAgain
  <2>1. again # <<>> /\ again' = Tail(again)
    BY <1>2 DEF RemoveAgain
  <2>2. CASE j = 1
    <3>1. p = Head(again)
      BY <2>1, <2>2, <1>1, ItemFacts
    <3>2. disk'[p] = "absent" /\ update'[p] = "absent"
      BY <3>1, <1>2, RemoveAgainRemoves
    <3> QED BY <3>2, <1>n DEF RenamedPath, Deleted
  <2>3. CASE j # 1
    <3>1. j - 1 \in 1 .. Len(again) - 1 /\ (j - 1) + 1 = j
      BY <2>3, <1>t
    <3>2. again'[j - 1] = p
      BY <3>1, <2>1, <1>1, ItemFacts
    <3>3. again' \in Seq(Paths) /\ Len(again') = Len(again) - 1
      BY <2>1, ItemFacts
    <3>4. j - 1 \in DOMAIN again'
      BY <3>1, <3>3
    <3> QED BY <3>2, <3>4, <1>n DEF RenamedPath, ToSet
  <2> QED BY <2>2, <2>3
<1>3. CASE again' = again
  BY <1>3, <1>n DEF RenamedPath
<1>4. CASE RenameDeleted /\ again' = <<Item>> \o again
  <2>1. Item \in Paths
    BY <1>4, ItemFacts DEF RenameDeleted
  <2>2. j + 1 \in DOMAIN again' /\ again'[j + 1] = p
    BY <2>1, <1>4, <1>1, <1>t
  <2> QED BY <2>2, <1>n DEF RenamedPath, ToSet
<1>5. CASE RemoveAgainError
  <2>1. errs' = errs + 1
    BY <1>5 DEF RemoveAgainError
  <2> QED BY <2>1, <1>t
<1>6. RemoveAgain \/ again' = again \/ (RenameDeleted /\ again' = <<Item>> \o again)
        \/ RemoveAgainError
  BY DEF Next, Stage, Rename, AlreadyUpToDate, Compare, Download, Crash, Rest, StageSkip,
         StageFixParent, StageFixNotDownloaded, StageFixFails, StageParentFound,
         StageNotAbsolute, StagePrepare, StageInstall, StageError, StageEnd, RenameDeleted,
         RenameDir, RenameStaged, RenameError, RenameEnd
<1> QED BY <1>2, <1>3, <1>4, <1>5, <1>6

\* An item whose turn it is, is renamed or removed, or left for later, unless an
\* error is counted.
LEMMA ItemStep ==
  ASSUME RInv, RenameDeleted \/ RenameDir \/ RenameStaged, NEW p \in Paths,
         p = Item, StagedPath(p), new' = new
  PROVE  RenamedPath(p)'
<1>t. /\ again \in Seq(Paths) /\ disk \in [Paths -> Nodes]
      /\ update \in [Paths -> Files \union {"link", "absent"}]
  BY DEF RInv, TypeOK, Trees
<1>n. Deleted(p)' <=> Deleted(p)
  BY DEF Deleted
<1>1. CASE RenameDeleted
  <2>1. Deleted(p) /\ update[p] = "absent" /\ update' = update
    BY <1>1, DeletedNotStaged DEF RenameDeleted, Deleted
  <2>2. CASE IsAbsolute(Parent[p], disk) /\ Unlink(p)
    <3>1. Reached(p) = p
      BY <2>2, OpenIsAbsolute, OpenIsReached
    <3>2. disk'[p] = "absent"
      BY <2>2, <3>1, <1>t DEF Unlink
    <3> QED BY <2>1, <3>2 DEF RenamedPath, Deleted
  <2>3. CASE again' = <<p>> \o again
    <3>1. 1 \in DOMAIN again' /\ again'[1] = p
      BY <2>3, <1>t
    <3>2. p \in ToSet(again')
      BY <3>1 DEF ToSet
    <3> QED BY <2>1, <3>2, <1>n DEF RenamedPath
  <2>4. CASE ~IsAbsolute(Parent[p], disk) /\ UNCHANGED disk
    <3>1. disk[p] = "absent"
      BY <2>4, OpenIsAbsolute DEF Open, RInv, TypeOK, OnlyDirsHold
    <3> QED BY <2>1, <2>4, <3>1 DEF RenamedPath, Deleted
  <2> QED BY <1>1, <2>2, <2>3, <2>4 DEF RenameDeleted
<1>2. CASE RenameDir
  <2>1. new[p] = "dir" /\ UNCHANGED <<disk, update>>
    BY <1>2 DEF RenameDir
  <2>2. disk[p] = "dir" /\ update[p] = "absent"
    BY <2>1, DeletedNotStaged DEF StagedPath, Deleted
  <2> QED BY <2>1, <2>2 DEF RenamedPath
<1>3. CASE RenameStaged
  <2>1. /\ disk' = [disk EXCEPT ![p] = update[p]]
        /\ update' = [update EXCEPT ![p] = "absent"] /\ update[p] = new[p]
    BY <1>3 DEF RenameStaged, Renamed, RInv, UpdateInv
  <2>2. disk'[p] = new[p] /\ update'[p] = "absent"
    BY <2>1, <1>t
  <2> QED BY <2>2 DEF RenamedPath
<1> QED BY <1>1, <1>2, <1>3

\* The steps of the rename phase.
LEMMA RenameMoves ==
  ASSUME RInv, Next, pc = "rename", pc' = "rename"
  PROVE  /\ list' = list /\ (errs' = errs \/ errs' = errs + 1)
         /\ \/ Rest
            \/ /\ at' = at + 1 /\ at <= Len(list)
               /\ errs' = errs => RenameDeleted \/ RenameDir \/ RenameStaged
            \/ at' = at /\ at > Len(list)
<1>t. errs \in Nat
  BY DEF RInv, TypeOK
<1>1. CASE RenameDeleted \/ RenameDir \/ RenameStaged
  BY <1>1 DEF RenameDeleted, RenameDir, RenameStaged, Step
<1>2. CASE RenameError
  <2>1. errs' # errs
    BY <1>2, <1>t DEF RenameError
  <2> QED BY <1>2, <2>1 DEF RenameError, Step
<1>3. CASE RemoveAgain \/ RemoveAgainError
  BY <1>3 DEF RemoveAgain, RemoveAgainError
<1>4. CASE ~Rename /\ ~Rest
  BY <1>4 DEF Next, Stage, AlreadyUpToDate, Compare, Download, Crash, StageSkip,
       StageFixParent, StageFixNotDownloaded, StageFixFails, StageParentFound,
       StageNotAbsolute, StagePrepare, StageInstall, StageError, StageEnd
<1>5. ~Rest /\ ~RenameEnd
  BY DEF Rest, RenameEnd
<1> QED BY <1>1, <1>2, <1>3, <1>4, <1>5 DEF Rename

LEMMA RenameStep ==
  ASSUME RInv, [Next]_vars
  PROVE  RenameInv'
<1>t. at \in 1 .. Len(list) + 1 /\ Len(list) \in Nat /\ errs \in Nat
  BY DEF RInv, TypeOK
<1>n. new' = new
  BY ManifestsFixed
<1>1. CASE StageEnd
  <2>1. /\ pc = "stage" /\ at = Len(list) + 1 /\ at' = 1
        /\ UNCHANGED <<list, disk, update>>
    BY <1>1, <1>t DEF StageEnd
  <2>2. \A i \in 1 .. Len(list) : StagedPath(list[i])
    BY <2>1, <1>t DEF RInv, StagedInv
  <2>3. \A i \in 1 .. Len(list) : StagedPath(list[i])'
    BY <2>1, <2>2, <1>n DEF StagedPath, Deleted, TypeChanged, Type
  <2> QED BY <2>1, <2>3 DEF RenameInv
<1>2. CASE Next /\ pc = "rename" /\ pc' = "rename"
  <2>1. /\ list' = list /\ (errs' = errs \/ errs' = errs + 1)
        /\ \/ /\ at' = at + 1 /\ at <= Len(list)
              /\ errs' = errs => RenameDeleted \/ RenameDir \/ RenameStaged
           \/ at' = at /\ at > Len(list)
    BY <1>2, RenameMoves DEF Rest
  <2>2. ASSUME NEW i \in at' .. Len(list) PROVE StagedPath(list[i])'
    <3>1. i \in 1 .. Len(list) /\ i # at /\ i \in at .. Len(list)
      BY <2>1, <1>t
    <3>2. list[i] \in Paths /\ StagedPath(list[i]) /\ ~AtItem(list[i])
      BY <1>2, <3>1, ItemFacts, OtherItems DEF RInv, RenameInv
    <3>3. list'[i] \in Paths /\ \A p \in Paths : p = list'[i] => StagedPath(p)'
      BY <2>1, <3>2, StagedStep
    <3> QED BY <3>3, ByPath
  <2>3. ASSUME errs' = 0, NEW i \in 1 .. at' - 1 PROVE RenamedPath(list[i])'
    <3>0. errs = 0 /\ errs' = errs /\ i \in 1 .. Len(list)
      BY <2>1, <2>3, <1>t
    <3>1. ASSUME NEW p \in Paths, p = list'[i] PROVE RenamedPath(p)'
      <4>1. CASE i \in 1 .. at - 1
        <5>1. RenamedPath(p)
          BY <1>2, <2>1, <3>0, <3>1, <4>1 DEF RInv, RenameInv
        <5>2. CASE disk[p] = new[p] /\ update[p] = "absent"
          BY <1>2, <1>n, <5>2, RenamedStep DEF RenamedPath
        <5>3. CASE Deleted(p) /\ p \in ToSet(again)
          BY <1>2, <2>3, <5>3, AgainStep
        <5> QED BY <5>1, <5>2, <5>3 DEF RenamedPath
      <4>2. CASE i \notin 1 .. at - 1
        <5>1. i = at /\ at <= Len(list) /\ p = Item
          BY <2>1, <3>1, <4>2, <1>t DEF Item
        <5>2. StagedPath(p)
          BY <1>2, <5>1, <1>t DEF RInv, RenameInv, Item
        <5>3. RenameDeleted \/ RenameDir \/ RenameStaged
          BY <2>1, <3>0, <5>1
        <5> QED BY <5>1, <5>2, <5>3, <1>n, ItemStep
      <4> QED BY <4>1, <4>2
    <3>2. list'[i] \in Paths
      BY <3>0, <2>1, ItemFacts
    <3> QED BY <3>1, <3>2, ByPath
  <2> QED BY <2>1, <2>2, <2>3 DEF RenameInv
<1>3. CASE Next /\ pc # "rename" /\ ~StageEnd
  <2>1. pc' # "rename"
    BY <1>3 DEF Next, Stage, Rename, AlreadyUpToDate, Compare, Download, Crash, Rest, StageSkip,
       StageFixParent, StageFixNotDownloaded, StageFixFails, StageParentFound,
       StageNotAbsolute, StagePrepare, StageInstall, StageError, RenameDeleted,
       RenameDir, RenameStaged, RenameError, RemoveAgain, RemoveAgainError, RenameEnd, Fails
  <2> QED BY <2>1 DEF RenameInv
<1>4. CASE pc' # "rename"
  BY <1>4 DEF RenameInv
<1>5. CASE UNCHANGED vars
  BY <1>5 DEF RInv, RenameInv, StagedPath, RenamedPath, Deleted, TypeChanged, Type
<1> QED BY <1>1, <1>2, <1>3, <1>4, <1>5

\* A run that ends with no error has installed everything.
LEMMA OkStep ==
  ASSUME RInv, [Next]_vars
  PROVE  OkInv'
<1>m. UNCHANGED <<old, new, bumped>> /\ ToInstall' = ToInstall
  BY ManifestsFixed DEF ToInstall
<1>1. CASE RenameEnd /\ errs = 0
  <2>1. /\ pc = "rename" /\ at = Len(list) + 1 /\ again = <<>> /\ pc' = "idle"
        /\ UNCHANGED <<disk, update>>
    BY <1>1 DEF RenameEnd, RInv, TypeOK
  <2>2. ASSUME NEW p \in Listed PROVE disk[p] = new[p] /\ update[p] = "absent"
    <3>1. PICK i \in 1 .. Len(list) : p = list[i]
      BY DEF Listed, ToSet, RInv, TypeOK
    <3>2. RenamedPath(list[i])
      BY <1>1, <2>1, <3>1 DEF RInv, TypeOK, RenameInv
    <3>3. ToSet(again) = {}
      BY <2>1 DEF ToSet
    <3> QED BY <3>1, <3>2, <3>3 DEF RenamedPath
  <2>3. ASSUME NEW p \in Paths, p \notin Listed
        PROVE  (p \in ToInstall => disk[p] = new[p]) /\ update[p] = "absent"
    BY <2>1, <2>3 DEF RInv, ListInv, UpdateInv, ToInstall
  <2>4. Installed
    BY <2>2, <2>3 DEF Installed
  <2> QED BY <2>1, <2>4, <1>m DEF OkInv, Installed
<1>2. CASE RenameEnd /\ errs # 0
  BY <1>2 DEF RenameEnd, OkInv
<1>3. CASE Rest \/ UNCHANGED vars
  <2>1. UNCHANGED <<pc, result, disk, update>>
    BY <1>3 DEF Rest
  <2> QED BY <2>1, <1>m DEF RInv, OkInv, Installed
<1>4. CASE AlreadyUpToDate \/ Compare \/ Crash
  BY <1>4 DEF AlreadyUpToDate, Compare, Crash, OkInv
<1>5. CASE Download \/ Stage \/ (Rename /\ ~RenameEnd)
  <2>1. pc # "idle" /\ result' \in {result, "failed"}
    BY <1>5 DEF Stage, Rename, Download, StageSkip,
       StageFixParent, StageFixNotDownloaded, StageFixFails, StageParentFound,
       StageNotAbsolute, StagePrepare, StageInstall, StageError, StageEnd, RenameDeleted,
       RenameDir, RenameStaged, RenameError, RemoveAgain, RemoveAgainError, Fails
  <2> QED BY <2>1 DEF RInv, OkInv
<1> QED BY <1>1, <1>2, <1>3, <1>4, <1>5 DEF Next

LEMMA InductionStep ==
  ASSUME RInv, [Next]_vars
  PROVE  RInv'
<1>1. UNCHANGED <<old, new, bumped>>
  BY ManifestsFixed
<1>2. TypeOK'
  <2>1. old' \in Trees /\ new' \in Trees
    BY <1>1 DEF RInv, TypeOK
  <2> QED BY <2>1, TreeStaysTree, ControlStep DEF TypeOK, TreeTypes, ControlOK, Points
<1>3. ManifestInv'
  BY <1>1 DEF RInv, ManifestInv, IsTree
<1> QED
  BY <1>2, <1>3, MineStep, UpdateStep, KeepStep, ListStep, PointStep, ControlStep,
     StageStep, RenameStep, OkStep
  DEF RInv

LEMMA InitInv ==
  ASSUME Init
  PROVE  RInv
<1>1. PICK m \in Manifests : old = m.old /\ new = m.new /\ bumped = m.bumped
  BY DEF Init
<1>2. PICK d \in {p \in Paths : Kids(p) # {} /\ old[p] = "dir"}, how \in Damages :
        /\ disk = Damaged(old, d, how)
        /\ mine = IF how = "mine" THEN {d} ELSE {}
  BY DEF Init
<1>3. /\ old \in [Paths -> Nodes] /\ new \in [Paths -> Nodes] /\ bumped \subseteq Paths
      /\ IsTree(old) /\ IsTree(new)
  BY <1>1, PathsAssumption
<1>4. how \in {"none", "mine"} \/ (how \in Nodes /\ how # "dir")
  BY PathsAssumption
<1>5. \A p \in Paths : disk[p] = IF how \in {"none", "mine"} THEN old[p]
                                 ELSE IF p = d THEN how
                                 ELSE IF Parent[p] = d THEN "absent"
                                 ELSE old[p]
  BY <1>2 DEF Damaged
<1>6. disk \in [Paths -> Nodes]
  <2>1. "absent" \in Nodes
    BY DEF Nodes
  <2> QED BY <1>2, <1>3, <1>4, <2>1 DEF Damaged
<1>7. Parent[d] = Root /\ d \in Paths /\ old[d] = "dir" /\ Kids(d) # {}
  BY KidsAreTopLevel
<1>8. mine \subseteq {d} /\ (mine # {} => disk = old)
  BY <1>2, <1>3, <1>5 DEF Damaged
<1>9. \A p \in Paths : update[p] = "absent"
  BY DEF Init
<1>10. OnlyDirsHold
  <2> SUFFICES ASSUME NEW p \in Paths, Parent[p] # Root, disk[Parent[p]] # "dir"
               PROVE  disk[p] = "absent" /\ Parent[p] \notin mine
    BY <1>9 DEF OnlyDirsHold
  <2>1. Parent[p] \in Paths /\ Parent[Parent[p]] = Root /\ Root \notin Paths
    BY ParentFacts
  <2>2. CASE how \in {"none", "mine"}
    <3>1. old[Parent[p]] # "dir" /\ disk[p] = old[p]
      BY <2>1, <2>2, <1>5
    <3> QED BY <3>1, <1>3, <1>7, <1>8 DEF IsTree
  <2>3. CASE how \notin {"none", "mine"}
    <3>1. mine = {}
      BY <2>3, <1>2
    <3>2. CASE Parent[p] = d
      BY <3>1, <3>2, <2>3, <1>5, <1>7, ParentFacts
    <3>3. CASE Parent[p] # d
      <4>1. disk[Parent[p]] = old[Parent[p]]
        BY <3>3, <2>1, <2>3, <1>5, <1>7
      <4>2. old[p] = "absent" /\ p # d
        BY <4>1, <1>3, <1>7 DEF IsTree
      <4> QED BY <4>2, <3>1, <3>3, <2>3, <1>5
    <3> QED BY <3>2, <3>3
  <2> QED BY <2>2, <2>3
<1>11. TypeOK
  <2>1. /\ pc = "idle" /\ result = "none" /\ list = <<>> /\ at = 1 /\ again = <<>> /\ errs = 0
        /\ update = [p \in Paths |-> "absent"]
    BY DEF Init
  <2>2. mine \subseteq Paths
    BY <1>7, <1>8
  <2>3. list \in Seq(Paths) /\ Len(list) = 0 /\ again \in Seq(Paths)
    BY <2>1
  <2> QED BY <2>1, <2>2, <2>3, <1>3, <1>6, <1>10 DEF TypeOK, Trees
<1>12. ManifestInv /\ UpdateInv
  BY <1>3, <1>9 DEF ManifestInv, UpdateInv
<1>13. MineInv
  BY <1>7, <1>8 DEF MineInv
<1>14. KeepInv
  <2> SUFFICES ASSUME NEW p \in Paths, InBoth(p), disk[p] # "absent"
               PROVE  Type(disk[p]) = Type(new[p])
    BY DEF KeepInv
  <2>1. p # d
    BY <1>3, <1>7 DEF InBoth, Type, Nodes, Files
  <2>2. disk[p] = old[p]
    BY <2>1, <1>5
  <2> QED BY <2>2 DEF InBoth
<1>15. ListInv /\ StillOutdated /\ PointInv /\ ErrInv /\ AgainInv /\ StagedInv /\ RenameInv /\ OkInv
  BY DEF Init, ListInv, StillOutdated, PointInv, ErrInv, AgainInv, StagedInv, RenameInv, OkInv
<1> QED BY <1>11, <1>12, <1>13, <1>14, <1>15 DEF RInv

----------------------------------------------------------------------------
(* The theorems.                                                           *)

\* The invariant is inductive.
THEOREM Invariance == Spec => []RInv
<1> QED BY InitInv, InductionStep, PTL DEF Spec

\* The types, and the root file system stays a tree: target_root.c never leaves
\* or stages anything below what is not a directory.
THEOREM TypeCorrect == Spec => []TypeOK
<1>1. RInv => TypeOK
  BY DEF RInv
<1> QED BY <1>1, Invariance, PTL

\* target_root_install_files reports success only with the whole update in place,
\* whatever earlier runs were killed or failed half way.
THEOREM OkIsInstalled == Spec => []OkMeansInstalled
<1>1. RInv => OkMeansInstalled
  BY DEF RInv, OkInv, OkMeansInstalled
<1> QED BY <1>1, Invariance, PTL

\* What both versions have as a file is never missing: rename_staged_file_to_final
\* replaces it in one step.
THEOREM FilesPresent == Spec => FilesStayPresent
<1>1. RInv /\ [Next]_vars
        => [\A p \in Paths : InBoth(p) /\ disk[p] # "absent" => disk'[p] # "absent"]_vars
  BY KeepStep
<1> QED BY <1>1, Invariance, PTL DEF Spec, FilesStayPresent

\* The user's files are not removed: move_to_timestamp takes their directory away,
\* nothing else does.
THEOREM UserFilesSafe == Spec => UserFilesKept
<1>1. RInv /\ [Next]_vars
        => [\A d \in mine : \/ d \in mine' /\ disk'[d] = "dir"
                            \/ \E b \in backups' : b.dir = d /\ b.mine]_vars
  BY MineStep
<1> QED BY <1>1, Invariance, PTL DEF Spec, UserFilesKept

\* Nothing but the listed paths, their directories and what they hold is touched;
\* in particular sys_path_is_absolute keeps swupd from following a link.
THEOREM ListedOnly == Spec => OnlyListedTouched
<1>1. RInv /\ [Next]_vars
        => [\A p \in Paths : disk'[p] # disk[p] =>
              \E q \in ToSet(list) : p = q \/ p = Parent[q] \/ Parent[p] = q]_vars
  BY ListedStep
<1> QED BY <1>1, Invariance, PTL DEF Spec, OnlyListedTouched

\* What rename_staged_file_to_final finds when a file's turn comes: the new content
\* under the staged name, and nothing in its place that rename(2) cannot replace.
RenameReady ==
  pc = "rename" /\ at <= Len(list) /\ ~Deleted(Item) /\ new[Item] # "dir" =>
    update[Item] = new[Item] /\ disk[Item] # "dir"

\* No rename can fail for what stage_files left undone.
THEOREM StagedBeforeRenamed == Spec => []RenameReady
<1>1. ASSUME RInv, pc = "rename", at <= Len(list), ~Deleted(Item), new[Item] # "dir"
      PROVE  update[Item] = new[Item] /\ disk[Item] # "dir"
  <2>1. Item \in Paths /\ at \in at .. Len(list)
    BY <1>1, ItemFacts DEF RInv, TypeOK
  <2>2. StagedPath(Item)
    BY <1>1, <2>1 DEF RInv, RenameInv, Item
  <2>3. update[Item] = new[Item] /\ ~TypeChanged(Item)
    BY <1>1, <2>2 DEF StagedPath
  <2>4. Type("dir") = "dir" /\ Type(new[Item]) # "dir"
    BY <1>1 DEF Type, Files
  <2> QED BY <2>3, <2>4 DEF TypeChanged
<1>2. RInv => RenameReady
  BY <1>1 DEF RenameReady
<1> QED BY <1>2, Invariance, PTL
=============================================================================

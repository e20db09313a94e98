----------------------------- MODULE RootInstall -----------------------------
(***************************************************************************)
(* How an update lands on the root file system: create_update_list         *)
(* (cmds/update.c) compares two consolidated manifests, and                *)
(* target_root_install_files (swupd_lib/target_root.c) stages every new    *)
(* file beside its target and then renames them all. The process may be    *)
(* killed between any two steps and the update be run again.               *)
(*                                                                         *)
(* Paths are at most two deep. A link leads to the directory LinkTarget;   *)
(* Through[p] is where the last component of p lies behind such a link.    *)
(***************************************************************************)
EXTENDS Integers, Sequences, SequencesExt, FiniteSets

CONSTANTS
  Order,         \* every path, in the order of cmp_file_filename_is_deleted
  Parent,        \* the directory of each path, Root for the top level
  Root,
  Version,       \* the path of the os-release file
  LinkTarget,    \* the directory links lead to
  Through,       \* path -> the path reached when its parent is a link
  Manifests,     \* the consolidated manifests of the two versions: records with
                 \* old, new and bumped, what has a new version but the same hash
  Damages,       \* what the user may have done to the installed tree
  CrashBudget,   \* bound: how often the process is killed
  FaultBudget,   \* bound: failing I/O, downloads included
  RunBudget      \* bound: how often update is run

Paths == {Order[i] : i \in DOMAIN Order}

Before(p, q) == \E i, j \in DOMAIN Order : i < j /\ Order[i] = p /\ Order[j] = q

\* Two contents of a regular file; "dir" and "link" are the other types.
Files == {"old", "new"}
Nodes == Files \union {"dir", "link", "absent"}
Type(n) == IF n \in Files THEN "file" ELSE n

IsTree(tree) ==
  \A p \in Paths : Parent[p] # Root /\ tree[p] # "absent" => tree[Parent[p]] = "dir"

\* Consolidated manifests describe trees. No damage makes a directory.
ASSUME PathsAssumption ==
  /\ Order \in Seq(Paths)
  /\ Parent \in [Paths -> Paths \union {Root}] /\ Root \notin Paths
  /\ \A p \in Paths : Parent[p] # Root => Parent[Parent[p]] = Root
  /\ Version \in Paths /\ Parent[Version] = Root
  /\ LinkTarget \in Paths /\ Parent[LinkTarget] = Root
  /\ Through \in [Paths -> Paths \union {Root}]
  /\ \A m \in Manifests : /\ m.old \in [Paths -> Nodes] /\ m.new \in [Paths -> Nodes]
                          /\ m.bumped \subseteq {p \in Paths : m.old[p] = m.new[p]}
                          /\ IsTree(m.old) /\ IsTree(m.new)
  /\ Damages \subseteq {"none", "mine"} \union (Nodes \ {"dir"})

ASSUME BoundsAssumption ==
  CrashBudget \in Nat /\ FaultBudget \in Nat /\ RunBudget \in Nat

VARIABLES
  pc,        \* control point of swupd update, "idle" when it is not running
  old, new,  \* the manifest the system was installed from, and the server's
  bumped,    \* the paths with an equal hash but a newer last_change in new
  disk,      \* what is at each path
  update,    \* per path p, the content of .update.p, or "absent"
  mine,      \* the directories in which the user keeps a file of his own
  backups,   \* contents of the .deleted. directories: what was at each path
  list,      \* the sorted update list
  at,        \* index into it
  again,     \* dirs_to_remove: directories that were not empty
  errs,      \* update_errs
  result,    \* of the last run: "none", "ok", "current" (nothing to do), "failed"
  crashes, faults, runs

treeVars == <<disk, update, mine, backups>>
manifestVars == <<old, new, bumped>>
budgets == <<crashes, faults, runs>>
vars == <<pc, manifestVars, treeVars, list, at, again, errs, result, budgets>>

Kids(d) == {p \in Paths : Parent[p] = d}

\* Mutant: any parent will do.
AnyParent(d, tree) == d \in Paths \union {Root}

\* A path can be reached without following a link (sys_path_is_absolute).
IsAbsolute(d, tree) == d \in {Root} \union {p \in Paths : tree[p] = "dir"}

\* stat, which follows links, sees a directory (sys_filelink_is_dir).
LeadsToDir(d) ==
  d \in {Root} \union {p \in Paths : disk[IF disk[p] = "link" THEN LinkTarget ELSE p] = "dir"}

Empty(d) == /\ \A p \in Kids(d) : disk[p] = "absent" /\ update[p] = "absent"
            /\ d \notin mine

\* The user may remove a directory, put another file or a link in its place,
\* or keep a file of his own in it.
Damaged(tree, d, how) ==
  [p \in Paths |->
     IF how \in {"none", "mine"} THEN tree[p]
     ELSE IF p = d THEN how
     ELSE IF Parent[p] = d THEN "absent"
     ELSE tree[p]]

Init ==
  /\ pc = "idle" /\ result = "none"
  /\ \E m \in Manifests : old = m.old /\ new = m.new /\ bumped = m.bumped
  /\ \E d \in {p \in Paths : Kids(p) # {} /\ old[p] = "dir"}, how \in Damages :
       /\ how = "link" => d # LinkTarget
       /\ disk = Damaged(old, d, how)
       /\ mine = IF how = "mine" THEN {d} ELSE {}
  /\ update = [p \in Paths |-> "absent"]
  /\ backups = {}
  /\ list = <<>> /\ at = 1 /\ again = <<>> /\ errs = 0
  /\ crashes = CrashBudget /\ faults = FaultBudget /\ runs = RunBudget

----------------------------------------------------------------------------
(* File system calls.                                                      *)

\* Where a path leads when its directory is a link.
Reached(p) == IF Parent[p] # Root /\ disk[Parent[p]] = "link" THEN Through[p] ELSE p

\* Mutant: sys_rm_recursive where sys_rm is called.
RemoveRecursively(p) == p \in Paths

\* sys_rm: unlink, or rmdir of an empty directory.
CanRemove(p) == disk[Reached(p)] # "dir" \/ Empty(Reached(p))
Unlink(p) == disk' = [disk EXCEPT ![Reached(p)] = "absent"]

\* Mutant: the directory goes, what it holds stays.
MoveAwayShallow(d, staged) ==
  /\ disk' = [disk EXCEPT ![d] = "absent"]
  /\ update' = staged
  /\ mine' = mine \ {d}
  /\ backups' = backups \union {[dir |-> d, mine |-> d \in mine, held |-> <<>>]}

\* move_to_timestamp: the directory and all it holds, of the staged files
\* those in it, get another name.
MoveAway(d, staged) ==
  /\ disk' = [p \in Paths |-> IF d \in {p, Parent[p]} THEN "absent" ELSE disk[p]]
  /\ update' = [p \in Paths |-> IF Parent[p] = d THEN "absent" ELSE staged[p]]
  /\ mine' = mine \ {d}
  /\ backups' = backups \union {[dir |-> d, mine |-> d \in mine,
                                 held |-> [p \in Kids(d) |-> disk[p]]]}

Fault == faults > 0 /\ faults' = faults - 1

Fails == /\ pc' = "idle" /\ result' = "failed"

----------------------------------------------------------------------------
(* execute_update: versions, then the list of changed files.               *)

\* What has another content, and of the bumped paths those that are not
\* installed (is_installed_and_verified).
Changed == {p \in Paths : new[p] # old[p] \/ (p \in bumped /\ disk[p] # new[p])}

\* The update list in the order of its file names.
Sorted(files) ==
  {s \in Bijection(1 .. Cardinality(files), files) :
     \A i, j \in DOMAIN s : i < j => Before(s[i], s[j])}

\* The version on disk is the server's: nothing to do.
AlreadyUpToDate ==
  /\ pc = "idle" /\ runs > 0 /\ runs' = runs - 1
  /\ disk[Version] = new[Version]
  /\ result' = "current"
  /\ UNCHANGED <<pc, manifestVars, treeVars, list, at, again, errs, crashes, faults>>

\* The list is made from the manifests; of the disk only bumped paths matter.
Compare ==
  /\ pc = "idle" /\ runs > 0 /\ runs' = runs - 1
  /\ disk[Version] # new[Version]
  /\ list' \in Sorted(Changed) /\ at' = 1 /\ again' = <<>> /\ errs' = 0
  /\ pc' = "download" /\ result' = "none"
  /\ UNCHANGED <<manifestVars, treeVars, crashes, faults>>

\* update_loop: every file is fetched before the first one is installed.
Download ==
  /\ pc = "download"
  /\ \/ /\ pc' = "stage"
        /\ UNCHANGED <<result, faults>>
     \/ Fault /\ Fails
  /\ UNCHANGED <<manifestVars, treeVars, list, at, again, errs, crashes, runs>>

----------------------------------------------------------------------------
(* stage_files: directories are made, the rest is staged as .update.       *)

Item == list[at]
Deleted(p) == new[p] = "absent"

StageSkip ==
  /\ pc = "stage" /\ at <= Len(list) /\ Deleted(Item)
  /\ at' = at + 1
  /\ UNCHANGED <<pc, manifestVars, treeVars, list, again, errs, result, budgets>>

\* stage_single_file needs the parent to be a directory or calls
\* verify_fix_path, which puts back the one the manifest describes.
StageFixParent ==
  /\ pc = "stage" /\ at <= Len(list) /\ ~Deleted(Item)
  /\ ~LeadsToDir(Parent[Item])
  /\ new[Parent[Item]] = "dir"
  /\ disk' = [disk EXCEPT ![Parent[Item]] = "dir"]
  /\ pc' = "prepare"
  /\ UNCHANGED <<manifestVars, update, mine, backups, list, at, again, errs, result, budgets>>

\* The download of the parent fails: verify_fix_single_directory returns its
\* error code as a bool, that is TRUE, and staging goes on.
StageFixNotDownloaded ==
  /\ pc = "stage" /\ at <= Len(list) /\ ~Deleted(Item)
  /\ ~LeadsToDir(Parent[Item])
  /\ Fault
  /\ pc' = "prepare"
  /\ UNCHANGED <<manifestVars, treeVars, list, at, again, errs, result, crashes, runs>>

\* The parent is downloaded but cannot be unpacked: the run is abandoned.
StageFixFails ==
  /\ pc = "stage" /\ at <= Len(list) /\ ~Deleted(Item)
  /\ ~LeadsToDir(Parent[Item])
  /\ Fault /\ Fails
  /\ UNCHANGED <<manifestVars, treeVars, list, at, again, errs, crashes, runs>>

\* The parent is there.
StageParentFound ==
  /\ pc = "stage" /\ at <= Len(list) /\ ~Deleted(Item)
  /\ LeadsToDir(Parent[Item])
  /\ pc' = "prepare"
  /\ UNCHANGED <<manifestVars, treeVars, list, at, again, errs, result, budgets>>

\* The parent is (still) not a directory of its own, but a link or missing.
StageNotAbsolute ==
  /\ pc = "prepare" /\ ~IsAbsolute(Parent[Item], disk)
  /\ Fails
  /\ UNCHANGED <<manifestVars, treeVars, list, at, again, errs, budgets>>

\* Mutant: whatever is there is moved out of the way.
Occupied(p) == disk[p] # "absent"

TypeChanged(p) == disk[p] # "absent" /\ Type(disk[p]) # Type(new[p])

\* An old .update file is removed, and what has another type than the new
\* content makes way for it.
StagePrepare ==
  /\ pc = "prepare" /\ IsAbsolute(Parent[Item], disk)
  /\ LET cleaned == [update EXCEPT ![Item] = "absent"] IN
     \/ /\ ~TypeChanged(Item)
        /\ update' = cleaned
        /\ UNCHANGED <<disk, mine, backups>>
     \/ /\ TypeChanged(Item) /\ CanRemove(Item)
        /\ Unlink(Item)
        /\ update' = cleaned
        /\ UNCHANGED <<mine, backups>>
     \/ /\ TypeChanged(Item) /\ ~CanRemove(Item)
        /\ MoveAway(Item, cleaned)
  /\ pc' = "install"
  /\ UNCHANGED <<manifestVars, list, at, again, errs, result, budgets>>

\* install_dir makes the directory, install_staged_file links or copies.
StageInstall ==
  /\ pc = "install"
  /\ \/ /\ new[Item] = "dir"
        /\ disk' = [disk EXCEPT ![Item] = "dir"]
        /\ UNCHANGED update
     \/ /\ new[Item] # "dir"
        /\ update' = [update EXCEPT ![Item] = new[Item]]
        /\ UNCHANGED disk
  /\ at' = at + 1 /\ pc' = "stage"
  /\ UNCHANGED <<manifestVars, mine, backups, list, again, errs, result, budgets>>

\* The way could not be cleared, or linking, copying and tar all failed: the
\* update is abandoned.
StageError ==
  /\ pc \in {"prepare", "install"} /\ Fault /\ Fails
  /\ UNCHANGED <<manifestVars, treeVars, list, at, again, errs, crashes, runs>>

StageEnd ==
  /\ pc = "stage" /\ at > Len(list)
  /\ pc' = "rename" /\ at' = 1
  /\ UNCHANGED <<manifestVars, treeVars, list, again, errs, result, budgets>>

----------------------------------------------------------------------------
(* rename_all_files_to_final.                                              *)

Step == at' = at + 1 /\ pc' = "rename"

\* A deleted path is removed, unless a link would have to be followed; what
\* is not there counts as removed, a directory in use is tried again later.
RenameDeleted ==
  /\ pc = "rename" /\ at <= Len(list) /\ Deleted(Item)
  /\ LET reached == IsAbsolute(Parent[Item], disk) IN
     \/ /\ reached /\ CanRemove(Item)
        /\ Unlink(Item)
        /\ UNCHANGED again
     \/ /\ reached /\ ~CanRemove(Item)
        /\ again' = <<Item>> \o again
        /\ UNCHANGED disk
     \/ /\ ~reached
        /\ UNCHANGED <<disk, again>>
  /\ Step
  /\ UNCHANGED <<manifestVars, update, mine, backups, list, errs, result, budgets>>

RenameDir ==
  /\ pc = "rename" /\ at <= Len(list) /\ new[Item] = "dir"
  /\ Step
  /\ UNCHANGED <<manifestVars, treeVars, list, again, errs, result, budgets>>

\* rename(2) replaces a file or a link in one step; it cannot replace a
\* directory. The staged name is unlinked in any case.
Renamed(p) ==
  /\ ~Deleted(p) /\ new[p] # "dir"
  /\ update' = [update EXCEPT ![p] = "absent"]

RenameStaged ==
  /\ pc = "rename" /\ at <= Len(list) /\ Renamed(Item)
  /\ disk[Item] # "dir" /\ update[Item] # "absent"
  /\ disk' = [disk EXCEPT ![Item] = update[Item]]
  /\ Step
  /\ UNCHANGED <<manifestVars, mine, backups, list, again, errs, result, budgets>>

RenameError ==
  /\ pc = "rename" /\ at <= Len(list)
  /\ Renamed(Item) \/ (Deleted(Item) /\ IsAbsolute(Parent[Item], disk) /\ UNCHANGED update)
  /\ Fault
  /\ errs' = errs + 1
  /\ Step
  /\ UNCHANGED <<manifestVars, disk, mine, backups, list, again, result, crashes, runs>>

\* Mutant: a directory that is still not empty is tried once more.
RemoveAgainLater ==
  /\ pc = "rename" /\ at > Len(list) /\ again # <<>>
  /\ IF CanRemove(Head(again))
     THEN Unlink(Head(again)) /\ again' = Tail(again)
     ELSE UNCHANGED disk /\ again' = Append(Tail(again), Head(again))
  /\ UNCHANGED <<pc, manifestVars, update, mine, backups, list, at, errs, result, budgets>>

\* The directories that were not empty, the deepest first; one that still is
\* not is moved to a .deleted. name.
RemoveAgain ==
  /\ pc = "rename" /\ at > Len(list) /\ again # <<>>
  /\ LET d == Head(again) IN
     IF IsAbsolute(Parent[d], disk) /\ ~CanRemove(d)
     THEN MoveAway(d, update)
     ELSE /\ IF IsAbsolute(Parent[d], disk) THEN Unlink(d) ELSE UNCHANGED disk
          /\ UNCHANGED <<update, mine, backups>>
  /\ again' = Tail(again)
  /\ UNCHANGED <<pc, manifestVars, list, at, errs, result, budgets>>

\* It could be neither removed nor moved.
RemoveAgainError ==
  /\ pc = "rename" /\ at > Len(list) /\ again # <<>>
  /\ ~CanRemove(Head(again)) /\ IsAbsolute(Parent[Head(again)], disk)
  /\ Fault
  /\ errs' = errs + 1
  /\ again' = Tail(again)
  /\ UNCHANGED <<pc, manifestVars, treeVars, list, at, result, crashes, runs>>

\* Mutant: the number of errors is not looked at.
RenameEndUnchecked ==
  /\ pc = "rename" /\ at > Len(list) /\ again = <<>>
  /\ pc' = "idle" /\ result' = "ok"
  /\ UNCHANGED <<manifestVars, treeVars, list, at, again, errs, budgets>>

\* The number of errors is the result of the run.
RenameEnd ==
  /\ pc = "rename" /\ at > Len(list) /\ again = <<>>
  /\ pc' = "idle"
  /\ result' = IF errs = 0 THEN "ok" ELSE "failed"
  /\ UNCHANGED <<manifestVars, treeVars, list, at, again, errs, budgets>>

----------------------------------------------------------------------------
(* The process is killed; what is on disk stays.                           *)

Crash ==
  /\ pc # "idle" /\ crashes > 0 /\ crashes' = crashes - 1
  /\ pc' = "idle" /\ result' = "none"
  /\ list' = <<>> /\ at' = 1 /\ again' = <<>> /\ errs' = 0
  /\ UNCHANGED <<manifestVars, treeVars, faults, runs>>

\* No more runs.
Rest == pc = "idle" /\ runs = 0 /\ UNCHANGED vars

Stage == \/ StageSkip \/ StageFixParent \/ StageFixNotDownloaded \/ StageFixFails
         \/ StageParentFound
         \/ StageNotAbsolute \/ StagePrepare \/ StageInstall \/ StageError \/ StageEnd

Rename == RenameDeleted \/ RenameDir \/ RenameStaged \/ RenameError \/ RemoveAgain
            \/ RemoveAgainError \/ RenameEnd

Next == AlreadyUpToDate \/ Compare \/ Download \/ Stage \/ Rename \/ Crash \/ Rest

Spec == Init /\ [][Next]_vars

\* A process that is not killed goes on.
FairSpec == Spec /\ WF_vars(Download \/ Stage \/ Rename)

----------------------------------------------------------------------------
(* Properties.                                                             *)

Trees == [Paths -> Nodes]

\* What is not a directory holds nothing.
OnlyDirsHold ==
  \A p \in Paths : Parent[p] # Root /\ disk[Parent[p]] # "dir" =>
    disk[p] = "absent" /\ update[p] = "absent" /\ Parent[p] \notin mine

\* Types, and the tree being one.
TypeOK ==
  /\ pc \in {"idle", "download", "stage", "prepare", "install", "rename"}
  /\ old \in Trees /\ new \in Trees /\ disk \in Trees
  /\ update \in [Paths -> Files \union {"link", "absent"}]
  /\ mine \subseteq Paths
  /\ list \in Seq(Paths) /\ at \in 1 .. Len(list) + 1 /\ again \in Seq(Paths)
  /\ errs \in 0 .. Len(list)
  /\ result \in {"none", "ok", "current", "failed"}
  /\ OnlyDirsHold

ToInstall == {p \in Paths : new[p] # old[p]} \union bumped

\* What the update had to bring is there, what it had to remove is not, and
\* no staged file is left behind.
Installed == \A p \in Paths : /\ p \in ToInstall => disk[p] = new[p]
                              /\ update[p] = "absent"

\* A run that went through and reported success installed the update, even
\* after earlier runs that were killed or failed half way.
OkMeansInstalled == result = "ok" => Installed

InBoth(p) == /\ Type(old[p]) = Type(new[p]) /\ new[p] \notin {"dir", "absent"}
             /\ Parent[p] # Root => old[Parent[p]] = "dir" /\ new[Parent[p]] = "dir"

\* A file or link of both versions is never missing from a running system:
\* it is replaced in one step, whatever is killed or fails meanwhile.
FilesStayPresent ==
  [][\A p \in Paths : InBoth(p) /\ disk[p] # "absent" => disk'[p] # "absent"]_vars

\* The user's own files are not removed: a directory that holds one is moved
\* to a .deleted. name at most.
UserFilesKept ==
  [][\A d \in mine : \/ d \in mine' /\ disk'[d] = "dir"
                     \/ \E b \in backups' : b.dir = d /\ b.mine]_vars

\* Only what the update lists, the directory it is in and what a listed
\* directory holds may change; in particular nothing behind a link.
OnlyListedTouched ==
  [][\A p \in Paths : disk'[p] # disk[p] =>
       \E q \in ToSet(list) : p = q \/ p = Parent[q] \/ Parent[p] = q]_vars

\* Every run ends.
RunEnds == pc # "idle" ~> pc = "idle"
=============================================================================

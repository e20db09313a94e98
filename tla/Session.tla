------------------------------- MODULE Session -------------------------------
(***************************************************************************)
(* A swupd command from swupd_init to swupd_deinit (swupd_lib/helpers.c),  *)
(* several of them at the same time: the state directories                 *)
(* (swupd_lib/statedir.c) are checked, removed and created before the lock *)
(* (swupd_lib/lock.c) is asked for.  Three kinds of work are done under    *)
(* the lock: installing through the staged directory, removing the last    *)
(* bundle the user asked for, and the clean command (cmds/clean.c).        *)
(* A process may be killed between any two steps.                          *)
(***************************************************************************)
EXTENDS Naturals, Sequences, FiniteSets

CONSTANTS
  Procs,        \* the swupd processes
  None,         \* no process
  CacheDirs,    \* the directories of create_cache_dirs in their order
  DataDirs,     \* the directories of create_data_dirs in their order
  Inside,       \* for each directory, the one it is made in; "root" for the outer ones
  RootOnly,     \* the directories made with mode 0700; the others get 0755
  Bundles,      \* the bundles of the system
  Environments, \* what the processes find: see the fields used below
  FaultBudget,  \* bound: files and directories that cannot be removed
  CrashBudget   \* bound: processes killed

WorkKinds == {"install", "uninstall", "clean", "clean_all", "clean_dry"}

DirOrder == CacheDirs \o DataDirs
Dirs == {DirOrder[i] : i \in DOMAIN DirOrder}

\* What a state directory may hold besides the files staged by a process.
Home == [pack |-> "url", manifest_delta |-> "manifest", current_mom |-> "manifest",
         current_manifest |-> "manifest", hashed_manifest |-> "manifest", stray_manifest |-> "manifest",
         empty_version |-> "manifest", other_mirror |-> "cache",
         mirror_alike |-> "cache", former_pack |-> "root", former_state |-> "root",
         repo_data |-> "3rd-party"]
Items == DOMAIN Home

ASSUME SessionAssumption ==
  /\ None \notin Procs
  /\ \A e \in Environments :
       /\ e.work \in [Procs -> WorkKinds]
       /\ e.dir \in [Dirs -> {"absent", "right", "wrong"}]
       /\ e.cached \subseteq Items
       /\ e.tracked \subseteq Bundles
       /\ e.clock \in {"good", "late"}
  /\ CacheDirs \in Seq(STRING) /\ DataDirs \in Seq(STRING)
  /\ "bundles" \in Dirs /\ "root" \notin Dirs
  /\ Inside \in [Dirs -> (Dirs \intersect {"cache", "url"}) \union {"root"}]
  /\ \A d \in Dirs \intersect {"bundles", "3rd-party"} : Inside[d] = "root"
  /\ FaultBudget \in Nat
  /\ CrashBudget \in Nat

VARIABLES
  pc,        \* per process: its control point
  at,        \* per process: index of the directory, or of the step of clean, it is at
  code,      \* per process: its exit code, "none" until it has one
  lockedBy,  \* the process the kernel gave the write lock of swupd_lock to
  dir,       \* per state directory: "absent", or whether its mode is "right" or "wrong"
  items,     \* the Items on disk
  staged,    \* the processes whose files are in the staged directory
  tracked,   \* the marks in the tracking directory
  installed, \* the marks in /usr/share/clear/bundles
  clock,     \* whether the system time is later than the versionstamp
  env, faults, crashes

procVars == <<pc, at, code>>
diskVars == <<dir, items, staged, tracked, installed>>
vars == <<procVars, lockedBy, diskVars, clock, env, faults, crashes>>

----------------------------------------------------------------------------
(* Directories.                                                            *)

\* d and the directories inside it.
Tree(d) ==
  LET under == {e \in Dirs : Inside[e] = d}
  IN {d} \union under \union {e \in Dirs : Inside[e] \in under}

Exists(d) == d = "root" \/ dir[d] # "absent"

\* The mode mkdir gives: the one asked for, less what the umask takes away.
MadeMode(p, d) == IF d \in RootOnly \/ env.umask[p] = "022" THEN "right" ELSE "wrong"

\* mkdir_p of the path a directory goes into, and its chmod.
WithPath(p, d) ==
  [e \in Dirs |-> IF dir[e] = "absent" /\ d \in Tree(e) \ {e}
                  THEN IF e = Inside[d] THEN "right" ELSE MadeMode(p, e)
                  ELSE dir[e]]

\* sys_rm_recursive takes the directory with everything in it.
RmRecursive(d) ==
  /\ dir' = [e \in Dirs |-> IF e \in Tree(d) THEN "absent" ELSE dir[e]]
  /\ items' = {i \in items : Home[i] \notin Tree(d)}
  /\ staged' = IF "staged" \in Tree(d) THEN {} ELSE staged
  /\ tracked' = IF "bundles" \in Tree(d) THEN {} ELSE tracked

----------------------------------------------------------------------------
Init ==
  /\ pc = [p \in Procs |-> "start"]
  /\ at = [p \in Procs |-> 1]
  /\ code = [p \in Procs |-> "none"]
  /\ lockedBy = None
  /\ env \in Environments
  /\ dir = env.dir
  /\ items = {i \in env.cached : Home[i] = "root" \/ dir[Home[i]] # "absent"}
  /\ staged = {}
  /\ tracked = IF dir["bundles"] = "absent" THEN {} ELSE env.tracked
  /\ installed = Bundles
  /\ clock = env.clock
  /\ faults = FaultBudget /\ crashes = CrashBudget

Go(p, l) == pc' = [pc EXCEPT ![p] = l]
End(p, c) ==
  /\ Go(p, "done")
  /\ code' = [code EXCEPT ![p] = c]

\* globals_init: paths, format, addresses; it fails when one of them is unusable.
GlobalsInit(p) ==
  /\ pc[p] = "start"
  /\ IF env.globals_valid THEN Go(p, "time") /\ UNCHANGED code
                          ELSE End(p, "init_globals_failed")
  /\ UNCHANGED <<at, lockedBy, diskVars, clock, env, faults, crashes>>

\* verify_time, first with the versionstamp of the path prefix, then with the one
\* of the running system.
VerifyTime ==
  IF env.stamp = "none" THEN "ENOENT" ELSE IF clock = "late" THEN "ETIME" ELSE "ok"

\* adjust_system_time: a clock behind the versionstamp is set to it, if it can be.
AdjustTime(p) ==
  /\ pc[p] = "time"
  /\ \/ /\ ~env.timecheck \/ VerifyTime = "ok"
        /\ Go(p, "check") /\ UNCHANGED <<code, clock>>
     \/ /\ env.timecheck /\ VerifyTime = "ETIME"
        /\ clock' = "good" /\ Go(p, "check") /\ UNCHANGED code
     \/ /\ env.timecheck /\ VerifyTime # "ok"
        /\ End(p, "bad_time") /\ UNCHANGED clock
  /\ UNCHANGED <<at, lockedBy, diskVars, env, faults, crashes>>

NextDir(p) ==
  IF at[p] = Len(DirOrder)
    THEN Go(p, "safeguard") /\ at' = [at EXCEPT ![p] = 1]
    ELSE Go(p, "check") /\ at' = [at EXCEPT ![p] = @ + 1]

\* Mutant: the mode is not looked at, every directory is made anew.
CheckDirNever(p) ==
  LET d == DirOrder[at[p]]
  IN /\ pc[p] = "check"
     /\ dir' = IF Exists(Inside[d]) THEN dir ELSE WithPath(p, d)
     /\ Go(p, "remove")
     /\ UNCHANGED <<at, code, lockedBy, items, staged, tracked, installed, clock,
                    env, faults, crashes>>

\* create_dir: the path is made, and a directory of the right mode is kept.
CheckDir(p) ==
  LET d == DirOrder[at[p]]
  IN /\ pc[p] = "check"
     /\ dir' = IF Exists(Inside[d]) THEN dir ELSE WithPath(p, d)
     /\ IF dir[d] = "right" THEN NextDir(p) ELSE Go(p, "remove") /\ UNCHANGED at
     /\ UNCHANGED <<code, lockedBy, items, staged, tracked, installed, clock,
                    env, faults, crashes>>

\* create_dir: whatever is there is removed, whoever made it meanwhile.
RemoveDir(p) ==
  /\ pc[p] = "remove"
  /\ \/ /\ RmRecursive(DirOrder[at[p]])
        /\ Go(p, "make") /\ UNCHANGED <<code, faults>>
     \/ /\ faults > 0 /\ Exists(DirOrder[at[p]])
        /\ faults' = faults - 1
        /\ End(p, "couldnt_create_dir")
        /\ UNCHANGED <<dir, items, staged, tracked>>
  /\ UNCHANGED <<at, lockedBy, installed, clock, env, crashes>>

\* create_dir: mkdir fails when another process was faster, or took the path away.
MakeDir(p) ==
  LET d == DirOrder[at[p]]
  IN /\ pc[p] = "make"
     /\ IF dir[d] = "absent" /\ Exists(Inside[d])
          THEN /\ dir' = [dir EXCEPT ![d] = MadeMode(p, d)]
               /\ NextDir(p) /\ UNCHANGED code
          ELSE End(p, "couldnt_create_dir") /\ UNCHANGED <<dir, at>>
     /\ UNCHANGED <<lockedBy, items, staged, tracked, installed, clock, env,
                    faults, crashes>>

\* safeguard_tracking_dir: an empty tracking directory is replaced by the marks
\* of all installed bundles.  Its failures are not errors.
Safeguard(p) ==
  /\ pc[p] = "safeguard"
  /\ IF tracked = {} THEN Go(p, "replace") ELSE Go(p, "lock")
  /\ UNCHANGED <<at, code, lockedBy, diskVars, clock, env, faults, crashes>>

ReplaceTracking(p) ==
  /\ pc[p] = "replace"
  /\ dir' = [dir EXCEPT !["bundles"] = "absent"] /\ tracked' = {}
  /\ Go(p, "copy")
  /\ UNCHANGED <<at, code, lockedBy, items, staged, installed, clock, env,
                 faults, crashes>>

\* Mutant: the marks that only the system has are not removed from the copy.
CopyMarkAll(p) ==
  /\ pc[p] = "copy"
  /\ tracked' = installed \union {None}
  /\ dir' = [dir EXCEPT !["bundles"] = "right"]
  /\ Go(p, "lock")
  /\ UNCHANGED <<at, code, lockedBy, items, staged, installed, clock, env, faults, crashes>>

\* cp -a copies the marks one by one: the copy may be cut short.
CopyMark(p) ==
  /\ pc[p] = "copy"
  /\ \/ \E b \in installed \ tracked :
          /\ tracked' = tracked \union {b}
          /\ UNCHANGED pc
     \/ installed \subseteq tracked /\ Go(p, "lock") /\ UNCHANGED tracked
  /\ dir' = [dir EXCEPT !["bundles"] = "right"]
  /\ UNCHANGED <<at, code, lockedBy, items, staged, installed, clock, env,
                 faults, crashes>>

\* Mutant: goes on without the lock.
LockFileAnyway(p) ==
  /\ pc[p] = "lock"
  /\ lockedBy' = IF lockedBy = None THEN p ELSE lockedBy
  /\ Go(p, "signature")
  /\ UNCHANGED <<at, code, diskVars, clock, env, faults, crashes>>

\* p_lockfile: fcntl(F_SETLK) does not wait.
LockFile(p) ==
  /\ pc[p] = "lock"
  /\ IF lockedBy = None
       THEN lockedBy' = p /\ Go(p, "signature") /\ UNCHANGED code
       ELSE End(p, "lock_file_failed") /\ UNCHANGED lockedBy
  /\ UNCHANGED <<at, diskVars, clock, env, faults, crashes>>

\* Mutant: the failed path forgets the lock and stays.
InitSignatureForever(p) ==
  /\ pc[p] = "signature" /\ env.cert_valid
  /\ Go(p, "work")
  /\ UNCHANGED <<at, code, lockedBy, diskVars, clock, env, faults, crashes>>

\* The failed path of signature_init releases the lock.
InitSignature(p) ==
  /\ pc[p] = "signature"
  /\ IF env.cert_valid
       THEN Go(p, "work") /\ UNCHANGED <<code, lockedBy>>
       ELSE End(p, "signature_failed") /\ lockedBy' = None
  /\ UNCHANGED <<at, diskVars, clock, env, faults, crashes>>

----------------------------------------------------------------------------
(* The work done under the lock.                                           *)

Leave(p, c) ==
  /\ Go(p, "deinit")
  /\ code' = [code EXCEPT ![p] = c]

\* The files of a bundle are put in the staged directory ...
Stage(p) ==
  /\ pc[p] = "work" /\ env.work[p] = "install"
  /\ IF Exists("staged")
       THEN staged' = staged \union {p} /\ Go(p, "apply") /\ UNCHANGED code
       ELSE Leave(p, "couldnt_download_file") /\ UNCHANGED staged
  /\ UNCHANGED <<at, lockedBy, dir, items, tracked, installed, clock, env,
                 faults, crashes>>

\* ... and put in place from there; the bundle is then tracked, if it can be.
Apply(p) ==
  /\ pc[p] = "apply"
  /\ Leave(p, IF p \in staged THEN "ok" ELSE "couldnt_rename_file")
  /\ IF p \in staged
       THEN /\ installed' = Bundles
            /\ tracked' = IF Exists("bundles") THEN Bundles ELSE tracked
       ELSE UNCHANGED <<installed, tracked>>
  /\ UNCHANGED <<at, lockedBy, dir, items, staged, clock, env, faults, crashes>>

\* bundle-remove: the mark of the user goes first, the files after it.
Untrack(p) ==
  /\ pc[p] = "work" /\ env.work[p] = "uninstall"
  /\ tracked' = tracked \ env.removed
  /\ Go(p, "delete")
  /\ UNCHANGED <<at, code, lockedBy, dir, items, staged, installed, clock, env,
                 faults, crashes>>

Delete(p) ==
  /\ pc[p] = "delete"
  /\ installed' = installed \ env.removed
  /\ Leave(p, "ok")
  /\ UNCHANGED <<at, lockedBy, dir, items, staged, tracked, clock, env, faults,
                 crashes>>

\* clean_cachedir and clean_former_statedir, one call per step: "files" go one
\* by one in remove_if, "dir" is a state directory and "tree" anything else that
\* remove_cache_directory or clean_irrelevant_cache takes away.
Rm(kind, in, what) == [kind |-> kind, in |-> in, what |-> what]
FormerSteps == <<Rm("files", "root", {"former_pack"}), Rm("tree", "root", {"former_state"})>>
IfMade(d) == IF d \in Dirs THEN <<d>> ELSE <<>>
EmptiedDirs == IfMade("delta") \o IfMade("download") \o IfMade("staged") \o IfMade("temp")
CleanSteps(w) ==
  (IF w = "clean_all" THEN <<Rm("dir", "cache", {})>>
   ELSE <<Rm("files", "url", {"pack"})>>
        \o [i \in DOMAIN EmptiedDirs |-> Rm("dir", EmptiedDirs[i], {})]
        \o <<Rm("files", "manifest", {"manifest_delta"}), Rm("manifests", "manifest", {}),
             Rm("tree", "cache", {"other_mirror"})>>)
  \o FormerSteps

\* Mutant: the cached Manifest.MoM is not asked.
AllManifests == {"hashed_manifest", "stray_manifest", "current_mom", "current_manifest"}

\* clean_staged_manifests keeps the versions named in the cached Manifest.MoM of
\* the installed version, but not their hashed hints; when there is none, as a
\* clean --all cut short may leave it, no version is kept.
StaleManifests ==
  {"hashed_manifest", "stray_manifest"} \union
    IF env.version_known /\ "current_mom" \in items THEN {} ELSE {"current_mom", "current_manifest"}

StepTargets(step) == IF step.kind = "manifests" THEN StaleManifests ELSE step.what

NextClean(p) ==
  IF at[p] = Len(CleanSteps(env.work[p]))
    THEN Leave(p, "ok") /\ UNCHANGED at
    ELSE at' = [at EXCEPT ![p] = @ + 1] /\ UNCHANGED <<pc, code>>

Cleaning(p) == pc[p] = "work" /\ env.work[p] \in {"clean", "clean_all", "clean_dry"}

\* remove_if and the loop over the version directories.  A file that cannot be
\* removed is warned about and forgotten: only an unreadable directory is an
\* error.  An empty version directory is removed even on a dry run.
CleanFiles(p) ==
  LET step == CleanSteps(env.work[p])[at[p]]
  IN /\ Cleaning(p) /\ step.kind \in {"files", "manifests"}
     /\ IF Exists(step.in)
          THEN /\ NextClean(p)
               /\ \/ /\ items' = ((IF env.work[p] = "clean_dry" THEN items
                                   ELSE items \ StepTargets(step))
                                   \ IF step.kind = "manifests" THEN {"empty_version"} ELSE {})
                     /\ UNCHANGED faults
                  \/ /\ faults > 0 /\ env.work[p] # "clean_dry"
                     /\ StepTargets(step) \intersect items # {}
                     /\ faults' = faults - 1
                     /\ \E left \in SUBSET (StepTargets(step) \intersect items) :
                          /\ left # {}
                          /\ items' = (items \ StepTargets(step)) \union left
          ELSE Leave(p, "couldnt_list_dir") /\ UNCHANGED <<at, items, faults>>
     /\ UNCHANGED <<lockedBy, dir, staged, tracked, installed, clock, env, crashes>>

\* remove_cache_directory and clean_irrelevant_cache: a failure ends the clean,
\* and a directory that is not there is fine, except the cache directory itself.
CleanDir(p) ==
  LET step == CleanSteps(env.work[p])[at[p]]
      There == IF step.kind = "dir" THEN Exists(step.in) ELSE step.what \intersect items # {}
  IN /\ Cleaning(p) /\ step.kind \in {"dir", "tree"}
     /\ IF step.kind = "tree" /\ ~Exists(step.in)
          THEN Leave(p, "couldnt_list_dir")
               /\ UNCHANGED <<at, dir, items, staged, tracked, faults>>
        ELSE IF env.work[p] = "clean_dry" \/ ~There
          THEN NextClean(p) /\ UNCHANGED <<dir, items, staged, tracked, faults>>
        ELSE \/ /\ IF step.kind = "dir" THEN RmRecursive(step.in)
                   ELSE items' = items \ step.what /\ UNCHANGED <<dir, staged, tracked>>
                /\ NextClean(p) /\ UNCHANGED faults
             \/ /\ faults > 0 /\ faults' = faults - 1
                /\ Leave(p, "couldnt_remove_file")
                /\ UNCHANGED <<at, dir, items, staged, tracked>>
     /\ UNCHANGED <<lockedBy, installed, clock, env, crashes>>

\* swupd_deinit: v_lockfile closes the descriptor, which gives the lock back.
Deinit(p) ==
  /\ pc[p] = "deinit"
  /\ lockedBy' = None
  /\ Go(p, "done")
  /\ UNCHANGED <<at, code, diskVars, clock, env, faults, crashes>>

\* A killed process loses its lock and leaves the disk as it is.
Crash(p) ==
  /\ crashes > 0 /\ pc[p] \notin {"start", "time", "done"}
  /\ crashes' = crashes - 1
  /\ End(p, "killed")
  /\ lockedBy' = IF lockedBy = p THEN None ELSE lockedBy
  /\ UNCHANGED <<at, diskVars, clock, env, faults>>

Step(p) ==
  \/ GlobalsInit(p) \/ AdjustTime(p) \/ CheckDir(p) \/ RemoveDir(p) \/ MakeDir(p)
  \/ Safeguard(p) \/ ReplaceTracking(p) \/ CopyMark(p)
  \/ LockFile(p) \/ InitSignature(p)
  \/ Stage(p) \/ Apply(p) \/ Untrack(p) \/ Delete(p)
  \/ CleanFiles(p) \/ CleanDir(p) \/ Deinit(p)

Next == \E p \in Procs : Step(p) \/ Crash(p)

Spec == Init /\ [][Next]_vars

\* A process the system does not kill runs on: nothing in a step waits for
\* another process.
FairSpec == Spec /\ \A p \in Procs : WF_vars(Step(p))

----------------------------------------------------------------------------
(* Properties.                                                             *)

TypeOK ==
  /\ pc \in [Procs -> {"start", "time", "check", "remove", "make", "safeguard", "replace", "copy",
                       "lock", "signature", "work", "apply", "delete", "deinit", "done"}]
  /\ at \in [Procs -> Nat]
  /\ lockedBy \in Procs \union {None}
  /\ dir \in [Dirs -> {"absent", "right", "wrong"}]
  /\ items \subseteq Items /\ staged \subseteq Procs
  /\ tracked \subseteq Bundles /\ installed \subseteq Bundles
  /\ clock \in {"good", "late"}
  /\ faults \in 0..FaultBudget /\ crashes \in 0..CrashBudget

Locked(p) == pc[p] \in {"signature", "work", "apply", "delete", "deinit"}

\* No two commands are between p_lockfile and v_lockfile at the same time,
\* whichever way they end: signature failure, error, kill.
OneHolder == \A p, q \in Procs : Locked(p) /\ Locked(q) => p = q

\* The state directories are there with their modes, some mark survives every
\* bundle-remove, and no clean is running: then nothing a command does before it
\* has the lock changes the disk under the command that holds it.
Calm ==
  /\ \A d \in Dirs : env.dir[d] = "right"
  /\ ~(env.tracked \subseteq env.removed)
  /\ \A p \in Procs : env.work[p] \notin {"clean", "clean_all"}

HolderUndisturbed ==
  [][Calm => \A p \in Procs :
       lockedBy = p /\ pc'[p] = pc[p] /\ at'[p] = at[p] => UNCHANGED diskVars]_vars

\* clean takes only what can be downloaded again: never the marks of bundles, the
\* data of 3rd-party repositories or, without --all, the manifests of the
\* installed version, as long as its Manifest.MoM is cached; and a dry run takes
\* no file.
CleanTakesOnlyCache ==
  [][\A p \in Procs : Cleaning(p) /\ (pc'[p] # pc[p] \/ at'[p] # at[p]) =>
       /\ tracked' = tracked /\ installed' = installed
       /\ items \ items' \subseteq Items \ {"repo_data"}
       /\ env.work[p] = "clean" /\ env.version_known /\ "current_mom" \in items =>
            items \ items' \subseteq Items \ {"current_mom", "current_manifest"}
       /\ env.work[p] = "clean_dry" => items \ items' \subseteq {"empty_version"}
                                     /\ staged' = staged]_vars

\* Whoever holds the lock gives it back, so that a later command can run.
LockGivenBack == \A p \in Procs : lockedBy = p ~> lockedBy # p

=============================================================================

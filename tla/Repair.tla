-------------------------------- MODULE Repair --------------------------------
(***************************************************************************)
(* diagnose, repair, os-install and the old verify command, all of them    *)
(* execute_verify_extra (cmds/verify.c) under different options: the files *)
(* the installed bundles list are compared with the ones on disk, and      *)
(* missing, corrupt, deleted and extra files are dealt with one by one, in *)
(* place.  Any of those steps may fail or be the last before a kill.       *)
(*                                                                         *)
(* Paths are below the picky tree and at most two deep.  A link in the     *)
(* place of a directory leads to another one, where Through[p] is what p   *)
(* then names.                                                             *)
(***************************************************************************)
EXTENDS Integers, Sequences, FiniteSets

CONSTANTS
  Order,        \* every path, sorted by name
  Parent,       \* its directory, or Root
  Root,
  Through,      \* path -> path
  Bundles,
  Core,         \* os-core
  Marker,       \* bundle -> its file in /usr/share/clear/bundles
  Release,      \* the path of os-release
  VersionIn,    \* what an os-release file may hold -> the version
  Catalog,      \* version -> bundle -> whether it is listed, its includes, its optional
                \* includes and its files
  Readable,     \* the versions of the format this client reads
  StateFiles,   \* the paths a heuristic rule makes state files, or configuration files of
                \* a stateless system
  BootFiles,    \* the ones it makes boot files
  Whitelist,    \* the paths the picky whitelist spares, and what is below them
  WithXattrs,   \* the files with extended attributes
  Requests,     \* what the commands are asked for
  Worlds,       \* the state of the disk to begin with
  FaultBudget,  \* bound: downloads and system calls that fail
  KillBudget,   \* bound: kills
  RunBudget     \* bound: commands

Paths == {Order[i] : i \in DOMAIN Order}
Versions == DOMAIN Catalog
Latest == -1
Counters == {"missing", "not_replaced", "mismatch", "not_fixed", "extraneous", "not_deleted"}

Gone == {"gone", "ghost"}  \* is_deleted, without and with is_ghosted

\* os-install has the options --download and --skip-optional and few others; repair and
\* diagnose do not have them.
IsRequest(r) ==
  /\ r.command \in {"diagnose", "repair", "install"}
  /\ r.version \in {0, Latest} \union Versions
  /\ {r.force, r.quick, r.picky, r.extra, r.download, r.skip, r.legacy} \subseteq BOOLEAN
  /\ r.download \/ r.skip => r.command = "install" /\ ~r.legacy
  /\ r.command = "install" /\ ~r.legacy => ~r.quick /\ ~r.picky /\ ~r.extra /\ r.file = Root

ASSUME RepairAssumption ==
  /\ Order \in Seq(Paths)
  /\ Parent \in [Paths -> Paths \union {Root}] /\ Root \notin Paths
  /\ \A p \in Paths : Parent[p] # Root => Parent[Parent[p]] = Root
  /\ Through \in [Paths -> Paths]
  /\ Core \in Bundles /\ Marker \in [Bundles -> Paths] /\ Release \in Paths
  /\ Versions \subseteq Nat /\ Readable \subseteq Versions
  /\ \E v \in Readable : \A w \in Readable : w <= v
  /\ \A c \in DOMAIN VersionIn : VersionIn[c] \in Versions
  /\ \A r \in Requests : IsRequest(r)
  /\ \A d \in Worlds : d = [p \in Paths |-> d[p]]
  /\ FaultBudget \in Nat /\ KillBudget \in Nat /\ RunBudget \in Nat

\* The manifests of one version do not contradict each other, and the file that marks a
\* bundle is a file of that bundle and of no other.
ASSUME ManifestAssumption ==
  \A v \in Versions, b \in Bundles :
    LET files == Catalog[v][b].files
    IN /\ DOMAIN files \subseteq Paths /\ \A p \in DOMAIN files : files[p] # "absent"
       /\ Catalog[v][b].listed =>
            /\ b # Core => /\ Marker[b] \in DOMAIN files
                           /\ files[Marker[b]] \notin Gone \union {"dir", "link"}
            /\ \A c \in Bundles \ {b} :
                 LET others == Catalog[v][c].files
                 IN Catalog[v][c].listed =>
                      /\ b # Core => Marker[b] \notin DOMAIN others
                      /\ \A p \in DOMAIN files \intersect DOMAIN others :
                           (files[p] \in Gone <=> others[p] \in Gone) => files[p] = others[p]

\* The paths are sorted, a directory before what it holds; what has a file has its directory
\* too, and that is not a state file; and the whitelist is one of paths.
ASSUME TreeAssumption ==
  /\ \A i, j \in DOMAIN Order : Parent[Order[j]] = Order[i] => i < j
  /\ \A v \in Versions, b \in Bundles :
       LET files == Catalog[v][b].files
       IN \A p \in DOMAIN files :
            files[p] \notin Gone /\ Parent[p] # Root =>
              /\ Parent[p] \in DOMAIN files /\ files[Parent[p]] = "dir"
              /\ Parent[p] \notin StateFiles
  /\ Root \notin Whitelist

VARIABLES
  disk,     \* per path: its content, "dir", "link" or "absent"
  left,     \* the paths with a .update. file beside them
  tracked,  \* the tracking directory of an installed system
  pc,       \* control point of the command
  req,      \* its request
  version,  \* the version it works with
  want,     \* official_manifest->files: path -> content, "gone" or "ghost"
  sound,    \* the paths marked do_not_update
  at,       \* index in Todo
  counts,   \* the counters that are not zero
  ret,      \* how the last command ended
  calm,     \* history: nothing failed since it started
  passes,   \* history: how many complete repairs ended one after the other
            \* undisturbed, and for which version
  faults, kills, runs

place == <<disk, left, tracked>>
loaded == <<req, version, want>>
work == <<sound, at, counts>>
history == <<ret, calm, passes>>
budgets == <<faults, kills, runs>>
vars == <<place, pc, loaded, work, history, budgets>>

Elements(s) == {s[i] : i \in DOMAIN s}

----------------------------------------------------------------------------
(* The disk.                                                               *)

\* What lstat finds at p.
Seen(p) ==
  IF Parent[p] = Root THEN disk[p]
  ELSE CASE disk[Parent[p]] = "dir" -> disk[p]
         [] disk[Parent[p]] = "link" -> disk[Through[p]]
         [] OTHER -> "absent"

\* The parent is a directory that is reached without a link.
InRealDir(p) == Parent[p] \in {Root} \union {d \in Paths : disk[d] = "dir"}
LeadsToDir(p) == Parent[p] \in {Root} \union {d \in Paths : disk[d] \in {"dir", "link"}}

Empty(d) == \A p \in Paths : Parent[p] = d => disk[p] = "absent" /\ p \notin left

\* get_current_version: -1 when os-release cannot be read.
CurrentVersion == IF disk[Release] \in DOMAIN VersionIn THEN VersionIn[disk[Release]] ELSE -1

\* read_subscriptions: os-core, and every bundle with its marker file.
Installed == {Core} \union {b \in Bundles : disk[Marker[b]] \notin {"absent", "dir", "link"}}

----------------------------------------------------------------------------
(* The manifests.                                                          *)

Listed(v) == {b \in Bundles : Catalog[v][b].listed}

\* recurse_subscriptions: S and what it includes, directly or not, with optional bundles
\* or without.
Includes(v, b, optional) ==
  Catalog[v][b].includes \union (IF optional THEN Catalog[v][b].optional ELSE {})
Holds(v, T, S, optional) ==
  S \intersect Listed(v) \subseteq T
    /\ \A b \in T : Includes(v, b, optional) \intersect Listed(v) \subseteq T
Closure(v, S, optional) ==
  {b \in Listed(v) : \A T \in SUBSET Listed(v) : Holds(v, T, S, optional) => b \in T}

\* consolidate_files: a bundle that has the file wins over one that deleted it.
Entry(v, S, p) ==
  LET found == {Catalog[v][b].files[p] : b \in {c \in S : p \in DOMAIN Catalog[v][c].files}}
  IN IF found \subseteq Gone THEN CHOOSE e \in found : TRUE
     ELSE CHOOSE e \in found \ Gone : TRUE

Consolidated(v, S) ==
  [p \in UNION {DOMAIN Catalog[v][b].files : b \in S} |-> Entry(v, S, p)]

\* Mutant: what the chosen bundles deleted is deleted, whoever else has it.
SafeRegardless(chosen, all) == chosen

\* filter_file_unsafe_to_delete: what a chosen bundle deleted and another one has is
\* left alone.
Safe(chosen, all) ==
  [p \in {q \in DOMAIN chosen : ~(chosen[q] \in Gone /\ all[q] \notin Gone)} |-> chosen[p]]

----------------------------------------------------------------------------
(* Options.                                                                *)

Repairs == req.command = "repair"
Installs == req.command = "install"
Writes == Repairs \/ Installs
WithOptional == Installs /\ ~req.skip

\* parse_options of repair.
LegalRepair(r) ==
  /\ r.quick => ~r.picky /\ ~r.extra
  /\ ~(r.picky /\ r.extra)
  /\ r.bundles # {} => ~r.picky /\ ~r.extra

\* parse_options of diagnose, and of verify, where --bundles goes with everything.
LegalVerify(r) ==
  /\ r.quick => ~r.picky /\ ~r.extra
  /\ ~(r.picky /\ r.extra)
  /\ IF r.legacy THEN r.file = Root ELSE r.bundles # {} => ~r.picky /\ ~r.extra
  /\ r.command = "install" => r.version # 0 /\ ~r.picky /\ ~r.extra
  /\ r.command # "install" => r.version # Latest

\* keep_matching_path: with --file, that path and what is below it.
Matches(p) == req.file = Root \/ req.file \in {p, Parent[p]}
Kept(S) ==
  LET first[i \in 0..Len(Order)] ==
        IF i = 0 THEN <<>>
        ELSE IF Order[i] \in S THEN Append(first[i - 1], Order[i]) ELSE first[i - 1]
  IN first[Len(Order)]
Todo == Kept({p \in DOMAIN want : Matches(p)})
Item == Todo[at]

\* The whitelist is a pattern for whole paths; what is below a match is not looked at.
Whitelisted(p) == {p, Parent[p]} \intersect Whitelist # {}

\* The paths extra files are looked for at.
PickyTree == {p \in Paths : Matches(p) /\ ~Whitelisted(p)}
Extras == {p \in PickyTree : p \notin DOMAIN want \/ want[p] = "gone"}

Fault == faults > 0 /\ faults' = faults - 1 /\ calm' = FALSE

----------------------------------------------------------------------------
NoRequest == [command |-> "none", version |-> 0, bundles |-> {}, force |-> FALSE,
              quick |-> FALSE, picky |-> FALSE, extra |-> FALSE, download |-> FALSE,
              skip |-> FALSE, legacy |-> FALSE, file |-> Root]

Init ==
  /\ disk \in Worlds /\ left = {} /\ tracked = {}
  /\ pc = "idle" /\ req = NoRequest /\ version = 0 /\ want = <<>>
  /\ sound = {} /\ at = 1 /\ counts = {}
  /\ ret = "none" /\ calm = TRUE /\ passes = [version |-> 0, count |-> 0]
  /\ faults = FaultBudget /\ kills = KillBudget /\ runs = RunBudget

Undisturbed == [version |-> 0, count |-> 0]

\* A complete repair: every file of every installed bundle.
Complete(r) == r.command = "repair" /\ r.bundles = {} /\ ~r.quick /\ ~r.extra /\ r.file = Root

\* The command ends without having reached the critical part.
GiveUp(why) == /\ pc' = "idle" /\ ret' = why /\ passes' = Undisturbed

\* The version to work with: 0 stands for the one the system has, Latest for the newest
\* of the client's format.
VersionFor(r) ==
  CASE r.version = 0 -> CurrentVersion
    [] r.version = Latest -> CHOOSE v \in Readable : \A w \in Readable : w <= v
    [] OTHER -> r.version

\* What every one of them does: the options are checked and handed to execute_verify, which
\* looks for its version.
Begin(r, legal) ==
  /\ pc = "idle" /\ runs > 0 /\ runs' = runs - 1
  /\ req' = r /\ calm' = TRUE /\ want' = <<>> /\ sound' = {} /\ at' = 1 /\ counts' = {}
  /\ version' = VersionFor(r)
  /\ IF ~legal THEN GiveUp("invalid_option")
     ELSE IF r.version = 0 /\ CurrentVersion < 0 THEN GiveUp("current_version_unknown")
     ELSE pc' = "load" /\ ret' = "none" /\ UNCHANGED passes
  /\ UNCHANGED <<place, faults, kills>>

RepairMain ==
  \E r \in Requests : r.command = "repair" /\ ~r.legacy /\ Begin(r, LegalRepair(r))

\* An installation takes the newest version if none is named.
InstallMain ==
  \E r \in Requests : r.command = "install" /\ ~r.legacy /\ Begin(r, r.version # 0)

DiagnoseMain ==
  \E r \in Requests : r.command = "diagnose" /\ ~r.legacy /\ Begin(r, LegalVerify(r))

\* The superseded command: --fix and --install make it one of the others.
VerifyMain == \E r \in Requests : r.legacy /\ Begin(r, LegalVerify(r))

\* is_compatible_format.
FormatFits == version \in Readable \/ req.force

\* A repair may only go to the version the system has, unless it is forced.
VersionAllowed == Repairs /\ version # CurrentVersion => req.force \/ req.picky

\* The bundles given with --bundles that can be worked on: verify --fix and os-install
\* may bring new ones.
Chosen ==
  {b \in req.bundles \intersect Listed(version) :
     b \in Installed \/ (req.legacy /\ Repairs) \/ Installs}
NothingChosen == req.bundles # {} /\ Chosen = {}

Invalid ==
  \/ ~req.force /\ Installed \ Listed(version) # {}
  \/ ~(req.bundles \subseteq Listed(version))

All == Closure(version, Installed \union Chosen, WithOptional)

LoadRefused ==
  /\ pc = "load"
  /\ \/ ~FormatFits /\ GiveUp("couldnt_load_manifest")
     \/ FormatFits /\ ~VersionAllowed /\ GiveUp("invalid_option")
     \/ FormatFits /\ VersionAllowed /\ NothingChosen /\ GiveUp("ok")
     \/ /\ FormatFits /\ VersionAllowed /\ ~NothingChosen /\ Invalid /\ ~req.force
        /\ GiveUp("invalid_bundle")
  /\ UNCHANGED <<place, loaded, work, calm, budgets>>

LoadFails ==
  /\ pc = "load" /\ Fault
  /\ \E why \in {"couldnt_load_mom", "couldnt_load_manifest", "recurse_manifest"} : GiveUp(why)
  /\ UNCHANGED <<place, loaded, work, kills, runs>>

Loaded ==
  /\ pc = "load" /\ FormatFits /\ VersionAllowed
  /\ ~NothingChosen /\ (Invalid => req.force)
  /\ want' = IF req.bundles = {} THEN Consolidated(version, All)
             ELSE Safe(Consolidated(version, Closure(version, Chosen, WithOptional)),
                       Consolidated(version, All))
  /\ pc' = "prepare"
  /\ UNCHANGED <<place, req, version, work, history, budgets>>

----------------------------------------------------------------------------
(* Preparation.                                                            *)

\* Mutant: a file that is there will do, whatever is asked for.
VerifiedLazily(p) == Seen(p) # "absent"

\* verify_file, or verify_file_lazy: the file is the one the manifest describes.
Verified(p) == IF req.quick \/ Installs THEN Seen(p) # "absent" ELSE Seen(p) = want[p]

\* check_files_hash.
Intact == {p \in Elements(Todo) : want[p] \notin Gone /\ Verified(p)}
NothingToGet == \A p \in Elements(Todo) : want[p] \in Gone \/ p \in Intact

\* No listed file matches --file.
OnlyExtras == req.file # Root /\ Todo = <<>>

\* Nothing matches --file, or only extra files are asked for.
Skip ==
  /\ pc = "prepare" /\ (OnlyExtras \/ req.extra)
  /\ pc' = "extra" /\ at' = Len(Order)
  /\ UNCHANGED <<place, loaded, sound, counts, history, budgets>>

\* get_required_files, for the commands that write.  The packs of an installation are
\* only tried.
Prepare ==
  /\ pc = "prepare" /\ ~OnlyExtras /\ ~req.extra
  /\ sound' = IF Writes THEN Intact ELSE {}
  /\ IF req.download THEN GiveUp("ok") ELSE pc' = "add" /\ UNCHANGED <<ret, passes>>
  /\ at' = 1
  /\ UNCHANGED <<place, loaded, counts, calm, budgets>>

PrepareFails ==
  /\ pc = "prepare" /\ ~OnlyExtras /\ ~req.extra
  /\ Writes /\ ~NothingToGet
  /\ Fault /\ GiveUp("couldnt_download_file")
  /\ UNCHANGED <<place, loaded, work, kills, runs>>

----------------------------------------------------------------------------
(* One file is put in place: target_root_install_single_file.              *)

\* verify_fix_path: the directory of p is put back as its manifest has it.
Fixable(p) == Parent[p] \in DOMAIN want /\ want[Parent[p]] = "dir"

\* What the directory is once p has been staged.
Opened(p) ==
  IF LeadsToDir(p) THEN disk ELSE [disk EXCEPT ![Parent[p]] = "dir"]

\* What was there with another type is removed first.
Type(n) == IF n \in {"dir", "link", "absent"} THEN n ELSE "file"
Cleared(p, tree) ==
  IF Type(tree[p]) # Type(want[p]) THEN [tree EXCEPT ![p] = "absent"] ELSE tree

CanStage(p) == InRealDir(p) \/ (~LeadsToDir(p) /\ Fixable(p))

\* What an earlier command left beside the target goes, and the file is copied there; a
\* directory is made at once.
Stage(stage, rename) ==
  /\ pc = stage /\ CanStage(Item)
  /\ disk' = IF want[Item] = "dir" THEN [Opened(Item) EXCEPT ![Item] = "dir"]
             ELSE Cleared(Item, Opened(Item))
  /\ left' = IF want[Item] = "dir" THEN left \ {Item} ELSE left \union {Item}
  /\ pc' = rename
  /\ UNCHANGED <<tracked, loaded, work, history, budgets>>

\* Its directory cannot be put back or lies behind a link.
StageRefused(stage, judge) ==
  /\ pc = stage /\ ~CanStage(Item)
  /\ pc' = judge
  /\ UNCHANGED <<place, loaded, work, history, budgets>>

\* It fails: in its directory, after what was left has gone, when what was there has been
\* removed, or in the middle of the copy.  What has been copied of the file stays beside
\* its target, as rename_staged_file_to_final does not know of it.
StageFails(stage, judge) ==
  /\ pc = stage /\ CanStage(Item) /\ Fault
  /\ \/ disk' \in {disk, Opened(Item)} /\ left' = left
     \/ disk' \in {Opened(Item), Cleared(Item, Opened(Item))} /\ left' = left \ {Item}
     \/ /\ want[Item] # "dir"
        /\ disk' = Cleared(Item, Opened(Item)) /\ left' = left \union {Item}
  /\ pc' = judge
  /\ UNCHANGED <<tracked, loaded, work, ret, passes, kills, runs>>

\* Mutant: the staged file is linked to its name, and its own name is forgotten.
RenameLinks(rename, judge) ==
  /\ pc = rename
  /\ \/ disk' = [disk EXCEPT ![Item] = want[Item]] /\ UNCHANGED <<left, faults, calm>>
     \/ /\ want[Item] # "dir" /\ Fault
        /\ left' = left \ {Item} /\ UNCHANGED disk
  /\ pc' = judge
  /\ UNCHANGED <<tracked, loaded, work, ret, passes, kills, runs>>

\* rename_staged_file_to_final.
Rename(rename, judge) ==
  /\ pc = rename
  /\ left' = left \ {Item}
  /\ \/ disk' = [disk EXCEPT ![Item] = want[Item]] /\ UNCHANGED <<faults, calm>>
     \/ want[Item] # "dir" /\ Fault /\ UNCHANGED disk
  /\ pc' = judge
  /\ UNCHANGED <<tracked, loaded, work, ret, passes, kills, runs>>

----------------------------------------------------------------------------
(* add_missing_files.                                                      *)

MoveOn(phase) == pc' = phase /\ at' = at + 1

AddPass ==
  /\ pc = "add" /\ at <= Len(Todo)
  /\ want[Item] \in Gone \/ Item \in sound \/ Seen(Item) # "absent"
  /\ MoveOn("add")
  /\ UNCHANGED <<place, loaded, sound, counts, history, budgets>>

AddMissing ==
  /\ pc = "add" /\ at <= Len(Todo)
  /\ want[Item] \notin Gone /\ Item \notin sound /\ Seen(Item) = "absent"
  /\ counts' = counts \union {"missing"}
  /\ IF Writes THEN pc' = "add_stage" /\ at' = at ELSE MoveOn("add")
  /\ UNCHANGED <<place, loaded, sound, history, budgets>>

\* The file is hashed again, this time without its extended attributes.
Replaced(p) ==
  IF req.quick \/ Installs THEN Seen(p) # "absent"
  ELSE Seen(p) = want[p] /\ p \notin WithXattrs

AddJudge ==
  /\ pc = "add_judge"
  /\ sound' = IF Replaced(Item) THEN sound \union {Item} ELSE sound
  /\ counts' = IF Replaced(Item) THEN counts ELSE counts \union {"not_replaced"}
  /\ MoveOn("add")
  /\ UNCHANGED <<place, loaded, history, budgets>>

\* Mutant: the heuristics are forgotten.
HeuristicsNone == {}

\* heuristics_apply: state files, boot files that are deleted and ghosts are left alone.
Heuristics ==
  {p \in DOMAIN want : \/ p \in StateFiles \/ want[p] = "ghost"
                       \/ p \in BootFiles /\ want[p] \in Gone}

AddDone ==
  /\ pc = "add" /\ at > Len(Todo)
  /\ IF req.quick \/ Installs THEN pc' = "end" /\ UNCHANGED <<sound, at>>
     ELSE pc' = "fix" /\ at' = 1 /\ sound' = sound \union Heuristics
  /\ UNCHANGED <<place, loaded, counts, history, budgets>>

----------------------------------------------------------------------------
(* deal_with_hash_mismatches.                                              *)

Corrupt(p) ==
  /\ want[p] \notin Gone /\ p \notin sound
  /\ Seen(p) # want[p] /\ Seen(p) # "absent"

FixPass ==
  /\ pc = "fix" /\ at <= Len(Todo) /\ ~Corrupt(Item)
  /\ MoveOn("fix")
  /\ UNCHANGED <<place, loaded, sound, counts, history, budgets>>

FixMismatch ==
  /\ pc = "fix" /\ at <= Len(Todo) /\ Corrupt(Item)
  /\ counts' = counts \union {"mismatch"}
  /\ IF Repairs THEN pc' = "fix_stage" /\ at' = at ELSE MoveOn("fix")
  /\ UNCHANGED <<place, loaded, sound, history, budgets>>

FixJudge ==
  /\ pc = "fix_judge"
  /\ counts' = IF Seen(Item) = want[Item] THEN counts ELSE counts \union {"not_fixed"}
  /\ MoveOn("fix")
  /\ UNCHANGED <<place, loaded, sound, history, budgets>>

\* Nothing is removed after a file could not be put right.
MayRemove == counts \intersect {"not_replaced", "not_fixed"} = {}

\* The list is worked off backwards now.
FixDone ==
  /\ pc = "fix" /\ at > Len(Todo)
  /\ IF MayRemove THEN pc' = "remove" /\ at' = Len(Todo)
     ELSE pc' = "extra" /\ at' = Len(Order)
  /\ UNCHANGED <<place, loaded, sound, counts, history, budgets>>

----------------------------------------------------------------------------
(* remove_orphaned_files.                                                  *)

\* get_dirfd_path: what lies behind a link is passed over without a word.
Orphan(p) ==
  want[p] \in Gone /\ p \notin sound /\ Seen(p) # "absent" /\ InRealDir(p)

RemovePass ==
  /\ pc = "remove" /\ at >= 1 /\ ~Orphan(Item)
  /\ at' = at - 1
  /\ UNCHANGED <<place, pc, loaded, sound, counts, history, budgets>>

\* unlinkat: a directory has to be empty.
Remove(p) ==
  \/ /\ disk[p] # "dir" \/ Empty(p)
     /\ disk' = [disk EXCEPT ![p] = "absent"]
     /\ counts' = counts \union {"extraneous"}
     /\ UNCHANGED <<faults, calm>>
  \/ /\ disk[p] = "dir" /\ ~Empty(p)
     /\ counts' = counts \union {"extraneous", "not_deleted"}
     /\ UNCHANGED <<disk, faults, calm>>
  \/ /\ Fault
     /\ counts' = counts \union {"extraneous", "not_deleted"}
     /\ UNCHANGED disk

RemoveOrphan ==
  /\ pc = "remove" /\ at >= 1 /\ Orphan(Item)
  /\ IF Repairs THEN Remove(Item)
     ELSE counts' = counts \union {"extraneous"} /\ UNCHANGED <<disk, faults, calm>>
  /\ at' = at - 1
  /\ UNCHANGED <<left, tracked, pc, loaded, sound, ret, passes, kills, runs>>

RemoveDone ==
  /\ pc = "remove" /\ at < 1
  /\ pc' = "extra" /\ at' = Len(Order)
  /\ UNCHANGED <<place, loaded, sound, counts, history, budgets>>

----------------------------------------------------------------------------
(* deal_with_extra_files: walk_tree, backwards.                            *)

LooksForExtras == req.picky \/ req.extra

\* Extra at Order[at]: the path itself, or the .update. file beside it.
ExtraHere(p) == p \in Extras /\ disk[p] # "absent" /\ InRealDir(p)
LeftHere(p) == p \in left /\ p \in PickyTree

ExtraPass ==
  /\ pc = "extra" /\ at >= 1
  /\ ~LooksForExtras \/ ~(ExtraHere(Order[at]) \/ LeftHere(Order[at]))
  /\ at' = at - 1
  /\ UNCHANGED <<place, pc, loaded, sound, counts, history, budgets>>

ExtraLeft ==
  /\ pc = "extra" /\ at >= 1 /\ LooksForExtras /\ LeftHere(Order[at])
  /\ counts' = counts \union {"extraneous"}
  /\ left' = IF Repairs THEN left \ {Order[at]} ELSE left
  /\ at' = IF Repairs THEN at ELSE at - 1
  /\ UNCHANGED <<disk, tracked, pc, loaded, sound, history, budgets>>

\* It cannot be removed; what is at the path itself is dealt with all the same.
ExtraLeftStays ==
  /\ pc = "extra" /\ at >= 1 /\ LooksForExtras /\ LeftHere(Order[at]) /\ Repairs
  /\ Fault
  /\ \/ /\ ExtraHere(Order[at]) /\ (disk[Order[at]] # "dir" \/ Empty(Order[at]))
        /\ disk' = [disk EXCEPT ![Order[at]] = "absent"]
     \/ UNCHANGED disk
  /\ counts' = counts \union {"extraneous", "not_deleted"}
  /\ at' = at - 1
  /\ UNCHANGED <<left, tracked, pc, loaded, sound, ret, passes, kills, runs>>

ExtraFile ==
  /\ pc = "extra" /\ at >= 1 /\ LooksForExtras
  /\ ExtraHere(Order[at]) /\ ~LeftHere(Order[at])
  /\ IF Repairs THEN Remove(Order[at])
     ELSE counts' = counts \union {"extraneous"} /\ UNCHANGED <<disk, faults, calm>>
  /\ at' = at - 1
  /\ UNCHANGED <<left, tracked, pc, loaded, sound, ret, passes, kills, runs>>

ExtraDone ==
  /\ pc = "extra" /\ at < 1
  /\ pc' = "end"
  /\ UNCHANGED <<place, loaded, work, history, budgets>>

----------------------------------------------------------------------------
(* The end: the bundles of an installation are tracked, and the counters    *)
(* make the exit status.                                                   *)

Failed ==
  \/ counts \intersect {"not_fixed", "not_replaced"} # {}
  \/ (Repairs /\ "not_deleted" \in counts)
Found == counts \intersect {"missing", "mismatch", "extraneous"} # {}

Finish ==
  /\ pc = "end"
  /\ tracked' = IF Installs THEN tracked \union Chosen ELSE tracked
  /\ ret' = IF Failed THEN "verify_failed" ELSE IF ~Writes /\ Found THEN "no" ELSE "ok"
  /\ passes' = IF Complete(req) /\ calm
               THEN [version |-> version,
                     count |-> IF passes.version = version THEN passes.count + 1 ELSE 1]
               ELSE IF Writes THEN Undisturbed ELSE passes
  /\ pc' = "idle"
  /\ UNCHANGED <<disk, left, loaded, work, calm, budgets>>

\* Killed at any step.
Kill ==
  /\ pc # "idle" /\ kills > 0 /\ kills' = kills - 1
  /\ pc' = "idle" /\ ret' = "killed" /\ passes' = Undisturbed
  /\ UNCHANGED <<place, loaded, work, calm, faults, runs>>

\* Everything that was asked for has been done.
Rest == pc = "idle" /\ runs = 0 /\ UNCHANGED vars

Install(stage, rename, judge) ==
  Stage(stage, rename) \/ StageRefused(stage, judge) \/ StageFails(stage, judge)
    \/ Rename(rename, judge)

Step ==
  \/ LoadRefused \/ LoadFails \/ Loaded \/ Skip \/ Prepare \/ PrepareFails
  \/ Install("add_stage", "add_rename", "add_judge")
  \/ AddPass \/ AddMissing \/ AddJudge \/ AddDone
  \/ Install("fix_stage", "fix_rename", "fix_judge")
  \/ FixPass \/ FixMismatch \/ FixJudge \/ FixDone
  \/ RemovePass \/ RemoveOrphan \/ RemoveDone
  \/ ExtraPass \/ ExtraLeft \/ ExtraLeftStays \/ ExtraFile \/ ExtraDone \/ Finish

Next == RepairMain \/ InstallMain \/ DiagnoseMain \/ VerifyMain \/ Step \/ Kill \/ Rest

Spec == Init /\ [][Next]_vars
FairSpec == Spec /\ WF_vars(Step)

----------------------------------------------------------------------------
(* Properties.                                                             *)

\* Besides the types: only a kill or a failing call leaves a .update. file behind.
TypeOK ==
  /\ left \subseteq Paths /\ tracked \subseteq Bundles
  /\ DOMAIN disk = Paths /\ DOMAIN want \subseteq Paths
  /\ sound \subseteq DOMAIN want /\ counts \subseteq Counters
  /\ req \in Requests \union {NoRequest}
  /\ pc \in {"add_stage", "add_rename", "add_judge", "fix_stage", "fix_rename", "fix_judge"}
       => at \in DOMAIN Todo /\ want[Item] \notin Gone /\ Writes
  /\ left # {} /\ pc \notin {"add_rename", "fix_rename"}
       => kills < KillBudget \/ faults < FaultBudget

\* What the manifests of the installed bundles say of the disk: listed files are as they
\* are listed, state files are there, and what was deleted is not, but for boot files.
FileRight(w, p) ==
  IF w[p] \notin Gone THEN Seen(p) = w[p] \/ (p \in StateFiles /\ Seen(p) # "absent")
  ELSE \/ w[p] = "ghost" \/ p \in StateFiles \union BootFiles
       \/ ~InRealDir(p) \/ Seen(p) = "absent"
Wrong(v) ==
  LET w == Consolidated(v, Closure(v, Installed, FALSE))
  IN {p \in DOMAIN w : ~FileRight(w, p)}

\* After two complete repairs to one version in which nothing failed, one right after the
\* other, nothing is wrong any more, whatever was on the disk and wherever an earlier command
\* was killed; but for deleted directories that hold something else, and for deleted files
\* if the second one says that it could not replace a file.  The third one misses nothing.
TwoRepairsEnough ==
  pc = "idle" /\ passes.count >= 2 =>
    LET w == Consolidated(passes.version, Closure(passes.version, Installed, FALSE))
    IN \A p \in Wrong(passes.version) :
         /\ w[p] \in Gone
         /\ \/ disk[p] = "dir" /\ ~Empty(p)
            \/ passes.count = 2 /\ (Complete(req) => "not_replaced" \in counts)

\* A complete diagnose finds the system sound exactly if it is, and with --picky only if
\* there is nothing either that no manifest lists.
DiagnoseTellsTruth ==
  pc = "idle" /\ req.command = "diagnose" /\ req.bundles = {} /\ req.file = Root
    /\ ~req.quick /\ ~req.extra /\ ret \in {"ok", "no"} =>
    (ret = "ok" <=> /\ Wrong(version) = {}
                    /\ req.picky => /\ \A p \in Extras : (disk[p] = "absent" \/ ~InRealDir(p))
                                    /\ left \intersect PickyTree = {})

\* Whatever a command removes from a disk is something no installed bundle lists, that one
\* has deleted or that --picky asks for, or of another type than what is to be there; and
\* diagnose and a download change nothing at all.  Only verify --picky --bundles may take
\* more: "all files that are not part of --bundles", as verify.c:773 has it.
OnlyStrangersRemoved ==
  [][\A p \in Paths : disk[p] # "absent" /\ disk'[p] = "absent" =>
       LET w == Consolidated(version, All)
           asked == Consolidated(version, Closure(version, Chosen, WithOptional))
       IN /\ Writes /\ ~req.download
          /\ \/ p \in DOMAIN w /\ w[p] \notin Gone /\ Type(w[p]) # Type(disk[p])
             \/ p \in DOMAIN w /\ w[p] = "gone" /\ (MayRemove \/ LooksForExtras)
             \/ /\ LooksForExtras /\ p \in PickyTree
                /\ \/ p \notin DOMAIN w
                   \/ /\ req.legacy /\ req.bundles # {}
                      /\ p \notin DOMAIN asked \/ asked[p] \in Gone]_vars

\* A repair of everything that says it was successful has left nothing wrong.
RepairOkMeansRight ==
  pc = "idle" /\ Complete(req) /\ ret = "ok" => Wrong(version) = {}

=============================================================================

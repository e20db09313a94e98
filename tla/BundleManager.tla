---------------------------- MODULE BundleManager ----------------------------
(***************************************************************************)
(* bundle-add and bundle-remove (cmds/bundle_add.c, cmds/bundle_remove.c):  *)
(* which bundles a command installs or removes, what it does to their files *)
(* and to the tracking directory, which remembers the bundles the user      *)
(* asked for.                                                               *)
(*                                                                         *)
(* A bundle is installed when its marker file is, one of its own files that *)
(* is put in place and taken away like the others, in the order of their    *)
(* names. A command may be killed at any of these steps.                    *)
(***************************************************************************)
EXTENDS Integers, FiniteSets

CONSTANTS
  Bundles,       \* the bundles of the MoM
  Core,          \* os-core
  Paths,         \* every path a bundle may have
  Rank,          \* where a path comes in the consolidated, sorted file lists
  Marker,        \* the path of each bundle's file in /usr/share/clear/bundles
  Content,       \* the paths in each bundle's manifest
  Manifests,     \* dependencies of the bundles: records with includes, optional
  Requests,      \* the lists of bundles a user gives to a command
  FaultBudget,   \* bound: kills, failing downloads and system calls
  RunBudget      \* bound: number of commands

Graph == [Bundles -> SUBSET Bundles]

ASSUME BundlesAssumption ==
  /\ IsFiniteSet(Bundles) /\ Core \in Bundles
  /\ Rank \in [Paths -> Nat]
  /\ Marker \in [Bundles -> Paths]
  /\ \A a, b \in Bundles : Marker[a] = Marker[b] => a = b
  /\ Content \in [Bundles -> SUBSET Paths]
  /\ \A a, b \in Bundles : Marker[a] \in Content[b] <=> a = b
  /\ Requests \subseteq SUBSET Bundles
  /\ \A m \in Manifests : m.includes \in Graph /\ m.optional \in Graph

ASSUME BoundsAssumption ==
  FaultBudget \in Nat /\ RunBudget \in Nat

VARIABLES
  pc,        \* "idle", "add" or "remove"
  includes,  \* manifest->includes of each bundle
  optional,  \* manifest->optional of each bundle
  disk,      \* the paths that exist
  tracked,   \* the tracking directory
  stuck,     \* history: the bundles in it whose mark a bundle-remove could not
             \* remove, and which have not been asked for since
  todo,      \* what is left of to_install_files or files_to_remove
  named,     \* what bundle-add was asked for and installs; what bundle-remove
             \* was asked for and removes
  done,      \* the last form of bundle-remove, and the bundles it removed
  faults, runs

manifests == <<includes, optional>>
marks == <<tracked, stuck>>
budgets == <<faults, runs>>
vars == <<pc, manifests, disk, marks, todo, named, done, budgets>>

Installed == {b \in Bundles : Marker[b] \in disk}

Nothing == [command |-> "none", removed |-> {}]

Init ==
  /\ pc = "idle"
  /\ \E m \in Manifests : includes = m.includes /\ optional = m.optional
  /\ disk = Content[Core]
  /\ tracked = {} /\ stuck = {}
  /\ todo = {} /\ named = {} /\ done = Nothing
  /\ faults = FaultBudget /\ runs = RunBudget

----------------------------------------------------------------------------
(* Dependencies.                                                           *)

\* Everything that next leads to from S, S included: what every set holds that
\* contains S and, with a bundle, whatever next gives for it.
Reach(S, next) ==
  {b \in Bundles : \A C \in SUBSET Bundles :
     S \subseteq C /\ (\A a \in C : next[a] \subseteq C) => b \in C}

Deps(skip) == [b \in Bundles |-> includes[b] \union IF skip THEN {} ELSE optional[b]]

\* recurse_dependencies: goes no further at a bundle the filter refuses.
Dependencies(S, allowed, skip) ==
  Reach(S \intersect allowed, [b \in Bundles |-> Deps(skip)[b] \intersect allowed])

\* Mutant: what requires a bundle that is removed too is not looked at.
BlockersDirect(b, mans, S) == {d \in mans : b \in includes[d]} \ S

\* required_by: whoever includes b, directly or not, but for the bundles named
\* on the command line, whose own dependents count.
Blockers(b, mans, S) ==
  Reach({b}, [a \in Bundles |-> {d \in mans : a \in includes[d]}]) \ ({b} \union S)

\* Mutant: starts from what is installed.
WantedInstalled(asked) == Reach(Installed, Deps(FALSE))

\* add_subscriptions: what the tracked bundles pull in.
Wanted(asked) == Reach(asked, Deps(FALSE))

----------------------------------------------------------------------------
\* swupd_init -> safeguard_tracking_dir: an empty tracking directory is taken
\* for the first use, and everything installed is tracked.
Safeguarded == IF tracked = {} THEN Installed ELSE tracked

Fault == faults > 0 /\ faults' = faults - 1

\* track_bundle, bundle by bundle: a mark that cannot be made is passed over.
Tracks(asked, S) ==
  /\ \/ tracked' = asked \union S /\ UNCHANGED faults
     \/ Fault /\ \E T \in (SUBSET S) \ {S} : tracked' = asked \union T
  /\ stuck' = stuck \ S

\* remove_tracked: so is a mark that cannot be removed.
Forgets(S, kept) ==
  /\ kept \subseteq Safeguarded
  /\ IF kept = {} THEN UNCHANGED faults ELSE Fault
  /\ tracked' = (Safeguarded \ S) \union kept
  /\ stuck' = (stuck \ S) \union kept

\* The files are worked off in the order of the list.
First(p) == p \in todo /\ \A q \in todo : Rank[p] <= Rank[q]

Command == pc = "idle" /\ runs > 0 /\ runs' = runs - 1

\* The copy into an empty tracking directory fails or is cut short; what was
\* copied stays, and the command ends.
SafeguardFails ==
  /\ Command /\ Fault
  /\ tracked = {} /\ tracked' \in SUBSET Installed
  /\ done' = Nothing
  /\ UNCHANGED <<pc, manifests, disk, stuck, todo, named>>

----------------------------------------------------------------------------
(* bundle-add.                                                             *)

NewBundles(S, skip) == Dependencies(S, Bundles \ Installed, skip)

\* What is requested and there already is tracked; everything else is
\* downloaded and staged before the first file is put in place.
Add(S, skip) ==
  /\ Command
  /\ NewBundles(S, skip) # {}
  /\ pc' = "add"
  /\ Tracks(Safeguarded, S \intersect Installed)
  /\ todo' = UNION {Content[b] : b \in NewBundles(S, skip)}
  /\ named' = S \ Installed
  /\ done' = Nothing
  /\ UNCHANGED <<manifests, disk>>

AddNothing(S, skip) ==
  /\ Command
  /\ NewBundles(S, skip) = {}
  /\ Tracks(Safeguarded, S \intersect Installed)
  /\ done' = Nothing
  /\ UNCHANGED <<pc, manifests, disk, todo, named>>

\* A manifest, a file, or space to stage it in, cannot be had; some of the
\* requested bundles were looked at before.
AddFails(S) ==
  /\ Command /\ Fault
  /\ \E T \in SUBSET (S \intersect Installed) :
       tracked' = Safeguarded \union T /\ stuck' = stuck \ T
  /\ done' = Nothing
  /\ UNCHANGED <<pc, manifests, disk, todo, named>>

\* rename_all_files_to_final: the next file takes its place ...
AddFile ==
  /\ pc = "add"
  /\ \E p \in Paths : First(p) /\ disk' = disk \union {p} /\ todo' = todo \ {p}
  /\ UNCHANGED <<pc, manifests, marks, named, done, budgets>>

\* ... or cannot; the others follow all the same.
AddFileFails ==
  /\ pc = "add" /\ Fault
  /\ \E p \in Paths : First(p) /\ todo' = todo \ {p}
  /\ UNCHANGED <<pc, manifests, disk, marks, named, done, runs>>

\* Mutant: tracked whether it could be installed or not.
TrackAll == named

ToTrack == named \intersect Installed

AddEnd ==
  /\ pc = "add" /\ todo = {}
  /\ pc' = "idle"
  /\ Tracks(tracked, ToTrack)
  /\ done' = Nothing
  /\ UNCHANGED <<manifests, disk, todo, named, runs>>

----------------------------------------------------------------------------
(* bundle-remove.                                                          *)

\* read_subscriptions always adds os-core.
Subscribed == Installed \union {Core}

\* validate_bundle: os-core and what is not installed are skipped, and so is
\* what a bundle that is not named requires, unless forced.
Removable(S, force) ==
  {b \in S \ {Core} : b \in Installed /\ (force \/ Blockers(b, Subscribed, S) = {})}

\* The named bundles that may go; with --force, and all that require them.
Moved(S, force) ==
  Removable(S, force) \union
    IF force THEN UNION {Blockers(b, Subscribed, S) : b \in Removable(S, force)} ELSE {}

\* Mutant: the tracking directory is not asked.
DeletableTracked(asked) == Installed \ {Core}

\* is_deletable_dependency.
Deletable(asked) == (Installed \ {Core}) \ asked

\* Mutant: does not ask what the bundles that stay require.
RecursedAll(moved, asked) == moved \union Dependencies(moved, Deletable(asked), FALSE)

\* get_removable_dependencies, with --recursive: the dependencies that may be
\* removed and that no bundle needs which stays.
Recursed(moved, asked) ==
  LET candidates == Dependencies(moved, Deletable(asked), FALSE)
      stay == (Subscribed \ moved) \ candidates
  IN moved \union (candidates \ Dependencies(stay, Installed, FALSE))

\* Mutant: a file of two bundles goes with either of them.
FilesOfAll(gone) == UNION {Content[b] : b \in gone}

\* list_sorted_split_common_elements: what a bundle that stays has is kept.
FilesOf(gone) ==
  (UNION {Content[b] : b \in gone}) \ (UNION {Content[b] : b \in Subscribed \ gone})

\* The part all three forms share: moved is what the command line or the list
\* of orphans says, gone what is removed, kept whose marks stay all the same.
Removes(command, moved, gone, kept) ==
  /\ Forgets(moved, kept)
  /\ todo' = FilesOf(gone)
  /\ pc' = IF gone = {} THEN "idle" ELSE "remove"
  /\ done' = [command |-> command, removed |-> gone]
  /\ named' = moved
  /\ UNCHANGED <<manifests, disk>>

RemoveNamed(S, force) ==
  /\ Command
  /\ \E kept \in SUBSET Moved(S, force) :
       Removes("remove", Moved(S, force), Moved(S, force), kept)

\* The dependencies are looked for when the marks of the named bundles are gone,
\* or are not.
RemoveRecursive(S, force) ==
  /\ Command
  /\ LET moved == Moved(S, force) IN
     \E kept \in SUBSET moved :
       Removes(IF force THEN "remove" ELSE "recursive",
               moved, Recursed(moved, (Safeguarded \ moved) \union kept), kept)

\* bundle_list_orphans, then as if the orphans had been named.
RemoveOrphans ==
  /\ Command
  /\ LET moved == Moved(Installed \ Wanted(Safeguarded), FALSE) IN
     \E kept \in SUBSET moved : Removes("orphans", moved, moved, kept)

\* A manifest cannot be had; or the command is killed when it has forgotten
\* some of the bundles it is to remove.
RemoveFails(S, force) ==
  /\ Command /\ Fault
  /\ \E T \in SUBSET Moved(S, force) :
       tracked' = Safeguarded \ T /\ stuck' = stuck \ T
  /\ done' = Nothing
  /\ UNCHANGED <<pc, manifests, disk, todo, named>>

\* target_root_remove_files: the next file goes ...
RemoveFile ==
  /\ pc = "remove"
  /\ \E p \in Paths : First(p) /\ disk' = disk \ {p} /\ todo' = todo \ {p}
  /\ UNCHANGED <<pc, manifests, marks, named, done, budgets>>

\* ... or cannot be removed; it is only counted.
RemoveFileFails ==
  /\ pc = "remove" /\ Fault
  /\ \E p \in Paths : First(p) /\ todo' = todo \ {p}
  /\ UNCHANGED <<pc, manifests, disk, marks, named, done, runs>>

RemoveEnd ==
  /\ pc = "remove" /\ todo = {}
  /\ pc' = "idle"
  /\ UNCHANGED <<manifests, disk, marks, todo, named, done, budgets>>

----------------------------------------------------------------------------
\* The command is killed: what is on disk stays. What bundle-add has already
\* tracked at its end stays tracked.
Crash ==
  /\ pc # "idle" /\ Fault
  /\ \E T \in SUBSET (named \intersect Installed) :
       /\ T = {} \/ (pc = "add" /\ todo = {})
       /\ tracked' = tracked \union T /\ stuck' = stuck \ T
  /\ pc' = "idle" /\ todo' = {} /\ named' = {} /\ done' = Nothing
  /\ UNCHANGED <<manifests, disk, runs>>

\* No more commands.
Rest == pc = "idle" /\ runs = 0 /\ UNCHANGED vars

Start == \E S \in Requests :
  \/ \E skip \in BOOLEAN : Add(S, skip) \/ AddNothing(S, skip)
  \/ AddFails(S)
  \/ \E force \in BOOLEAN : RemoveNamed(S, force) \/ RemoveRecursive(S, force)
                          \/ RemoveFails(S, force)

Next == Start \/ SafeguardFails \/ RemoveOrphans \/ AddFile \/ AddFileFails \/ AddEnd
          \/ RemoveFile \/ RemoveFileFails \/ RemoveEnd \/ Crash \/ Rest

Spec == Init /\ [][Next]_vars

----------------------------------------------------------------------------
(* Properties.                                                             *)

\* Types; and the tracking directory names installed bundles only, even after
\* a command was killed or could not install or remove a file: but for those
\* whose mark could not be removed when their files were.
TypeOK ==
  /\ pc \in {"idle", "add", "remove"}
  /\ includes \in Graph /\ optional \in Graph
  /\ disk \subseteq Paths
  /\ tracked \subseteq Bundles /\ stuck \subseteq tracked
  /\ tracked \ stuck \subseteq Installed
  /\ todo \subseteq Paths /\ named \subseteq Bundles
  /\ done.command \in {"none", "remove", "recursive", "orphans"}
  /\ done.removed \subseteq Bundles
  /\ faults \in 0 .. FaultBudget /\ runs \in 0 .. RunBudget

\* Between two commands none of which was killed or failed.
Undisturbed == pc = "idle" /\ faults = FaultBudget

\* What an installed bundle includes is installed, whatever was added, skipped
\* as optional, removed, removed with its dependencies or as an orphan.
IncludesInstalled ==
  Undisturbed => \A b \in Installed : includes[b] \subseteq Installed

\* The files on disk are those of the installed bundles: a file two of them
\* have is kept until both are gone, and none is left behind.
FilesExact == Undisturbed => disk = UNION {Content[b] : b \in Installed}

\* A tracked bundle is forgotten before the first of its files goes, unless its
\* mark cannot be removed; and removing the orphans forgets none: only what is
\* named goes, or with --force what requires it.
TrackedOnlyOnRequest ==
  [][/\ \A b \in tracked \ stuck : Marker[b] \in disk'
     /\ done'.command = "orphans" => tracked \subseteq tracked']_vars

\* bundle-remove --orphans leaves only what the tracked bundles pull in.
OrphansGone ==
  Undisturbed /\ done.command = "orphans" =>
    Installed \ {Core} \subseteq Reach(tracked, Deps(FALSE))

\* What bundle-remove --recursive removes beyond the named bundles is listed by
\* no installed bundle, not even as optional.
RecursiveSpares ==
  Undisturbed /\ done.command = "recursive" =>
    \A d \in Installed : Deps(FALSE)[d] \intersect (done.removed \ named) = {}

=============================================================================

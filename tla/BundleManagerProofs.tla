------------------------- MODULE BundleManagerProofs -------------------------
(***************************************************************************)
(* Theorems about BundleManager, for any bundles, files and dependencies,   *)
(* any requests, and any number of commands.                                *)
(***************************************************************************)
EXTENDS BundleManager, TLAPS

----------------------------------------------------------------------------
(* Lemmas about the operators the model is built from.                     *)

\* Reach stays in every set that contains S and is closed under next ...
LEMMA ReachWithin ==
  ASSUME NEW S, NEW next, NEW A \in SUBSET Bundles,
         S \subseteq A, \A a \in A : next[a] \subseteq A
  PROVE  Reach(S, next) \subseteq A
BY DEF Reach

\* ... and is such a set itself.
LEMMA ReachClosed ==
  ASSUME NEW S \in SUBSET Bundles, NEW next, \A a \in Bundles : next[a] \subseteq Bundles
  PROVE  /\ S \subseteq Reach(S, next)
         /\ Reach(S, next) \subseteq Bundles
         /\ \A a \in Reach(S, next) : next[a] \subseteq Reach(S, next)
<1>1. S \subseteq Reach(S, next) /\ Reach(S, next) \subseteq Bundles
  BY DEF Reach
<1>2. ASSUME NEW a \in Reach(S, next), NEW c \in next[a]
      PROVE  c \in Reach(S, next)
  <2>1. c \in Bundles
    BY <1>1
  <2>2. ASSUME NEW C \in SUBSET Bundles,
               S \subseteq C, \A d \in C : next[d] \subseteq C
        PROVE  c \in C
    <3>1. a \in C
      BY <2>2 DEF Reach
    <3> QED BY <2>2, <3>1
  <2> QED BY <2>1, <2>2 DEF Reach
<1> QED BY <1>1, <1>2

\* Dependencies never leaves what the filter allows, and holds, with a bundle,
\* everything allowed that the bundle includes or, unless skipped, lists.
LEMMA DependenciesProperties ==
  ASSUME NEW S \in SUBSET Bundles, NEW allowed \in SUBSET Bundles, NEW skip \in BOOLEAN,
         includes \in Graph, optional \in Graph
  PROVE  /\ Dependencies(S, allowed, skip) \subseteq allowed
         /\ S \intersect allowed \subseteq Dependencies(S, allowed, skip)
         /\ \A b \in Dependencies(S, allowed, skip) :
              /\ includes[b] \intersect allowed \subseteq Dependencies(S, allowed, skip)
              /\ Deps(skip)[b] \intersect allowed \subseteq Dependencies(S, allowed, skip)
<1> DEFINE next == [b \in Bundles |-> Deps(skip)[b] \intersect allowed]
<1>1. \A a \in Bundles : /\ next[a] \subseteq allowed
                         /\ includes[a] \intersect allowed \subseteq next[a]
                         /\ Deps(skip)[a] \intersect allowed \subseteq next[a]
  BY DEF Deps
<1>2. Dependencies(S, allowed, skip) = Reach(S \intersect allowed, next)
  BY DEF Dependencies
<1> HIDE DEF next
<1>3. Reach(S \intersect allowed, next) \subseteq allowed
  BY <1>1, ReachWithin
<1>4. /\ S \intersect allowed \subseteq Reach(S \intersect allowed, next)
      /\ \A a \in Reach(S \intersect allowed, next) :
           next[a] \subseteq Reach(S \intersect allowed, next)
  BY <1>1, ReachClosed
<1> QED BY <1>1, <1>2, <1>3, <1>4

\* Whoever includes a bundle that is a, or blocks a, blocks a too, unless it is
\* a or named on the command line.
LEMMA BlockersClosed ==
  ASSUME NEW a \in Bundles, NEW mans \in SUBSET Bundles, NEW S \in SUBSET Bundles,
         NEW d \in mans, NEW b \in includes[d] \intersect Bundles
  PROVE  LET up == Reach({a}, [c \in Bundles |-> {e \in mans : c \in includes[e]}]) IN
         /\ Blockers(a, mans, S) = up \ ({a} \union S)
         /\ a \in up
         /\ b \in up => d \in up
<1> DEFINE next == [c \in Bundles |-> {e \in mans : c \in includes[e]}]
<1>1. \A c \in Bundles : next[c] \subseteq Bundles
  OBVIOUS
<1>2. d \in next[b]
  OBVIOUS
<1>3. Blockers(a, mans, S) = Reach({a}, next) \ ({a} \union S)
  BY DEF Blockers
<1> HIDE DEF next
<1>4. /\ {a} \subseteq Reach({a}, next)
      /\ \A c \in Reach({a}, next) : next[c] \subseteq Reach({a}, next)
  BY <1>1, ReachClosed
<1> QED BY <1>2, <1>3, <1>4 DEF next

\* The marker of a bundle goes with the bundle and with nothing else.
LEMMA MarkerOfGone ==
  ASSUME NEW b \in Bundles, NEW gone \in SUBSET Bundles
  PROVE  Marker[b] \in FilesOf(gone) <=> b \in gone
<1>1. Subscribed \subseteq Bundles
  BY BundlesAssumption DEF Subscribed, Installed
<1>2. \A a \in Bundles : Marker[b] \in Content[a] <=> a = b
  BY BundlesAssumption
<1>3. Marker[b] \in FilesOf(gone) =>
        \E a \in gone : Marker[b] \in Content[a]
  BY DEF FilesOf
<1>4. ASSUME b \in gone PROVE Marker[b] \in FilesOf(gone)
  <2>1. \A a \in Subscribed \ gone : Marker[b] \notin Content[a]
    BY <1>1, <1>2, <1>4
  <2> QED BY <1>2, <1>4, <2>1 DEF FilesOf
<1> QED BY <1>2, <1>3, <1>4

----------------------------------------------------------------------------
(* Type correctness.                                                       *)

USE DEF manifests, marks, budgets, vars, Graph

\* Why no step removes the marker of a tracked bundle, but for those whose mark
\* is stuck.
TrackedSafe == pc = "remove" => \A b \in tracked \ stuck : Marker[b] \notin todo

TInv == TypeOK /\ TrackedSafe

\* What is tracked when a command starts is installed, or stuck.
LEMMA SafeguardedInstalled ==
  ASSUME TypeOK
  PROVE  /\ Safeguarded \subseteq Bundles /\ Installed \subseteq Bundles
         /\ tracked \subseteq Safeguarded /\ stuck \subseteq Safeguarded
         /\ Safeguarded \ stuck \subseteq Installed
BY DEF TypeOK, Safeguarded, Installed

\* Marks of installed bundles are made, all or some of them ...
LEMMA TracksInstalled ==
  ASSUME TypeOK, NEW asked \in SUBSET Bundles, NEW S \in SUBSET Installed,
         stuck \subseteq asked, asked \ stuck \subseteq Installed, Tracks(asked, S)
  PROVE  /\ tracked' \subseteq Bundles /\ stuck' \subseteq tracked'
         /\ tracked' \ stuck' \subseteq Installed
         /\ faults' \in 0 .. FaultBudget
         /\ Fault \/ UNCHANGED faults
<1>1. Installed \subseteq Bundles
  BY DEF Installed
<1> QED BY <1>1, BoundsAssumption DEF TypeOK, Tracks, Fault

\* ... and removed; those that are not are stuck.
LEMMA ForgetsStuck ==
  ASSUME TypeOK, NEW S \in SUBSET Bundles, NEW kept \in SUBSET S, Forgets(S, kept)
  PROVE  /\ tracked' \subseteq Bundles /\ stuck' \subseteq tracked'
         /\ tracked' \ stuck' \subseteq (Safeguarded \ S) \ stuck
         /\ tracked' \ stuck' \subseteq Installed
         /\ faults' \in 0 .. FaultBudget
         /\ Fault \/ (UNCHANGED faults /\ kept = {})
BY SafeguardedInstalled, BoundsAssumption DEF TypeOK, Forgets, Fault

\* bundle-remove removes bundles, forced or not, and no os-core unless forced.
LEMMA MovedBundles ==
  ASSUME TypeOK, NEW S \in SUBSET Bundles, NEW force \in BOOLEAN
  PROVE  /\ Moved(S, force) \subseteq Bundles
         /\ Removable(S, force) \subseteq Moved(S, force)
<1>1. \A b, mans : Blockers(b, mans, S) \subseteq Bundles
  BY DEF Blockers, Reach
<1>2. Removable(S, force) \subseteq Bundles
  BY DEF Removable
<1> QED BY <1>1, <1>2 DEF Moved

LEMMA InitType == Init => TInv
<1> SUFFICES ASSUME Init PROVE TInv
  OBVIOUS
<1>1. includes \in Graph /\ optional \in Graph
  BY BundlesAssumption DEF Init
<1>2. disk \subseteq Paths
  BY BundlesAssumption DEF Init
<1> QED BY <1>1, <1>2, BoundsAssumption DEF Init, TInv, TypeOK, TrackedSafe, Nothing

\* bundle-add tracks what is installed, before it starts and at its end, and
\* only ever adds files.
LEMMA AddType ==
  ASSUME TInv, NEW S \in SUBSET Bundles, NEW skip \in BOOLEAN,
         Add(S, skip) \/ AddNothing(S, skip) \/ AddFails(S)
  PROVE  TInv'
<1> USE DEF TInv, TypeOK, TrackedSafe, Command, Nothing
<1>1. /\ Safeguarded \subseteq Bundles /\ stuck \subseteq Safeguarded
      /\ Safeguarded \ stuck \subseteq Installed
      /\ Installed \subseteq Bundles /\ runs \in Nat /\ faults \in Nat
  BY SafeguardedInstalled, BoundsAssumption
<1>2. disk' = disk /\ Installed' = Installed
  BY DEF Add, AddNothing, AddFails, Installed
<1>3. /\ tracked' \subseteq Bundles /\ stuck' \subseteq tracked'
      /\ tracked' \ stuck' \subseteq Installed
      /\ faults' \in 0 .. FaultBudget
  <2>1. CASE Add(S, skip) \/ AddNothing(S, skip)
    <3>1. Tracks(Safeguarded, S \intersect Installed)
      BY <2>1 DEF Add, AddNothing
    <3> QED BY <1>1, <3>1, TracksInstalled
  <2>2. CASE AddFails(S)
    BY <1>1, <2>2, BoundsAssumption DEF AddFails, Fault
  <2> QED BY <2>1, <2>2
<1>4. todo' \subseteq Paths
  <2>1. NewBundles(S, skip) \subseteq Bundles
    BY DEF NewBundles, Dependencies, Reach
  <2> QED BY <2>1, BundlesAssumption DEF Add, AddNothing, AddFails
<1> QED BY <1>1, <1>2, <1>3, <1>4, BoundsAssumption DEF Add, AddNothing, AddFails

LEMMA AddStepType ==
  ASSUME TInv, AddFile \/ AddFileFails \/ AddEnd \/ SafeguardFails
  PROVE  TInv'
<1> USE DEF TInv, TypeOK, TrackedSafe, Nothing
<1>1. /\ disk' \subseteq Paths /\ disk \subseteq disk' /\ todo' \subseteq todo
      /\ faults \in Nat /\ runs \in Nat
  BY BoundsAssumption DEF AddFile, AddFileFails, AddEnd, SafeguardFails
<1>2. Installed \subseteq Installed' /\ Installed \subseteq Bundles
  BY <1>1 DEF Installed
<1>3. CASE AddEnd
  <2>1. ToTrack \subseteq Installed
    BY DEF ToTrack
  <2>2. Tracks(tracked, ToTrack)
    BY <1>3 DEF AddEnd
  <2>3. /\ tracked' \subseteq Bundles /\ stuck' \subseteq tracked'
        /\ tracked' \ stuck' \subseteq Installed
        /\ faults' \in 0 .. FaultBudget
    BY <2>1, <2>2, TracksInstalled
  <2> QED BY <1>1, <1>2, <1>3, <2>3 DEF AddEnd
<1>4. CASE AddFile \/ AddFileFails
  BY <1>1, <1>2, <1>4, BoundsAssumption DEF AddFile, AddFileFails, Fault
<1>5. CASE SafeguardFails
  BY <1>1, <1>2, <1>5, BoundsAssumption DEF SafeguardFails, Command, Fault
<1> QED BY <1>3, <1>4, <1>5

\* What all three forms of bundle-remove share: no bundle that stays tracked is
\* among those whose files go, unless its mark is stuck.
LEMMA RemovesType ==
  ASSUME TInv, Command, NEW command \in {"remove", "recursive", "orphans"},
         NEW moved \in SUBSET Bundles, NEW gone \in SUBSET Bundles, NEW kept \in SUBSET moved,
         gone \intersect (Safeguarded \ moved) = {},
         Removes(command, moved, gone, kept)
  PROVE  TInv'
<1> USE DEF TInv, TypeOK, TrackedSafe, Command
<1>1. /\ tracked' \subseteq Bundles /\ stuck' \subseteq tracked'
      /\ tracked' \ stuck' \subseteq Safeguarded \ moved
      /\ tracked' \ stuck' \subseteq Installed
      /\ faults' \in 0 .. FaultBudget
  <2>1. Forgets(moved, kept)
    BY DEF Removes
  <2> QED BY <2>1, ForgetsStuck
<1>2. Installed' = Installed
  BY DEF Removes, Installed
<1>3. \A b \in tracked' \ stuck' : Marker[b] \notin todo'
  <2>1. todo' = FilesOf(gone)
    BY DEF Removes
  <2> QED BY <1>1, <2>1, MarkerOfGone
<1>4. todo' \subseteq Paths
  BY BundlesAssumption DEF FilesOf, Removes
<1> QED BY <1>1, <1>2, <1>3, <1>4, BoundsAssumption DEF Removes

\* What --recursive adds to the bundles to remove is not tracked.
LEMMA RecursedUntracked ==
  ASSUME TypeOK, NEW moved \in SUBSET Bundles, NEW asked
  PROVE  /\ Recursed(moved, asked) \subseteq Bundles
         /\ Recursed(moved, asked) \ moved \subseteq Deletable(asked)
<1>1. Deletable(asked) \subseteq Bundles
  BY DEF Deletable, Installed
<1>2. Dependencies(moved, Deletable(asked), FALSE) \subseteq Deletable(asked)
  BY <1>1, DependenciesProperties DEF TypeOK
<1> QED BY <1>1, <1>2 DEF Recursed

LEMMA RemoveType ==
  ASSUME TInv, NEW S \in SUBSET Bundles, NEW force \in BOOLEAN,
         RemoveNamed(S, force) \/ RemoveRecursive(S, force) \/ RemoveFails(S, force)
  PROVE  TInv'
<1>1. TypeOK
  BY DEF TInv
<1>2. Moved(S, force) \subseteq Bundles
  BY <1>1, MovedBundles
<1>3. CASE RemoveNamed(S, force)
  BY <1>2, <1>3, RemovesType DEF RemoveNamed
<1>4. CASE RemoveRecursive(S, force)
  <2> DEFINE moved == Moved(S, force)
             asked(kept) == (Safeguarded \ moved) \union kept
  <2>1. PICK kept \in SUBSET moved :
          Removes(IF force THEN "remove" ELSE "recursive", moved, Recursed(moved, asked(kept)), kept)
    BY <1>4 DEF RemoveRecursive
  <2> DEFINE gone == Recursed(moved, asked(kept))
  <2>2. gone \subseteq Bundles /\ gone \intersect (Safeguarded \ moved) = {}
    BY <1>1, <1>2, RecursedUntracked DEF Deletable
  <2>3. Command
    BY <1>4 DEF RemoveRecursive
  <2> HIDE DEF gone, moved
  <2>4. Removes(IF force THEN "remove" ELSE "recursive", moved, gone, kept) /\ moved \subseteq Bundles
    BY <1>2, <2>1 DEF gone, moved
  <2> QED BY <2>2, <2>3, <2>4, RemovesType
<1>5. CASE RemoveFails(S, force)
  <2>1. /\ tracked' \subseteq Bundles /\ stuck' \subseteq tracked'
        /\ tracked' \ stuck' \subseteq Installed /\ Installed' = Installed
    BY <1>1, <1>5, SafeguardedInstalled DEF RemoveFails, Installed
  <2> QED BY <1>5, <2>1, BoundsAssumption
          DEF RemoveFails, TInv, TypeOK, TrackedSafe, Command, Fault, Nothing
<1> QED BY <1>3, <1>4, <1>5

LEMMA OrphansType ==
  ASSUME TInv, RemoveOrphans
  PROVE  TInv'
<1> DEFINE moved == Moved(Installed \ Wanted(Safeguarded), FALSE)
<1>1. moved \subseteq Bundles
  BY MovedBundles DEF TInv, Installed
<1>2. PICK kept \in SUBSET moved : Command /\ Removes("orphans", moved, moved, kept)
  BY DEF RemoveOrphans
<1> HIDE DEF moved
<1> QED BY <1>1, <1>2, RemovesType

\* A file that goes is not the marker of a tracked bundle.
LEMMA RemoveStepType ==
  ASSUME TInv, RemoveFile \/ RemoveFileFails \/ RemoveEnd \/ Crash
  PROVE  TInv'
<1> USE DEF TInv, TypeOK, TrackedSafe, Fault, Nothing
<1>1. CASE RemoveFile
  <2>1. tracked \ stuck \subseteq Installed'
    BY <1>1 DEF RemoveFile, First, Installed
  <2> QED BY <1>1, <2>1 DEF RemoveFile
<1>2. CASE RemoveFileFails
  BY <1>2, BoundsAssumption DEF RemoveFileFails, Installed
<1>3. CASE RemoveEnd
  BY <1>3 DEF RemoveEnd, Installed
<1>4. CASE Crash
  <2>1. Installed' = Installed /\ Installed \subseteq Bundles
    BY <1>4 DEF Crash, Installed
  <2> QED BY <1>4, <2>1, BoundsAssumption DEF Crash
<1> QED BY <1>1, <1>2, <1>3, <1>4

LEMMA NextType == TInv /\ [Next]_vars => TInv'
<1> SUFFICES ASSUME TInv, [Next]_vars PROVE TInv'
  OBVIOUS
<1>1. Requests \subseteq SUBSET Bundles
  BY BundlesAssumption
<1>2. CASE UNCHANGED vars
  BY <1>2 DEF TInv, TypeOK, TrackedSafe, Installed
<1> QED
  BY <1>1, <1>2, AddType, AddStepType, RemoveType, OrphansType, RemoveStepType
     DEF Next, Start, Rest

\* Only installed bundles are tracked, but for those whose mark could not be removed
\* with their files, and every variable keeps its type, whatever fails and wherever
\* a command is killed.
THEOREM TypeCorrect == Spec => []TypeOK
<1>1. Init => TInv
  BY InitType
<1>2. TInv /\ [Next]_vars => TInv'
  BY NextType
<1>3. TInv => TypeOK
  BY DEF TInv
<1> QED BY <1>1, <1>2, <1>3, PTL DEF Spec

----------------------------------------------------------------------------
(* Dependencies stay satisfied.                                            *)

\* os-core includes no bundle; if it did, naming both on the command line
\* would remove the other one, for required_by leaves out os-core.
CoreIncludesNothing == includes[Core] = {}

\* The bundles that are installed once the command has come to its end.
Upcoming ==
  {b \in Bundles : \/ pc = "add" /\ Marker[b] \in disk \union todo
                   \/ pc = "remove" /\ Marker[b] \in disk \ todo
                   \/ pc = "idle" /\ Marker[b] \in disk}

\* Why the commands keep dependencies: at each of their steps the bundles that
\* will be left are closed, unless something failed.
CInv ==
  /\ CoreIncludesNothing
  /\ faults = FaultBudget => \A b \in Upcoming : includes[b] \subseteq Upcoming

LEMMA InitClosed == Init /\ CoreIncludesNothing => CInv
<1> SUFFICES ASSUME Init, CoreIncludesNothing PROVE CInv
  OBVIOUS
<1>1. Upcoming = {Core}
  BY BundlesAssumption DEF Init, Upcoming
<1> QED BY <1>1 DEF CInv, CoreIncludesNothing

\* A step that uses up one fault leaves nothing to show.
LEMMA FaultClosed ==
  ASSUME TypeOK, CInv, Fault, UNCHANGED manifests
  PROVE  CInv'
<1>1. faults' # FaultBudget
  BY BoundsAssumption DEF Fault, TypeOK
<1> QED BY <1>1 DEF CInv, CoreIncludesNothing

\* bundle-add: together with what is installed, what is installed new is closed.
LEMMA AddClosed ==
  ASSUME TypeOK, CInv, NEW S \in SUBSET Bundles, NEW skip \in BOOLEAN,
         Add(S, skip) \/ AddNothing(S, skip) \/ AddFails(S)
  PROVE  CInv'
<1> DEFINE new == NewBundles(S, skip)
<1>0. CASE Fault
  BY <1>0, FaultClosed DEF Add, AddNothing, AddFails
<1>1. CASE Add(S, skip) /\ UNCHANGED faults
  <2>1. /\ new \subseteq Bundles \ Installed
        /\ \A b \in new : includes[b] \intersect (Bundles \ Installed) \subseteq new
    BY DependenciesProperties DEF NewBundles, TypeOK
  <2>2. \A b \in Bundles : Marker[b] \in UNION {Content[a] : a \in new} <=> b \in new
    BY <2>1, BundlesAssumption
  <2>3. Upcoming' = Installed \union new
    BY <1>1, <2>1, <2>2 DEF Add, Upcoming, Installed
  <2>4. Upcoming = Installed
    BY <1>1 DEF Add, Command, Upcoming, Installed
  <2>5. \A b \in Installed \union new : includes[b] \subseteq Bundles
    BY <2>1 DEF TypeOK, Installed
  <2> HIDE DEF new
  <2> QED BY <1>1, <2>1, <2>3, <2>4, <2>5 DEF CInv, CoreIncludesNothing, Add
<1>2. CASE AddNothing(S, skip) /\ UNCHANGED faults
  <2>1. Upcoming' = Upcoming
    BY <1>2 DEF AddNothing, Command, Upcoming
  <2> QED BY <1>2, <2>1 DEF CInv, CoreIncludesNothing, AddNothing
<1> QED BY <1>0, <1>1, <1>2 DEF Add, AddNothing, AddFails, Tracks

\* Putting files in place and taking them away changes nothing about what will
\* be there at the end.
LEMMA StepClosed ==
  ASSUME TypeOK, CInv,
         \/ AddFile \/ AddFileFails \/ AddEnd \/ SafeguardFails
         \/ RemoveFile \/ RemoveFileFails \/ RemoveEnd \/ Crash
  PROVE  CInv'
<1>1. CASE (AddFile \/ AddEnd \/ RemoveFile \/ RemoveEnd) /\ UNCHANGED faults
  <2>1. Upcoming' = Upcoming
    <3>1. CASE AddFile
      BY <3>1 DEF AddFile, First, Upcoming
    <3>2. CASE AddEnd
      BY <3>2 DEF AddEnd, Upcoming
    <3>3. CASE RemoveFile
      BY <3>3 DEF RemoveFile, First, Upcoming
    <3>4. CASE RemoveEnd
      BY <3>4 DEF RemoveEnd, Upcoming
    <3> QED BY <1>1, <3>1, <3>2, <3>3, <3>4
  <2>2. UNCHANGED <<manifests, faults>>
    BY <1>1 DEF AddFile, AddEnd, RemoveFile, RemoveEnd
  <2> QED BY <2>1, <2>2 DEF CInv, CoreIncludesNothing
<1>2. CASE Fault
  BY <1>2, FaultClosed
     DEF AddFile, AddFileFails, AddEnd, SafeguardFails, RemoveFile, RemoveFileFails, RemoveEnd, Crash
<1> QED
  BY <1>1, <1>2
     DEF AddFile, AddFileFails, AddEnd, SafeguardFails, RemoveFile, RemoveFileFails, RemoveEnd, Crash,
         Tracks

\* What all three forms of bundle-remove share: the bundles that are installed
\* and do not go are left, and closed if each bundle that goes takes along those
\* that include it.
LEMMA RemovesClosed ==
  ASSUME TypeOK, CInv, Command, NEW command, NEW moved, NEW gone \in SUBSET Bundles, NEW kept,
         \A b \in Installed \ gone : includes[b] \intersect gone = {},
         Removes(command, moved, gone, kept)
  PROVE  CInv'
<1>0. CASE Fault
  BY <1>0, FaultClosed DEF Removes
<1> SUFFICES ASSUME UNCHANGED faults PROVE CInv'
  BY <1>0 DEF Removes, Forgets
<1>1. Upcoming = Installed
  BY DEF Command, Upcoming, Installed
<1>2. Upcoming' = Installed \ gone
  <2>1. \A b \in Bundles : Marker[b] \in todo' <=> b \in gone
    BY MarkerOfGone DEF Removes
  <2>2. disk' = disk
    BY DEF Removes
  <2>3. CASE gone = {}
    BY <2>2, <2>3 DEF Removes, Upcoming, Installed
  <2>4. CASE gone # {}
    BY <2>1, <2>2, <2>4 DEF Removes, Upcoming, Installed
  <2> QED BY <2>3, <2>4
<1>3. UNCHANGED <<manifests, faults>>
  BY DEF Removes
<1> QED BY <1>1, <1>2, <1>3 DEF CInv, CoreIncludesNothing

\* Whoever includes a bundle that is named and may go, or that goes because of
\* one with --force, goes too.
LEMMA MovedClosed ==
  ASSUME TypeOK, CoreIncludesNothing, NEW S \in SUBSET Bundles, NEW force \in BOOLEAN,
         NEW b \in Installed \ Moved(S, force)
  PROVE  includes[b] \intersect Moved(S, force) = {}
<1> SUFFICES ASSUME NEW i \in includes[b] \intersect Moved(S, force)
             PROVE  FALSE
  OBVIOUS
<1>1. /\ Subscribed \in SUBSET Bundles /\ Installed \subseteq Subscribed
      /\ b \in Subscribed /\ b \in Bundles
  BY BundlesAssumption DEF Subscribed, Installed
<1>2. b # Core
  BY DEF CoreIncludesNothing
<1>3. i \in Bundles
  BY MovedBundles
<1>4. PICK a \in Removable(S, force) :
        i = a \/ (force /\ i \in Blockers(a, Subscribed, S))
  BY DEF Moved
<1>5. a \in Bundles /\ a \in S
  BY DEF Removable
<1> DEFINE up == Reach({a}, [c \in Bundles |-> {e \in Subscribed : c \in includes[e]}])
<1>6. /\ Blockers(a, Subscribed, S) = up \ ({a} \union S)
      /\ a \in up
      /\ i \in up => b \in up
  BY <1>1, <1>3, <1>5, BlockersClosed
<1> HIDE DEF up
<1>7. b \in up /\ i \in up
  BY <1>4, <1>6
<1>8. b \notin Removable(S, force)
  BY MovedBundles
<1>9. CASE force
  BY <1>1, <1>2, <1>4, <1>6, <1>7, <1>8, <1>9 DEF Moved, Removable
<1>10. CASE ~force
  <2>1. Blockers(a, Subscribed, S) = {} /\ b \in S
    BY <1>4, <1>6, <1>7, <1>8, <1>10 DEF Removable
  <2>2. PICK d \in Blockers(b, Subscribed, S) : TRUE
    BY <1>2, <1>8, <1>10, <2>1 DEF Removable
  <2>3. d \in up /\ d \notin S
    \* What leads to b leads to a.
    <3> DEFINE next == [c \in Bundles |-> {e \in Subscribed : c \in includes[e]}]
    <3>1. d \in Reach({b}, next) /\ d \notin S
      BY <2>2 DEF Blockers
    <3>2. up \in SUBSET Bundles /\ \A c \in up : next[c] \subseteq up
      <4>1. \A c \in Bundles : next[c] \subseteq Bundles
        BY <1>1
      <4>2. up = Reach({a}, next)
        BY DEF up
      <4> HIDE DEF next
      <4> QED BY <1>5, <4>1, <4>2, ReachClosed
    <3> HIDE DEF next
    <3>3. Reach({b}, next) \subseteq up
      BY <1>7, <3>2, ReachWithin
    <3> QED BY <3>1, <3>3
  <2> QED BY <1>5, <1>6, <2>1, <2>3
<1> QED BY <1>9, <1>10

\* A dependency that --recursive takes along is included by nothing that stays.
LEMMA RecursedClosed ==
  ASSUME TypeOK, NEW moved \in SUBSET Bundles, NEW asked,
         NEW b \in Installed \ Recursed(moved, asked),
         includes[b] \intersect moved = {}
  PROVE  includes[b] \intersect Recursed(moved, asked) = {}
<1> DEFINE candidates == Dependencies(moved, Deletable(asked), FALSE)
           stay == (Subscribed \ moved) \ candidates
           required == Dependencies(stay, Installed, FALSE)
<1>1. Recursed(moved, asked) = moved \union (candidates \ required)
  BY DEF Recursed
<1>2. Deletable(asked) \subseteq Installed /\ Installed \subseteq Bundles
  BY DEF Deletable, Installed
<1>3. candidates \subseteq Installed
  BY <1>2, DependenciesProperties DEF TypeOK
<1>4. stay \subseteq Bundles
  BY BundlesAssumption DEF Subscribed, Installed
<1> HIDE DEF candidates, stay
<1>5. /\ stay \intersect Installed \subseteq required
      /\ \A c \in required : includes[c] \intersect Installed \subseteq required
  BY <1>2, <1>4, DependenciesProperties DEF TypeOK
<1> HIDE DEF required
<1>6. b \in required
  BY <1>1, <1>5 DEF stay, Subscribed
<1> QED BY <1>1, <1>3, <1>5, <1>6

LEMMA RemoveClosed ==
  ASSUME TypeOK, CInv, NEW S \in SUBSET Bundles, NEW force \in BOOLEAN,
         RemoveNamed(S, force) \/ RemoveRecursive(S, force) \/ RemoveFails(S, force)
  PROVE  CInv'
<1> DEFINE moved == Moved(S, force)
<1>1. moved \subseteq Bundles
  BY MovedBundles
<1>2. \A b \in Installed \ moved : includes[b] \intersect moved = {}
  BY MovedClosed DEF CInv
<1>3. CASE RemoveNamed(S, force)
  BY <1>1, <1>2, <1>3, RemovesClosed DEF RemoveNamed
<1>4. CASE RemoveRecursive(S, force)
  <2>0. PICK kept \in SUBSET moved :
          Removes(IF force THEN "remove" ELSE "recursive", moved,
                  Recursed(moved, (Safeguarded \ moved) \union kept), kept)
    BY <1>4 DEF RemoveRecursive
  <2> DEFINE gone == Recursed(moved, (Safeguarded \ moved) \union kept)
  <2>1. Command /\ Removes(IF force THEN "remove" ELSE "recursive", moved, gone, kept)
    BY <1>4, <2>0 DEF RemoveRecursive
  <2> HIDE DEF moved
  <2>2. gone \subseteq Bundles /\ moved \subseteq gone
    BY <1>1, RecursedUntracked DEF Recursed
  <2>3. \A b \in Installed \ gone : includes[b] \intersect gone = {}
    BY <1>1, <1>2, <2>2, RecursedClosed
  <2> HIDE DEF gone
  <2> QED BY <2>1, <2>2, <2>3, RemovesClosed
<1>5. CASE RemoveFails(S, force)
  BY <1>5, FaultClosed DEF RemoveFails
<1> QED BY <1>3, <1>4, <1>5

LEMMA OrphansClosed ==
  ASSUME TypeOK, CInv, RemoveOrphans
  PROVE  CInv'
<1> DEFINE S == Installed \ Wanted(Safeguarded)
<1>1. S \in SUBSET Bundles
  BY DEF Installed
<1>2. PICK kept : Command /\ Removes("orphans", Moved(S, FALSE), Moved(S, FALSE), kept)
  BY DEF RemoveOrphans
<1> HIDE DEF S
<1>3. Moved(S, FALSE) \subseteq Bundles
  BY <1>1, MovedBundles
<1>4. \A b \in Installed \ Moved(S, FALSE) : includes[b] \intersect Moved(S, FALSE) = {}
  BY <1>1, MovedClosed DEF CInv
<1> QED BY <1>2, <1>3, <1>4, RemovesClosed

LEMMA NextClosed == TypeOK /\ CInv /\ [Next]_vars => CInv'
<1> SUFFICES ASSUME TypeOK, CInv, [Next]_vars PROVE CInv'
  OBVIOUS
<1>1. Requests \subseteq SUBSET Bundles
  BY BundlesAssumption
<1>2. CASE UNCHANGED vars
  BY <1>2 DEF CInv, CoreIncludesNothing, Upcoming
<1> QED
  BY <1>1, <1>2, AddClosed, StepClosed, RemoveClosed, OrphansClosed DEF Next, Start, Rest

\* Whatever bundle-add and bundle-remove are asked to do, in any order, what an
\* installed bundle includes is installed, provided os-core includes nothing.
THEOREM DependenciesKept == Spec /\ CoreIncludesNothing => []IncludesInstalled
<1>1. Init /\ CoreIncludesNothing => TInv /\ CInv
  BY InitType, InitClosed
<1>2. (TInv /\ CInv) /\ [Next]_vars => (TInv /\ CInv)'
  BY NextType, NextClosed DEF TInv
<1>3. TInv /\ CInv => IncludesInstalled
  BY DEF CInv, Upcoming, IncludesInstalled, Undisturbed, Installed
<1> QED BY <1>1, <1>2, <1>3, PTL DEF Spec

----------------------------------------------------------------------------
(* What is on disk and what was removed.                                   *)

\* The files that are there once the command has come to its end.
Left == IF pc = "add" THEN disk \union todo ELSE IF pc = "remove" THEN disk \ todo ELSE disk

\* os-core stays, for required_by reaches it only from what it includes; the
\* other three say of the end of the command what the properties say when it
\* has ended.
EInv ==
  faults = FaultBudget =>
    /\ Core \in Upcoming
    /\ Left = UNION {Content[b] : b \in Upcoming}
    /\ done.command = "orphans" => Upcoming \ {Core} \subseteq Reach(tracked, Deps(FALSE))
    /\ done.command = "recursive" =>
         \A b \in Upcoming : Deps(FALSE)[b] \intersect (done.removed \ named) = {}

\* Only os-core is on disk at first.
LEMMA InitExact == Init => EInv
<1> SUFFICES ASSUME Init PROVE EInv
  OBVIOUS
<1>1. Upcoming = {Core}
  BY BundlesAssumption DEF Init, Upcoming
<1> QED BY <1>1 DEF Init, EInv, Left, Nothing

\* A step that uses up one fault leaves nothing to show.
LEMMA FaultExact ==
  ASSUME TypeOK, Fault
  PROVE  EInv'
BY BoundsAssumption DEF Fault, TypeOK, EInv

\* bundle-add adds the files of the bundles it installs.
LEMMA AddExact ==
  ASSUME TypeOK, EInv, NEW S \in SUBSET Bundles, NEW skip \in BOOLEAN,
         Add(S, skip) \/ AddNothing(S, skip) \/ AddFails(S)
  PROVE  EInv'
<1> DEFINE new == NewBundles(S, skip)
<1>0. CASE Fault
  BY <1>0, FaultExact
<1>1. CASE Add(S, skip) /\ UNCHANGED faults
  <2>1. new \subseteq Bundles
    BY DependenciesProperties DEF NewBundles, TypeOK
  <2>2. \A b \in Bundles : Marker[b] \in UNION {Content[a] : a \in new} <=> b \in new
    BY <2>1, BundlesAssumption
  <2>3. Upcoming = Installed /\ Left = disk
    BY <1>1 DEF Add, Command, Upcoming, Installed, Left
  <2>4. Upcoming' = Installed \union new
    BY <1>1, <2>1, <2>2 DEF Add, Upcoming, Installed
  <2>5. Left' = disk \union UNION {Content[b] : b \in new}
    BY <1>1 DEF Add, Left
  <2>6. faults' = faults /\ done' = Nothing
    BY <1>1 DEF Add
  <2> HIDE DEF new
  <2> QED BY <2>3, <2>4, <2>5, <2>6 DEF EInv, Nothing
<1>2. CASE AddNothing(S, skip) /\ UNCHANGED faults
  <2>1. Upcoming' = Upcoming /\ Left' = Left
    BY <1>2 DEF AddNothing, Command, Upcoming, Left
  <2> QED BY <1>2, <2>1 DEF EInv, AddNothing, Nothing
<1> QED BY <1>0, <1>1, <1>2 DEF Add, AddNothing, AddFails, Tracks

\* The steps of a command do what was decided at its start.
LEMMA StepExact ==
  ASSUME TypeOK, EInv,
         \/ AddFile \/ AddFileFails \/ AddEnd \/ SafeguardFails
         \/ RemoveFile \/ RemoveFileFails \/ RemoveEnd \/ Crash
  PROVE  EInv'
<1>1. CASE AddFile
  <2>1. Upcoming' = Upcoming /\ Left' = Left
    BY <1>1 DEF AddFile, First, Upcoming, Left
  <2> QED BY <1>1, <2>1 DEF AddFile, EInv, Deps, Reach
<1>2. CASE AddEnd /\ UNCHANGED faults
  <2>1. Upcoming' = Upcoming /\ Left' = Left
    BY <1>2 DEF AddEnd, Upcoming, Left
  <2> QED BY <1>2, <2>1 DEF AddEnd, EInv, Nothing
<1>3. CASE RemoveFile
  <2>1. Upcoming' = Upcoming /\ Left' = Left
    BY <1>3 DEF RemoveFile, First, Upcoming, Left
  <2> QED BY <1>3, <2>1 DEF RemoveFile, EInv, Deps, Reach
<1>4. CASE RemoveEnd
  <2>1. Upcoming' = Upcoming /\ Left' = Left
    BY <1>4 DEF RemoveEnd, Upcoming, Left
  <2> QED BY <1>4, <2>1 DEF RemoveEnd, EInv, Deps, Reach
<1>5. CASE Fault
  BY <1>5, FaultExact
<1> QED
  BY <1>1, <1>2, <1>3, <1>4, <1>5
     DEF AddEnd, AddFileFails, SafeguardFails, RemoveFileFails, Crash, Tracks

\* What all three forms of bundle-remove share: of the files of the bundles that
\* go, those stay that a bundle which stays has.
LEMMA RemovesExact ==
  ASSUME TypeOK, EInv, Command, NEW command, NEW moved,
         NEW gone \in SUBSET (Bundles \ {Core}), NEW kept,
         Removes(command, moved, gone, kept),
         command = "orphans" =>
           (Installed \ gone) \ {Core} \subseteq Reach(Safeguarded \ moved, Deps(FALSE)),
         command = "recursive" =>
           \A b \in Installed \ gone : Deps(FALSE)[b] \intersect (gone \ moved) = {}
  PROVE  EInv'
<1> SUFFICES ASSUME faults' = FaultBudget PROVE EInv'
  BY DEF EInv
<1>1. /\ faults = FaultBudget /\ kept = {}
      /\ disk' = disk /\ Deps(FALSE)' = Deps(FALSE)
  BY BoundsAssumption DEF Removes, Forgets, Fault, Deps, TypeOK
<1>2. Upcoming = Installed /\ Left = disk
  BY DEF Command, Upcoming, Installed, Left
<1>3. Core \in Installed /\ disk = UNION {Content[b] : b \in Installed}
  BY <1>1, <1>2 DEF EInv
<1>4. Upcoming' = Installed \ gone
  <2>1. \A b \in Bundles : Marker[b] \in todo' <=> b \in gone
    BY MarkerOfGone DEF Removes
  <2>2. CASE gone = {}
    BY <1>1, <2>2 DEF Removes, Upcoming, Installed
  <2>3. CASE gone # {}
    BY <1>1, <2>1, <2>3 DEF Removes, Upcoming, Installed
  <2> QED BY <2>2, <2>3
<1>5. Left' = disk \ FilesOf(gone)
  <2>1. CASE gone = {}
    BY <1>1, <2>1 DEF Removes, Left, FilesOf
  <2>2. CASE gone # {}
    BY <1>1, <2>2 DEF Removes, Left
  <2> QED BY <2>1, <2>2
<1>6. disk \ FilesOf(gone) = UNION {Content[b] : b \in Installed \ gone}
  <2>1. Subscribed = Installed
    BY <1>3 DEF Subscribed
  <2> QED BY <1>3, <2>1 DEF FilesOf
<1>7. tracked' = Safeguarded \ moved /\ named' = moved
      /\ done' = [command |-> command, removed |-> gone]
  BY <1>1 DEF Removes, Forgets
<1>8. Reach(tracked, Deps(FALSE))' = Reach(Safeguarded \ moved, Deps(FALSE))
  BY <1>1, <1>7 DEF Reach
<1> QED BY <1>1, <1>3, <1>4, <1>5, <1>6, <1>7, <1>8 DEF EInv

\* No command removes os-core: what os-core does not include, it does not block.
LEMMA CoreNotMoved ==
  ASSUME TypeOK, CoreIncludesNothing, NEW S \in SUBSET Bundles, NEW force \in BOOLEAN
  PROVE  Core \notin Moved(S, force)
<1>1. ASSUME NEW b \in Removable(S, force)
      PROVE  Core \notin Blockers(b, Subscribed, S)
  <2> DEFINE next == [a \in Bundles |-> {d \in Subscribed : a \in includes[d]}]
             others == Bundles \ {Core}
  <2>1. b \in others
    BY <1>1 DEF Removable
  <2>2. \A a \in others : next[a] \subseteq others
    BY BundlesAssumption DEF Subscribed, Installed, CoreIncludesNothing
  <2>3. Blockers(b, Subscribed, S) = Reach({b}, next) \ ({b} \union S)
    BY DEF Blockers
  <2>4. others \in SUBSET Bundles /\ {b} \subseteq others
    BY <2>1
  <2> HIDE DEF next, others
  <2>5. Reach({b}, next) \subseteq others
    BY <2>2, <2>4, ReachWithin
  <2> QED BY <2>3, <2>5 DEF others
<1>2. Core \notin Removable(S, force)
  BY DEF Removable
<1> QED BY <1>1, <1>2 DEF Moved

\* What bundle-remove --recursive removes beyond the named bundles is listed by
\* nothing that stays.
LEMMA RecursedSpared ==
  ASSUME TypeOK, NEW moved \in SUBSET Bundles, NEW asked,
         NEW b \in Installed \ Recursed(moved, asked)
  PROVE  Deps(FALSE)[b] \intersect (Recursed(moved, asked) \ moved) = {}
<1> DEFINE candidates == Dependencies(moved, Deletable(asked), FALSE)
           stay == (Subscribed \ moved) \ candidates
           required == Dependencies(stay, Installed, FALSE)
<1>1. Recursed(moved, asked) = moved \union (candidates \ required)
  BY DEF Recursed
<1>2. Deletable(asked) \subseteq Installed /\ Installed \subseteq Bundles
  BY DEF Deletable, Installed
<1>3. candidates \subseteq Installed
  BY <1>2, DependenciesProperties DEF TypeOK
<1>4. stay \subseteq Bundles
  BY BundlesAssumption DEF Subscribed, Installed
<1> HIDE DEF candidates, stay
<1>5. /\ stay \intersect Installed \subseteq required
      /\ \A c \in required : Deps(FALSE)[c] \intersect Installed \subseteq required
  BY <1>2, <1>4, DependenciesProperties DEF TypeOK
<1> HIDE DEF required
<1>6. b \in required
  BY <1>1, <1>5 DEF stay, Subscribed
<1> QED BY <1>1, <1>3, <1>5, <1>6

LEMMA RemoveExact ==
  ASSUME TypeOK, CInv, EInv, NEW S \in SUBSET Bundles, NEW force \in BOOLEAN,
         RemoveNamed(S, force) \/ RemoveRecursive(S, force) \/ RemoveFails(S, force)
  PROVE  EInv'
<1> DEFINE moved == Moved(S, force)
<1>1. moved \subseteq Bundles \ {Core}
  BY MovedBundles, CoreNotMoved DEF CInv
<1>2. CASE RemoveNamed(S, force)
  BY <1>1, <1>2, RemovesExact DEF RemoveNamed
<1>3. CASE RemoveRecursive(S, force)
  <2> DEFINE command == IF force THEN "remove" ELSE "recursive"
  <2>0. PICK kept \in SUBSET moved :
          Removes(command, moved, Recursed(moved, (Safeguarded \ moved) \union kept), kept)
    BY <1>3 DEF RemoveRecursive
  <2> DEFINE gone == Recursed(moved, (Safeguarded \ moved) \union kept)
  <2>1. Command /\ Removes(command, moved, gone, kept)
    BY <1>3, <2>0 DEF RemoveRecursive
  <2> HIDE DEF moved
  <2>2. gone \subseteq Bundles \ {Core}
    BY <1>1, RecursedUntracked DEF Deletable
  <2>3. \A b \in Installed \ gone : Deps(FALSE)[b] \intersect (gone \ moved) = {}
    BY <1>1, RecursedSpared
  <2>4. command # "orphans"
    OBVIOUS
  <2> HIDE DEF gone, command
  <2> QED BY <2>1, <2>2, <2>3, <2>4, RemovesExact
<1>4. CASE RemoveFails(S, force)
  BY <1>4, FaultExact DEF RemoveFails
<1> QED BY <1>2, <1>3, <1>4

\* bundle-remove --orphans removes every orphan: whoever requires one is one.
LEMMA OrphansMoved ==
  ASSUME TypeOK, CoreIncludesNothing
  PROVE  LET S == Installed \ Wanted(Safeguarded) IN Moved(S, FALSE) = S \ {Core}
<1> DEFINE wanted == Wanted(Safeguarded)
           S == Installed \ wanted
<1>1. \A a \in Bundles : Deps(FALSE)[a] \subseteq Bundles /\ includes[a] \subseteq Deps(FALSE)[a]
  BY DEF TypeOK, Deps
<1>2. \A a \in wanted : includes[a] \subseteq wanted
  <2>1. /\ \A a \in wanted : Deps(FALSE)[a] \subseteq wanted
        /\ wanted \subseteq Bundles
    BY <1>1, SafeguardedInstalled, ReachClosed DEF Wanted
  <2> QED BY <1>1, <2>1
<1>3. Installed \subseteq Bundles
  BY DEF Installed
<1> HIDE DEF wanted
<1>4. ASSUME NEW b \in S \ {Core}
      PROVE  Blockers(b, Subscribed, S) = {}
  <2> DEFINE next == [a \in Bundles |-> {d \in Subscribed : a \in includes[d]}]
             orphans == S \ {Core}
  <2>1. \A a \in orphans : next[a] \subseteq orphans
    <3> SUFFICES ASSUME NEW a \in orphans, NEW d \in Subscribed, a \in includes[d]
                 PROVE  d \in orphans
      BY <1>3
    <3> QED BY <1>2 DEF Subscribed, CoreIncludesNothing
  <2>2. Blockers(b, Subscribed, S) = Reach({b}, next) \ ({b} \union S)
    BY DEF Blockers
  <2>3. orphans \in SUBSET Bundles /\ {b} \subseteq orphans /\ orphans \subseteq S
    BY <1>3
  <2> HIDE DEF next, orphans, S
  <2>4. Reach({b}, next) \subseteq orphans
    BY <2>1, <2>3, ReachWithin
  <2> QED BY <2>2, <2>3, <2>4
<1>5. Removable(S, FALSE) = S \ {Core}
  BY <1>4 DEF Removable
<1> QED BY <1>5 DEF Moved, wanted

LEMMA OrphansExact ==
  ASSUME TypeOK, CInv, EInv, RemoveOrphans
  PROVE  EInv'
<1> DEFINE S == Installed \ Wanted(Safeguarded)
           moved == S \ {Core}
<1>1. PICK kept : Command /\ Removes("orphans", moved, moved, kept)
  BY OrphansMoved DEF RemoveOrphans, CInv
<1>2. moved \subseteq Bundles \ {Core}
  BY DEF Installed
<1>3. Safeguarded \ moved = Safeguarded
  <2>1. \A a \in Bundles : Deps(FALSE)[a] \subseteq Bundles
    BY DEF TypeOK, Deps
  <2>2. Safeguarded \subseteq Wanted(Safeguarded)
    BY <2>1, SafeguardedInstalled, ReachClosed DEF Wanted
  <2> QED BY <2>2
<1>4. (Installed \ moved) \ {Core} \subseteq Reach(Safeguarded \ moved, Deps(FALSE))
  BY <1>3 DEF Wanted
<1> HIDE DEF moved
<1> QED BY <1>1, <1>2, <1>4, RemovesExact

LEMMA NextExact == TypeOK /\ CInv /\ EInv /\ [Next]_vars => EInv'
<1> SUFFICES ASSUME TypeOK, CInv, EInv, [Next]_vars PROVE EInv'
  OBVIOUS
<1>1. Requests \subseteq SUBSET Bundles
  BY BundlesAssumption
<1>2. CASE UNCHANGED vars
  <2>1. Upcoming' = Upcoming /\ Left' = Left
    BY <1>2 DEF Upcoming, Left
  <2> QED BY <1>2, <2>1 DEF EInv, Deps, Reach
<1>3. CASE Start
  <2>1. ASSUME NEW S \in Requests, NEW skip \in BOOLEAN,
               Add(S, skip) \/ AddNothing(S, skip) \/ AddFails(S)
        PROVE  EInv'
    BY <1>1, <2>1, AddExact
  <2>2. ASSUME NEW S \in Requests, NEW force \in BOOLEAN,
               RemoveNamed(S, force) \/ RemoveRecursive(S, force) \/ RemoveFails(S, force)
        PROVE  EInv'
    BY <1>1, <2>2, RemoveExact
  <2> QED BY <1>3, <2>1, <2>2 DEF Start
<1>4. CASE RemoveOrphans
  BY <1>4, OrphansExact
<1>5. CASE \/ AddFile \/ AddFileFails \/ AddEnd \/ SafeguardFails
           \/ RemoveFile \/ RemoveFileFails \/ RemoveEnd \/ Crash
  BY <1>5, StepExact
<1> QED
  BY <1>2, <1>3, <1>4, <1>5 DEF Next, Rest

\* The invariant of the last three theorems, for an os-core that includes nothing.
LEMMA Exactness == Spec /\ CoreIncludesNothing => []EInv
<1>1. Init /\ CoreIncludesNothing => TInv /\ CInv /\ EInv
  BY InitType, InitClosed, InitExact
<1>2. (TInv /\ CInv /\ EInv) /\ [Next]_vars => (TInv /\ CInv /\ EInv)'
  BY NextType, NextClosed, NextExact DEF TInv
<1> QED BY <1>1, <1>2, PTL DEF Spec

\* Between commands none of which failed, the files on disk are exactly those of
\* the installed bundles, whatever files the bundles share.
THEOREM FilesAreExact == Spec /\ CoreIncludesNothing => []FilesExact
<1>1. EInv => FilesExact
  BY DEF EInv, FilesExact, Undisturbed, Upcoming, Installed, Left
<1> QED BY <1>1, Exactness, PTL

\* bundle-remove --orphans leaves os-core and what the tracked bundles pull in.
THEOREM OrphansRemoved == Spec /\ CoreIncludesNothing => []OrphansGone
<1>1. EInv => OrphansGone
  BY DEF EInv, OrphansGone, Undisturbed, Upcoming, Installed
<1> QED BY <1>1, Exactness, PTL

\* bundle-remove --recursive takes nothing along that an installed bundle still
\* includes or lists as optional.
THEOREM RecursionSpares == Spec /\ CoreIncludesNothing => []RecursiveSpares
<1>1. EInv => RecursiveSpares
  BY DEF EInv, RecursiveSpares, Undisturbed, Upcoming, Installed
<1> QED BY <1>1, Exactness, PTL

----------------------------------------------------------------------------
(* Tracked bundles are removed only on request.                            *)

\* What is tracked pulls in itself, so that no orphan is tracked.
LEMMA OrphansUntracked ==
  ASSUME TypeOK, RemoveOrphans
  PROVE  tracked \subseteq tracked'
<1> DEFINE S == Installed \ Wanted(Safeguarded)
<1>1. \A a \in Bundles : Deps(FALSE)[a] \subseteq Bundles
  BY DEF TypeOK, Deps
<1>2. Safeguarded \subseteq Bundles
  BY SafeguardedInstalled
<1>3. Safeguarded \subseteq Wanted(Safeguarded)
  BY <1>1, <1>2, ReachClosed DEF Wanted
<1>4. Moved(S, FALSE) \subseteq S
  BY DEF Moved, Removable
<1>5. Safeguarded \ Moved(S, FALSE) \subseteq tracked'
  BY DEF RemoveOrphans, Removes, Forgets
<1>6. tracked \subseteq Safeguarded
  BY DEF Safeguarded
<1> QED BY <1>3, <1>4, <1>5, <1>6

\* The marker of a tracked bundle stays through every step, unless its mark is one
\* that could not be removed, and removing the orphans forgets no bundle.
THEOREM TrackedRemain == Spec => TrackedOnlyOnRequest
<1>1. Init => TInv
  BY InitType
<1>2. TInv /\ [Next]_vars => TInv'
  BY NextType
<1> DEFINE A == /\ \A b \in tracked \ stuck : Marker[b] \in disk'
                /\ done'.command = "orphans" => tracked \subseteq tracked'
<1>3. TInv /\ [Next]_vars => [A]_vars
  <2> SUFFICES ASSUME TInv, Next PROVE A
    OBVIOUS
  <2>1. \A b \in tracked \ stuck : Marker[b] \in disk
    BY DEF TInv, TypeOK, Installed
  <2> USE DEF Nothing
  <2>2. ASSUME NEW S \in Requests, NEW skip \in BOOLEAN,
               Add(S, skip) \/ AddNothing(S, skip) \/ AddFails(S)
        PROVE  A
    BY <2>1, <2>2 DEF Add, AddNothing, AddFails
  <2>3. ASSUME NEW S \in Requests, NEW force \in BOOLEAN,
               RemoveNamed(S, force) \/ RemoveRecursive(S, force) \/ RemoveFails(S, force)
        PROVE  A
    <3>1. CASE RemoveNamed(S, force)
      BY <2>1, <3>1 DEF RemoveNamed, Removes
    <3>2. CASE RemoveRecursive(S, force)
      BY <2>1, <3>2 DEF RemoveRecursive, Removes
    <3>3. CASE RemoveFails(S, force)
      BY <2>1, <3>3 DEF RemoveFails
    <3> QED BY <2>3, <3>1, <3>2, <3>3
  <2>4. CASE RemoveOrphans
    BY <2>1, <2>4, OrphansUntracked DEF RemoveOrphans, Removes, TInv
  <2>5. CASE AddFile \/ AddFileFails \/ AddEnd \/ SafeguardFails \/ RemoveFileFails \/ RemoveEnd \/ Crash
    BY <2>1, <2>5 DEF AddFile, AddFileFails, AddEnd, SafeguardFails, Tracks, RemoveFileFails, RemoveEnd, Crash
  <2>6. CASE RemoveFile
    BY <2>1, <2>6 DEF RemoveFile, First, TInv, TrackedSafe
  <2>7. CASE UNCHANGED vars
    BY <2>1, <2>7
  <2> QED
    BY <2>2, <2>3, <2>4, <2>5, <2>6, <2>7 DEF Next, Start, Rest
<1> QED BY <1>1, <1>2, <1>3, PTL DEF Spec, TrackedOnlyOnRequest
=============================================================================

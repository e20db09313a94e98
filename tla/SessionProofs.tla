---------------------------- MODULE SessionProofs ----------------------------
(***************************************************************************)
(* Mutual exclusion of swupd commands, what a command does to the work of  *)
(* another one, and what clean may take, for any number of processes,      *)
(* state directories, bundles, failures and kills.                         *)
(***************************************************************************)
EXTENDS Session, SequenceTheorems, TLAPS

\* The control points before p_lockfile and after the end, and those between
\* p_lockfile and v_lockfile.
Outside == {"start", "time", "check", "remove", "make", "safeguard", "replace", "copy",
            "lock", "done"}
Within == {"signature", "work", "apply", "delete", "deinit"}

\* What makes exclusion inductive: a process that is past p_lockfile is the one
\* the kernel gave the lock to.
HolderIsLocked ==
  /\ pc \in [Procs -> Outside \union Within]
  /\ \A p \in Procs : Locked(p) => lockedBy = p

\* A move of p that leaves the lock alone keeps the invariant if it does not enter
\* the locked part.
LEMMA MoveKeepsHolder ==
  ASSUME HolderIsLocked, NEW p \in Procs, lockedBy' = lockedBy,
         NEW l \in Outside \union Within, pc' = [pc EXCEPT ![p] = l],
         l \in Within => pc[p] \in Within
  PROVE  HolderIsLocked'
<1>1. pc' \in [Procs -> Outside \union Within]
  BY DEF HolderIsLocked, Outside, Within
<1>2. ASSUME NEW q \in Procs, pc'[q] \in Within PROVE lockedBy' = q
  <2>1. pc[q] \in Within
    BY <1>2 DEF HolderIsLocked
  <2> QED BY <2>1 DEF HolderIsLocked, Locked, Within
<1> QED BY <1>1, <1>2 DEF HolderIsLocked, Locked, Within

\* A move out of the locked part may give the lock back.
LEMMA ReleaseKeepsHolder ==
  ASSUME HolderIsLocked, NEW p \in Procs, pc[p] \in Within, lockedBy' = None,
         pc' = [pc EXCEPT ![p] = "done"]
  PROVE  HolderIsLocked'
<1>1. pc' \in [Procs -> Outside \union Within]
  BY DEF HolderIsLocked, Outside
<1>2. ASSUME NEW q \in Procs, pc'[q] \in Within PROVE FALSE
  <2>1. q # p /\ pc[q] \in Within
    BY <1>2 DEF HolderIsLocked, Within
  <2>2. lockedBy = q /\ lockedBy = p
    BY <2>1 DEF HolderIsLocked, Locked, Within
  <2> QED BY <2>1, <2>2
<1> QED BY <1>1, <1>2 DEF HolderIsLocked, Locked, Within

\* No step of p enters the locked part without the lock.
LEMMA StepKeepsHolder ==
  ASSUME HolderIsLocked, NEW p \in Procs, Step(p)
  PROVE  HolderIsLocked'
<1>1. CASE GlobalsInit(p)
  <2>1. lockedBy' = lockedBy
    BY <1>1 DEF GlobalsInit
  <2>2. \/ pc' = [pc EXCEPT ![p] = "time"]
        \/ pc' = [pc EXCEPT ![p] = "done"]
    BY <1>1 DEF GlobalsInit, Go, End
  <2> QED BY <2>1, <2>2, MoveKeepsHolder DEF Outside, Within
<1>2. CASE AdjustTime(p)
  <2>1. lockedBy' = lockedBy
    BY <1>2 DEF AdjustTime
  <2>2. \/ pc' = [pc EXCEPT ![p] = "check"]
        \/ pc' = [pc EXCEPT ![p] = "done"]
    BY <1>2 DEF AdjustTime, Go, End
  <2> QED BY <2>1, <2>2, MoveKeepsHolder DEF Outside, Within
<1>3. CASE CheckDir(p)
  <2>1. lockedBy' = lockedBy
    BY <1>3 DEF CheckDir
  <2>2. \/ pc' = [pc EXCEPT ![p] = "check"]
        \/ pc' = [pc EXCEPT ![p] = "safeguard"]
        \/ pc' = [pc EXCEPT ![p] = "remove"]
    BY <1>3 DEF CheckDir, Go, End, NextDir
  <2> QED BY <2>1, <2>2, MoveKeepsHolder DEF Outside, Within
<1>4. CASE RemoveDir(p)
  <2>1. lockedBy' = lockedBy
    BY <1>4 DEF RemoveDir
  <2>2. \/ pc' = [pc EXCEPT ![p] = "make"]
        \/ pc' = [pc EXCEPT ![p] = "done"]
    BY <1>4 DEF RemoveDir, Go, End
  <2> QED BY <2>1, <2>2, MoveKeepsHolder DEF Outside, Within
<1>5. CASE MakeDir(p)
  <2>1. lockedBy' = lockedBy
    BY <1>5 DEF MakeDir
  <2>2. \/ pc' = [pc EXCEPT ![p] = "check"]
        \/ pc' = [pc EXCEPT ![p] = "safeguard"]
        \/ pc' = [pc EXCEPT ![p] = "done"]
    BY <1>5 DEF MakeDir, Go, End, NextDir
  <2> QED BY <2>1, <2>2, MoveKeepsHolder DEF Outside, Within
<1>6. CASE Safeguard(p)
  <2>1. lockedBy' = lockedBy
    BY <1>6 DEF Safeguard
  <2>2. \/ pc' = [pc EXCEPT ![p] = "replace"]
        \/ pc' = [pc EXCEPT ![p] = "lock"]
    BY <1>6 DEF Safeguard, Go, End
  <2> QED BY <2>1, <2>2, MoveKeepsHolder DEF Outside, Within
<1>7. CASE ReplaceTracking(p)
  <2>1. lockedBy' = lockedBy
    BY <1>7 DEF ReplaceTracking
  <2>2. pc' = [pc EXCEPT ![p] = "copy"]
    BY <1>7 DEF ReplaceTracking, Go, End
  <2> QED BY <2>1, <2>2, MoveKeepsHolder DEF Outside, Within
<1>8. CASE Stage(p)
  <2>1. lockedBy' = lockedBy /\ pc[p] \in Within
    BY <1>8 DEF Stage, Within
  <2>2. \/ pc' = [pc EXCEPT ![p] = "apply"]
        \/ pc' = [pc EXCEPT ![p] = "deinit"]
    BY <1>8 DEF Stage, Go, End, Leave
  <2> QED BY <2>1, <2>2, MoveKeepsHolder DEF Outside, Within
<1>9. CASE Apply(p)
  <2>1. lockedBy' = lockedBy /\ pc[p] \in Within
    BY <1>9 DEF Apply, Within
  <2>2. pc' = [pc EXCEPT ![p] = "deinit"]
    BY <1>9 DEF Apply, Go, End, Leave
  <2> QED BY <2>1, <2>2, MoveKeepsHolder DEF Outside, Within
<1>10. CASE Untrack(p)
  <2>1. lockedBy' = lockedBy /\ pc[p] \in Within
    BY <1>10 DEF Untrack, Within
  <2>2. pc' = [pc EXCEPT ![p] = "delete"]
    BY <1>10 DEF Untrack, Go, End
  <2> QED BY <2>1, <2>2, MoveKeepsHolder DEF Outside, Within
<1>11. CASE Delete(p)
  <2>1. lockedBy' = lockedBy /\ pc[p] \in Within
    BY <1>11 DEF Delete, Within
  <2>2. pc' = [pc EXCEPT ![p] = "deinit"]
    BY <1>11 DEF Delete, Go, End, Leave
  <2> QED BY <2>1, <2>2, MoveKeepsHolder DEF Outside, Within
<1>12. CASE CopyMark(p)
  <2>1. lockedBy' = lockedBy
    BY <1>12 DEF CopyMark
  <2>2. pc' = [pc EXCEPT ![p] = "lock"] \/ pc' = pc
    BY <1>12 DEF CopyMark, Go
  <2> QED BY <2>1, <2>2, MoveKeepsHolder DEF Outside, HolderIsLocked, Locked
<1>13. CASE LockFile(p)
  <2>1. CASE lockedBy = None
    <3>1. lockedBy' = p /\ pc' = [pc EXCEPT ![p] = "signature"]
      BY <1>13, <2>1 DEF LockFile, Go
    <3>2. \A q \in Procs : pc[q] \notin Within
      BY <2>1, SessionAssumption DEF HolderIsLocked, Locked, Within
    <3>3. pc' \in [Procs -> Outside \union Within]
      BY <3>1 DEF HolderIsLocked, Within
    <3>4. ASSUME NEW q \in Procs, pc'[q] \in Within PROVE lockedBy' = q
      <4>1. q = p
        BY <3>1, <3>2, <3>4 DEF HolderIsLocked
      <4> QED BY <3>1, <4>1
    <3> QED BY <3>3, <3>4 DEF HolderIsLocked, Locked, Within
  <2>2. CASE lockedBy # None
    <3>1. lockedBy' = lockedBy /\ pc' = [pc EXCEPT ![p] = "done"]
      BY <1>13, <2>2 DEF LockFile, End, Go
    <3> QED BY <3>1, MoveKeepsHolder DEF Outside, Within
  <2> QED BY <2>1, <2>2
<1>14. CASE InitSignature(p)
  <2>1. pc[p] \in Within
    BY <1>14 DEF InitSignature, Within
  <2>2. \/ lockedBy' = lockedBy /\ pc' = [pc EXCEPT ![p] = "work"]
        \/ lockedBy' = None /\ pc' = [pc EXCEPT ![p] = "done"]
    BY <1>14 DEF InitSignature, Go, End
  <2> QED BY <2>1, <2>2, MoveKeepsHolder, ReleaseKeepsHolder DEF Within
<1>15. CASE CleanFiles(p)
  <2>1. lockedBy' = lockedBy /\ pc[p] \in Within
    BY <1>15 DEF CleanFiles, Cleaning, Within
  <2>2. pc' = [pc EXCEPT ![p] = "deinit"] \/ pc' = pc
    BY <1>15 DEF CleanFiles, NextClean, Leave, Go
  <2> QED BY <2>1, <2>2, MoveKeepsHolder DEF Within, HolderIsLocked, Locked
<1>16. CASE CleanDir(p)
  <2>1. lockedBy' = lockedBy /\ pc[p] \in Within
    BY <1>16 DEF CleanDir, Cleaning, Within
  <2>2. pc' = [pc EXCEPT ![p] = "deinit"] \/ pc' = pc
    BY <1>16 DEF CleanDir, NextClean, Leave, Go
  <2> QED BY <2>1, <2>2, MoveKeepsHolder DEF Within, HolderIsLocked, Locked
<1>17. CASE Deinit(p)
  <2>1. pc[p] \in Within /\ lockedBy' = None /\ pc' = [pc EXCEPT ![p] = "done"]
    BY <1>17 DEF Deinit, Go, Within
  <2> QED BY <2>1, ReleaseKeepsHolder
<1> QED
  BY <1>1, <1>2, <1>3, <1>4, <1>5, <1>6, <1>7, <1>8, <1>9, <1>10, <1>11, <1>12, <1>13, <1>14, <1>15, <1>16, <1>17 DEF Step

LEMMA CrashKeepsHolder ==
  ASSUME HolderIsLocked, NEW p \in Procs, Crash(p)
  PROVE  HolderIsLocked'
<1>1. pc' = [pc EXCEPT ![p] = "done"] /\ pc' \in [Procs -> Outside \union Within]
  BY DEF Crash, End, Go, HolderIsLocked, Outside
<1>2. ASSUME NEW q \in Procs, Locked(q)' PROVE lockedBy' = q
  <2>1. q # p /\ Locked(q)
    BY <1>1, <1>2 DEF Locked, HolderIsLocked
  <2> QED BY <2>1 DEF Crash, HolderIsLocked
<1> QED BY <1>1, <1>2 DEF HolderIsLocked

\* Every reachable state has the invariant.
LEMMA HolderInvariant == Spec => []HolderIsLocked
<1>1. Init => HolderIsLocked
  BY DEF Init, HolderIsLocked, Locked, Outside
<1>2. HolderIsLocked /\ [Next]_vars => HolderIsLocked'
  <2> SUFFICES ASSUME HolderIsLocked, [Next]_vars PROVE HolderIsLocked'
    OBVIOUS
  <2>1. CASE UNCHANGED vars
    BY <2>1 DEF vars, procVars, HolderIsLocked, Locked
  <2>2. CASE Next
    BY <2>2, StepKeepsHolder, CrashKeepsHolder DEF Next
  <2> QED BY <2>1, <2>2
<1> QED BY <1>1, <1>2, PTL DEF Spec

\* However many commands are started, fail or are killed, at most one of them is
\* between p_lockfile and v_lockfile.
THEOREM Exclusion == Spec => []OneHolder
<1>1. HolderIsLocked => OneHolder
  BY DEF HolderIsLocked, OneHolder
<1> QED BY <1>1, HolderInvariant, PTL

----------------------------------------------------------------------------
(* Type correctness.                                                       *)

USE DEF procVars, diskVars, vars

Modes == {"absent", "right", "wrong"}

\* The directories a path takes, and those a removal takes, keep their kind.
LEMMA DirTypes ==
  ASSUME TypeOK
  PROVE  /\ \A p, d : MadeMode(p, d) \in {"right", "wrong"}
         /\ \A p, d : WithPath(p, d) \in [Dirs -> Modes]
         /\ \A d : RmRecursive(d) => /\ dir' \in [Dirs -> Modes] /\ items' \subseteq Items
                                     /\ staged' \subseteq Procs /\ tracked' \subseteq Bundles
<1>1. \A p, d : MadeMode(p, d) \in {"right", "wrong"}
  BY DEF MadeMode
<1>2. \A p, d : WithPath(p, d) \in [Dirs -> Modes]
  BY <1>1 DEF TypeOK, WithPath, Modes
<1>3. ASSUME NEW d, RmRecursive(d)
      PROVE  /\ dir' \in [Dirs -> Modes] /\ items' \subseteq Items
             /\ staged' \subseteq Procs /\ tracked' \subseteq Bundles
  BY <1>3 DEF TypeOK, RmRecursive, Modes
<1> QED BY <1>1, <1>2, <1>3

\* A call of clean is followed by the next one, or ends the command.
LEMMA CleanMoves ==
  ASSUME NEW p \in Procs, CleanFiles(p) \/ CleanDir(p)
  PROVE  /\ Cleaning(p)
         /\ \/ NextClean(p)
            \/ (\E c : Leave(p, c)) /\ UNCHANGED at
<1>1. CASE CleanFiles(p)
  BY <1>1 DEF CleanFiles
<1>2. CASE CleanDir(p)
  BY <1>2 DEF CleanDir
<1> QED BY <1>1, <1>2

\* Every step of a command keeps the types.
LEMMA StepType ==
  ASSUME TypeOK, env \in Environments, NEW p \in Procs, Step(p)
  PROVE  TypeOK'
<1> USE DEF Go, End, Leave, Modes
<1>1. CASE GlobalsInit(p)
  BY <1>1 DEF TypeOK, GlobalsInit
<1>2. CASE AdjustTime(p)
  BY <1>2 DEF TypeOK, AdjustTime
<1>3. CASE CheckDir(p)
  <2>1. dir' \in [Dirs -> Modes]
    BY <1>3, DirTypes DEF TypeOK, CheckDir
  <2> QED BY <1>3, <2>1 DEF TypeOK, CheckDir, NextDir
<1>4. CASE RemoveDir(p)
  <2>1. /\ dir' \in [Dirs -> Modes] /\ items' \subseteq Items
        /\ staged' \subseteq Procs /\ tracked' \subseteq Bundles
    BY <1>4, DirTypes DEF TypeOK, RemoveDir
  <2>2. pc' = [pc EXCEPT ![p] = "make"] \/ pc' = [pc EXCEPT ![p] = "done"]
    BY <1>4 DEF RemoveDir
  <2>3. faults' \in 0..FaultBudget
    BY <1>4, SessionAssumption DEF TypeOK, RemoveDir
  <2> QED BY <1>4, <2>1, <2>2, <2>3 DEF TypeOK, RemoveDir
<1>5. CASE MakeDir(p)
  <2>1. dir' \in [Dirs -> Modes]
    BY <1>5, DirTypes DEF TypeOK, MakeDir
  <2> QED BY <1>5, <2>1 DEF TypeOK, MakeDir, NextDir
<1>6. CASE Safeguard(p)
  BY <1>6 DEF TypeOK, Safeguard
<1>7. CASE ReplaceTracking(p)
  BY <1>7 DEF TypeOK, ReplaceTracking
<1>8. CASE CopyMark(p)
  BY <1>8 DEF TypeOK, CopyMark
<1>9. CASE LockFile(p)
  BY <1>9 DEF TypeOK, LockFile
<1>10. CASE InitSignature(p)
  BY <1>10 DEF TypeOK, InitSignature
<1>11. CASE Stage(p)
  BY <1>11 DEF TypeOK, Stage
<1>12. CASE Apply(p)
  BY <1>12 DEF TypeOK, Apply
<1>13. CASE Untrack(p)
  BY <1>13 DEF TypeOK, Untrack
<1>14. CASE Delete(p)
  BY <1>14 DEF TypeOK, Delete
<1>15. CASE CleanFiles(p)
  <2>1. /\ pc' \in [Procs -> {"start", "time", "check", "remove", "make", "safeguard", "replace",
                       "copy", "lock", "signature", "work", "apply", "delete", "deinit", "done"}]
        /\ at' \in [Procs -> Nat]
    BY <1>15, CleanMoves DEF TypeOK, NextClean
  <2>2. faults' \in 0..FaultBudget
    BY <1>15, SessionAssumption DEF TypeOK, CleanFiles
  <2>3. items' \subseteq Items
    BY <1>15 DEF TypeOK, CleanFiles
  <2>4. UNCHANGED <<lockedBy, dir, staged, tracked, installed, clock, crashes>>
    BY <1>15 DEF CleanFiles
  <2> QED BY <2>1, <2>2, <2>3, <2>4 DEF TypeOK
<1>16. CASE CleanDir(p)
  <2>1. /\ pc' \in [Procs -> {"start", "time", "check", "remove", "make", "safeguard", "replace",
                       "copy", "lock", "signature", "work", "apply", "delete", "deinit", "done"}]
        /\ at' \in [Procs -> Nat]
    BY <1>16, CleanMoves DEF TypeOK, NextClean
  <2>2. faults' \in 0..FaultBudget
    BY <1>16, SessionAssumption DEF TypeOK, CleanDir
  <2>3. /\ dir' \in [Dirs -> Modes] /\ items' \subseteq Items
        /\ staged' \subseteq Procs /\ tracked' \subseteq Bundles
    BY <1>16, DirTypes DEF TypeOK, CleanDir
  <2>4. UNCHANGED <<lockedBy, installed, clock, crashes>>
    BY <1>16 DEF CleanDir
  <2> QED BY <2>1, <2>2, <2>3, <2>4 DEF TypeOK
<1>17. CASE Deinit(p)
  BY <1>17 DEF TypeOK, Deinit
<1> QED
  BY <1>1, <1>2, <1>3, <1>4, <1>5, <1>6, <1>7, <1>8, <1>9, <1>10, <1>11, <1>12, <1>13, <1>14,
     <1>15, <1>16, <1>17 DEF Step

\* The environment does not change.
LEMMA EnvStays == [Next]_vars => UNCHANGED env
BY DEF Next, Step, Crash, GlobalsInit, AdjustTime, CheckDir, RemoveDir, MakeDir, Safeguard,
       ReplaceTracking, CopyMark, LockFile, InitSignature, Stage, Apply, Untrack, Delete,
       CleanFiles, CleanDir, Deinit

LEMMA InitType == Init => TypeOK /\ env \in Environments
<1> SUFFICES ASSUME Init PROVE TypeOK /\ env \in Environments
  OBVIOUS
<1>1. /\ dir \in [Dirs -> Modes] /\ clock \in {"good", "late"} /\ tracked \subseteq Bundles
      /\ items \subseteq Items
      /\ faults \in 0..FaultBudget /\ crashes \in 0..CrashBudget
  BY SessionAssumption DEF Init, Modes
<1> QED BY <1>1 DEF Init, TypeOK, Modes

LEMMA NextType == TypeOK /\ env \in Environments /\ [Next]_vars => (TypeOK /\ env \in Environments)'
<1> SUFFICES ASSUME TypeOK, env \in Environments, [Next]_vars PROVE TypeOK'
  BY EnvStays
<1>1. CASE UNCHANGED vars
  BY <1>1 DEF TypeOK
<1>2. ASSUME NEW p \in Procs, Crash(p) PROVE TypeOK'
  BY <1>2, SessionAssumption DEF Crash, End, Go, TypeOK
<1> QED BY <1>1, <1>2, StepType DEF Next

\* Every variable keeps its type, whatever the commands find, do and lose.
THEOREM TypeCorrect == Spec => []TypeOK
<1> QED BY InitType, NextType, PTL DEF Spec

----------------------------------------------------------------------------
(* What the holder of the lock may rely on.                                *)

\* A step of one command leaves the control points of the others alone.
LEMMA OthersStay ==
  ASSUME TypeOK, NEW p \in Procs, Step(p) \/ Crash(p), NEW q \in Procs \ {p}
  PROVE  pc'[q] = pc[q] /\ at'[q] = at[q]
<1> USE DEF Go, End, Leave, NextDir, TypeOK
<1>1. CASE GlobalsInit(p) \/ AdjustTime(p) \/ Safeguard(p) \/ ReplaceTracking(p) \/ CopyMark(p)
  BY <1>1 DEF GlobalsInit, AdjustTime, Safeguard, ReplaceTracking, CopyMark
<1>2. CASE CheckDir(p) \/ RemoveDir(p) \/ MakeDir(p)
  BY <1>2 DEF CheckDir, RemoveDir, MakeDir
<1>3. CASE LockFile(p) \/ InitSignature(p) \/ Deinit(p) \/ Crash(p)
  BY <1>3 DEF LockFile, InitSignature, Deinit, Crash
<1>4. CASE Stage(p) \/ Apply(p) \/ Untrack(p) \/ Delete(p)
  BY <1>4 DEF Stage, Apply, Untrack, Delete
<1>5. CASE CleanFiles(p) \/ CleanDir(p)
  BY <1>5, CleanMoves DEF NextClean
<1> QED BY <1>1, <1>2, <1>3, <1>4, <1>5 DEF Step

\* In a calm environment every directory stays right and some mark stays that no
\* bundle-remove takes, so no command comes to replace anything.
CalmInv ==
  Calm =>
    /\ \A d \in Dirs : dir[d] = "right"
    /\ ~(tracked \subseteq env.removed)
    /\ \A p \in Procs : pc[p] \notin {"remove", "make", "replace", "copy"}
    /\ \A p \in Procs : pc[p] \in {"start", "time", "check"} => at[p] \in DOMAIN DirOrder

\* The list of state directories is a sequence, so it can be walked by index.
LEMMA DirOrderProperties ==
  /\ Len(DirOrder) \in Nat /\ DOMAIN DirOrder = 1 .. Len(DirOrder) /\ 1 \in DOMAIN DirOrder
  /\ \A i \in DOMAIN DirOrder : DirOrder[i] \in Dirs
<1>1. DirOrder \in Seq(STRING)
  BY SessionAssumption, ConcatProperties DEF DirOrder
<1>2. DOMAIN DirOrder # {}
  BY SessionAssumption DEF Dirs
<1> QED BY <1>1, <1>2, LenProperties DEF Dirs

\* What a step of a command does in a calm environment.
LEMMA CalmStep ==
  ASSUME TypeOK, env \in Environments, CalmInv, Calm, NEW p \in Procs, Step(p) \/ Crash(p)
  PROVE  /\ \A d \in Dirs : dir'[d] = "right"
         /\ ~(tracked' \subseteq env.removed)
         /\ pc'[p] \notin {"remove", "make", "replace", "copy"}
         /\ pc'[p] \in {"start", "time", "check"} => at'[p] \in DOMAIN DirOrder
         /\ ~Locked(p) => UNCHANGED diskVars
         /\ ~Locked(p) \/ pc'[p] # pc[p] \/ at'[p] # at[p]
<1> USE DEF Go, End, Leave, TypeOK, CalmInv, Locked
<1>1. CASE GlobalsInit(p) \/ LockFile(p)
  BY <1>1 DEF GlobalsInit, LockFile
<1>2. CASE AdjustTime(p)
  <2>1. pc'[p] \in {"check", "done"} /\ UNCHANGED <<at, diskVars>> /\ pc[p] = "time"
    BY <1>2 DEF AdjustTime
  <2> QED BY <2>1
<1>3. CASE CheckDir(p)
  <2> DEFINE d == DirOrder[at[p]]
  <2>1. d \in Dirs /\ dir[d] = "right" /\ Exists(Inside[d]) /\ at[p] \in DOMAIN DirOrder
    BY <1>3, DirOrderProperties, SessionAssumption DEF CheckDir, Exists
  <2>2. NextDir(p) /\ UNCHANGED diskVars /\ pc[p] = "check"
    BY <1>3, <2>1 DEF CheckDir
  <2>3. CASE at[p] = Len(DirOrder)
    <3>1. pc'[p] = "safeguard"
      BY <2>2, <2>3 DEF NextDir
    <3> QED BY <2>1, <2>2, <3>1
  <2>4. CASE at[p] # Len(DirOrder)
    <3>1. pc'[p] = "check" /\ at'[p] = at[p] + 1
      BY <2>2, <2>4 DEF NextDir
    <3>2. at'[p] \in DOMAIN DirOrder
      BY <2>1, <2>4, <3>1, DirOrderProperties
    <3> QED BY <2>1, <2>2, <3>1, <3>2
  <2> QED BY <2>3, <2>4
<1>4. CASE Safeguard(p)
  BY <1>4 DEF Safeguard
<1>5. CASE RemoveDir(p) \/ MakeDir(p) \/ ReplaceTracking(p) \/ CopyMark(p)
  BY <1>5 DEF RemoveDir, MakeDir, ReplaceTracking, CopyMark
<1>6. CASE InitSignature(p) \/ Stage(p) \/ Delete(p) \/ Deinit(p)
  BY <1>6 DEF InitSignature, Stage, Delete, Deinit
<1>7. CASE Apply(p)
  <2>1. ~(Bundles \subseteq env.removed)
    BY SessionAssumption DEF Calm
  <2> QED BY <1>7, <2>1 DEF Apply
<1>8. CASE Untrack(p)
  BY <1>8 DEF Untrack
<1>9. CASE CleanFiles(p) \/ CleanDir(p)
  <2>1. pc[p] = "work" /\ env.work[p] = "clean_dry"
    BY <1>9 DEF CleanFiles, CleanDir, Cleaning, Calm
  <2>2. UNCHANGED <<dir, tracked>>
    BY <1>9, <2>1 DEF CleanFiles, CleanDir
  <2>3. \/ pc'[p] = "deinit"
        \/ pc'[p] = "work" /\ at'[p] # at[p]
    <3>1. \/ \E c : Leave(p, c)
          \/ pc' = pc /\ at' = [at EXCEPT ![p] = @ + 1]
      BY <1>9, CleanMoves DEF NextClean
    <3>2. (\E c : Leave(p, c)) => pc'[p] = "deinit"
      OBVIOUS
    <3>3. at' = [at EXCEPT ![p] = @ + 1] => at'[p] # at[p]
      OBVIOUS
    <3> QED BY <2>1, <3>1, <3>2, <3>3
  <2> QED BY <2>1, <2>2, <2>3
<1>10. CASE Crash(p)
  BY <1>10 DEF Crash
<1> QED
  BY <1>1, <1>2, <1>3, <1>4, <1>5, <1>6, <1>7, <1>8, <1>9, <1>10 DEF Step

LEMMA NextCalm == TypeOK /\ env \in Environments /\ CalmInv /\ [Next]_vars => CalmInv'
<1> SUFFICES ASSUME TypeOK, env \in Environments, CalmInv, [Next]_vars, Calm'
             PROVE  CalmInv'
  BY DEF CalmInv
<1>1. Calm /\ env' = env
  BY EnvStays DEF Calm
<1>2. CASE UNCHANGED vars
  BY <1>1, <1>2 DEF CalmInv
<1>3. ASSUME NEW p \in Procs, Step(p) \/ Crash(p) PROVE CalmInv'
  <2>1. ASSUME NEW q \in Procs
        PROVE  /\ pc'[q] \notin {"remove", "make", "replace", "copy"}
               /\ pc'[q] \in {"start", "time", "check"} => at'[q] \in DOMAIN DirOrder
    <3>1. CASE q = p
      BY <1>1, <1>3, <3>1, CalmStep
    <3>2. CASE q # p
      BY <1>1, <1>3, <3>2, OthersStay DEF CalmInv
    <3> QED BY <3>1, <3>2
  <2>2. /\ \A d \in Dirs : dir'[d] = "right"
        /\ ~(tracked' \subseteq env.removed)
    BY <1>1, <1>3, CalmStep
  <2> QED BY <1>1, <2>1, <2>2 DEF CalmInv
<1> QED BY <1>2, <1>3 DEF Next

LEMMA CalmInvariant == Spec => [](TypeOK /\ env \in Environments /\ CalmInv)
<1>1. Init => CalmInv
  BY DirOrderProperties, SessionAssumption DEF Init, CalmInv, Calm
<1> QED BY <1>1, InitType, NextType, NextCalm, PTL DEF Spec

\* In an orderly system no command changes the disk under the one that holds the
\* lock: not in the checks of the directories that run before the lock is asked
\* for, not when it is killed, and not after it was refused the lock.
THEOREM HolderIsUndisturbed == Spec => HolderUndisturbed
<1>1. ASSUME TypeOK, env \in Environments, CalmInv, HolderIsLocked, [Next]_vars
      PROVE  [Calm => \A p \in Procs :
                lockedBy = p /\ pc'[p] = pc[p] /\ at'[p] = at[p] => UNCHANGED diskVars]_vars
  <2> SUFFICES ASSUME NEW q \in Procs, Step(q) \/ Crash(q), Calm,
                      NEW p \in Procs, lockedBy = p, pc'[p] = pc[p], at'[p] = at[p]
               PROVE  UNCHANGED diskVars
    BY <1>1 DEF Next
  <2>1. CASE ~Locked(q)
    BY <1>1, <2>1, CalmStep
  <2>2. CASE Locked(q)
    <3>1. q = p
      BY <1>1, <2>2 DEF HolderIsLocked
    <3> QED BY <1>1, <2>2, <3>1, CalmStep
  <2> QED BY <2>1, <2>2
<1> QED BY <1>1, CalmInvariant, HolderInvariant, PTL DEF Spec, HolderUndisturbed

----------------------------------------------------------------------------
(* What clean may take.                                                    *)

\* The calls clean makes, for each of its kinds.
FormerCalls == {Rm("files", "root", {"former_pack"}), Rm("tree", "root", {"former_state"})}
CacheCalls ==
  {Rm("files", "url", {"pack"}), Rm("files", "manifest", {"manifest_delta"}),
   Rm("manifests", "manifest", {}), Rm("tree", "cache", {"other_mirror"})}
    \union {Rm("dir", d, {}) : d \in {"delta", "download", "staged", "temp"}}
Calls(w) ==
  FormerCalls \union IF w = "clean_all" THEN {Rm("dir", "cache", {})} ELSE CacheCalls

CleanKinds == {"clean", "clean_all", "clean_dry"}

\* The list of a clean is not empty and holds no other call.
LEMMA CleanStepsType ==
  ASSUME NEW w \in CleanKinds
  PROVE  /\ Len(CleanSteps(w)) \in Nat \ {0}
         /\ DOMAIN CleanSteps(w) = 1 .. Len(CleanSteps(w))
         /\ \A i \in DOMAIN CleanSteps(w) : CleanSteps(w)[i] \in Calls(w)
<1> DEFINE S == Calls(w)
<1>1. FormerSteps \in Seq(S) /\ Len(FormerSteps) = 2
  <2>1. FormerCalls \subseteq S
    BY DEF Calls
  <2> HIDE DEF S
  <2> QED BY <2>1 DEF FormerSteps, FormerCalls
<1>2. ASSUME NEW s \in Seq(S)
      PROVE  /\ s \o FormerSteps \in Seq(S)
             /\ Len(s \o FormerSteps) \in Nat \ {0}
             /\ DOMAIN (s \o FormerSteps) = 1 .. Len(s \o FormerSteps)
             /\ \A i \in DOMAIN (s \o FormerSteps) : (s \o FormerSteps)[i] \in S
  <2> HIDE DEF S
  <2>0. s \o FormerSteps \in Seq(S) /\ Len(s \o FormerSteps) = Len(s) + Len(FormerSteps)
    BY <1>1, <1>2, ConcatProperties
  <2>1. /\ s \o FormerSteps \in Seq(S) /\ Len(s) \in Nat
        /\ Len(s \o FormerSteps) = Len(s) + 2
    BY <1>1, <1>2, <2>0, LenProperties
  <2> QED BY <2>1, LenProperties, ElementOfSeq
<1>3. CASE w = "clean_all"
  <2>1. <<Rm("dir", "cache", {})>> \in Seq(S)
    BY <1>3 DEF Calls
  <2>2. CleanSteps(w) = <<Rm("dir", "cache", {})>> \o FormerSteps
    BY <1>3 DEF CleanSteps
  <2> HIDE DEF S
  <2>3. QED BY <1>2, <2>1, <2>2 DEF S
<1>4. CASE w # "clean_all"
  <2> DEFINE a == <<Rm("files", "url", {"pack"})>>
             b == [i \in DOMAIN EmptiedDirs |-> Rm("dir", EmptiedDirs[i], {})]
             c == <<Rm("files", "manifest", {"manifest_delta"}), Rm("manifests", "manifest", {}),
                    Rm("tree", "cache", {"other_mirror"})>>
  <2>1. S = FormerCalls \union CacheCalls
    BY <1>4 DEF Calls
  <2>2. a \in Seq(S) /\ c \in Seq(S)
    <3> HIDE DEF S
    <3> QED BY <2>1 DEF CacheCalls
  <2>3. b \in Seq(S)
    <3> DEFINE T == {"delta", "download", "staged", "temp"}
    <3>1. ASSUME NEW d \in T PROVE IfMade(d) \in Seq(T)
      <4> HIDE DEF T
      <4>1. <<d>> \in Seq(T) /\ <<>> \in Seq(T)
        OBVIOUS
      <4> QED BY <4>1 DEF IfMade
    <3>2. EmptiedDirs \in Seq(T)
      <4> HIDE DEF T
      <4>1. \A s1, s2 \in Seq(T) : s1 \o s2 \in Seq(T)
        BY ConcatProperties
      <4>2. /\ IfMade("delta") \in Seq(T) /\ IfMade("download") \in Seq(T)
            /\ IfMade("staged") \in Seq(T) /\ IfMade("temp") \in Seq(T)
        BY <3>1 DEF T
      <4> QED BY <4>1, <4>2 DEF EmptiedDirs
    <3>3. Len(EmptiedDirs) \in Nat /\ DOMAIN EmptiedDirs = 1 .. Len(EmptiedDirs)
          /\ \A i \in DOMAIN EmptiedDirs : EmptiedDirs[i] \in T
      BY <3>2, LenProperties, ElementOfSeq
    <3>4. \A d \in T : Rm("dir", d, {}) \in S
      BY <2>1 DEF CacheCalls
    <3> HIDE DEF S, T
    <3>5. \A i \in 1 .. Len(EmptiedDirs) : Rm("dir", EmptiedDirs[i], {}) \in S
      BY <3>3, <3>4
    <3> QED BY <3>3, <3>5, IsASeq
  <2>4. CleanSteps(w) = (a \o b \o c) \o FormerSteps
    BY <1>4 DEF CleanSteps
  <2> HIDE DEF a, b, c, S
  <2>5. a \o b \o c \in Seq(S)
    BY <2>2, <2>3, ConcatProperties
  <2> QED BY <1>2, <2>4, <2>5 DEF S
<1> QED BY <1>3, <1>4

\* A command starts the list of clean at its first call and never leaves it.
WalkInv ==
  /\ \A p \in Procs : pc[p] \in {"safeguard", "replace", "copy", "lock", "signature"} => at[p] = 1
  /\ \A p \in Procs : Cleaning(p) => at[p] \in DOMAIN CleanSteps(env.work[p])

LEMMA StepWalk ==
  ASSUME TypeOK, WalkInv, NEW p \in Procs, Step(p) \/ Crash(p)
  PROVE  /\ pc'[p] \in {"safeguard", "replace", "copy", "lock", "signature"} => at'[p] = 1
         /\ pc'[p] = "work" /\ env.work[p] \in CleanKinds =>
              at'[p] \in DOMAIN CleanSteps(env.work[p])
<1> USE DEF Go, End, Leave, TypeOK, WalkInv
<1>1. CASE GlobalsInit(p) \/ AdjustTime(p) \/ RemoveDir(p)
  BY <1>1 DEF GlobalsInit, AdjustTime, RemoveDir
<1>2. CASE CheckDir(p)
  BY <1>2 DEF CheckDir, NextDir
<1>3. CASE MakeDir(p)
  BY <1>3 DEF MakeDir, NextDir
<1>4. CASE Safeguard(p) \/ ReplaceTracking(p) \/ CopyMark(p)
  BY <1>4 DEF Safeguard, ReplaceTracking, CopyMark
<1>5. CASE LockFile(p)
  BY <1>5 DEF LockFile
<1>6. CASE InitSignature(p)
  <2>1. at'[p] = 1 /\ pc'[p] \in {"work", "done"}
    BY <1>6 DEF InitSignature
  <2>2. env.work[p] \in CleanKinds => 1 \in DOMAIN CleanSteps(env.work[p])
    BY CleanStepsType
  <2> QED BY <2>1, <2>2
<1>7. CASE Stage(p) \/ Apply(p) \/ Untrack(p) \/ Delete(p) \/ Deinit(p) \/ Crash(p)
  BY <1>7 DEF Stage, Apply, Untrack, Delete, Deinit, Crash
<1>8. CASE CleanFiles(p) \/ CleanDir(p)
  <2> DEFINE n == Len(CleanSteps(env.work[p]))
  <2>1. /\ pc[p] = "work" /\ n \in Nat /\ DOMAIN CleanSteps(env.work[p]) = 1 .. n
        /\ at[p] \in 1 .. n
    BY <1>8, CleanMoves, CleanStepsType DEF Cleaning, CleanKinds
  <2>2. \/ \E c : Leave(p, c)
        \/ pc' = pc /\ at' = [at EXCEPT ![p] = @ + 1] /\ at[p] # n
    BY <1>8, CleanMoves DEF NextClean
  <2> HIDE DEF n
  <2>3. CASE \E c : Leave(p, c)
    BY <2>3
  <2>4. CASE pc' = pc /\ at' = [at EXCEPT ![p] = @ + 1] /\ at[p] # n
    <3>1. at'[p] = at[p] + 1 /\ pc'[p] = "work"
      BY <2>1, <2>4
    <3>2. at'[p] \in 1 .. n
      BY <2>1, <2>4, <3>1
    <3> QED BY <2>1, <3>1, <3>2
  <2> QED BY <2>2, <2>3, <2>4
<1> QED BY <1>1, <1>2, <1>3, <1>4, <1>5, <1>6, <1>7, <1>8 DEF Step

LEMMA NextWalk == TypeOK /\ WalkInv /\ [Next]_vars => WalkInv'
<1> SUFFICES ASSUME TypeOK, WalkInv, [Next]_vars PROVE WalkInv'
  OBVIOUS
<1>1. env' = env
  BY EnvStays
<1>2. CASE UNCHANGED vars
  BY <1>1, <1>2 DEF WalkInv, Cleaning
<1>3. ASSUME NEW p \in Procs, Step(p) \/ Crash(p), NEW q \in Procs
      PROVE  /\ pc'[q] \in {"safeguard", "replace", "copy", "lock", "signature"} => at'[q] = 1
             /\ Cleaning(q)' => at'[q] \in DOMAIN CleanSteps(env.work[q])
  <2>1. CASE q = p
    BY <1>1, <1>3, <2>1, StepWalk DEF Cleaning, CleanKinds
  <2>2. CASE q # p
    BY <1>1, <1>3, <2>2, OthersStay DEF Cleaning, WalkInv
  <2> QED BY <2>1, <2>2
<1>4. ASSUME NEW p \in Procs, Step(p) \/ Crash(p) PROVE WalkInv'
  <2>1. \A w : CleanSteps(w)' = CleanSteps(w)
    BY DEF CleanSteps, Rm, FormerSteps, EmptiedDirs, IfMade, Dirs, DirOrder
  <2> QED BY <1>1, <1>3, <1>4, <2>1 DEF WalkInv
<1> QED BY <1>2, <1>4 DEF Next

LEMMA WalkInvariant == Spec => []WalkInv
<1>1. Init => WalkInv
  BY DEF Init, WalkInv, Cleaning
<1> QED BY <1>1, CalmInvariant, NextWalk, PTL DEF Spec

\* Removing an emptied directory takes nothing else, removing the cache directory
\* takes neither the tracking directory nor the data of 3rd-party repositories.
LEMMA CleanedTrees ==
  /\ \A d \in {"delta", "download", "staged", "temp"} : Tree(d) = {d}
  /\ "bundles" \notin Tree("cache") /\ "3rd-party" \notin Tree("cache")
<1>1. \A e \in Dirs : Inside[e] \in (Dirs \intersect {"cache", "url"}) \union {"root"}
  BY SessionAssumption
<1>2. \A d \in {"delta", "download", "staged", "temp"} : Tree(d) = {d}
  BY <1>1 DEF Tree
<1>3. "bundles" \notin Tree("cache") /\ "3rd-party" \notin Tree("cache")
  BY SessionAssumption DEF Tree
<1> QED BY <1>2, <1>3

\* One call of clean.
LEMMA CleanTakes ==
  ASSUME TypeOK, WalkInv, NEW p \in Procs, CleanFiles(p) \/ CleanDir(p)
  PROVE  /\ UNCHANGED <<tracked, installed>>
         /\ "repo_data" \in items => "repo_data" \in items'
         /\ env.work[p] = "clean" /\ env.version_known /\ "current_mom" \in items =>
              items \ items' \subseteq Items \ {"current_mom", "current_manifest"}
         /\ env.work[p] = "clean_dry" => items \ items' \subseteq {"empty_version"}
                                         /\ staged' = staged
<1> DEFINE w == env.work[p]
           step == CleanSteps(w)[at[p]]
<1>1. w \in CleanKinds /\ step \in Calls(w)
  <2>1. w \in CleanKinds /\ at[p] \in DOMAIN CleanSteps(w)
    BY CleanMoves DEF Cleaning, CleanKinds, WalkInv
  <2> QED BY <2>1, CleanStepsType
<1> HIDE DEF w, step
<1>2. CASE CleanFiles(p)
  <2>1. /\ UNCHANGED <<tracked, installed, staged>>
        /\ step.kind \in {"files", "manifests"}
        /\ items \ items' \subseteq StepTargets(step) \union {"empty_version"}
        /\ w = "clean_dry" => items \ items' \subseteq {"empty_version"}
    BY <1>2 DEF CleanFiles, w, step
  <2>2. \/ step.kind = "manifests"
        \/ step.kind = "files" /\ step.what \in {{"pack"}, {"manifest_delta"}, {"former_pack"}}
    BY <1>1, <2>1 DEF Calls, FormerCalls, CacheCalls, Rm
  <2>3. "repo_data" \notin StepTargets(step)
    BY <2>2 DEF StepTargets, StaleManifests
  <2>4. env.version_known /\ "current_mom" \in items =>
          StepTargets(step) \intersect {"current_mom", "current_manifest"} = {}
    BY <2>2 DEF StepTargets, StaleManifests
  <2>5. items \subseteq Items
    BY DEF TypeOK
  <2> QED BY <2>1, <2>3, <2>4, <2>5 DEF w
<1>3. CASE CleanDir(p)
  <2>1. /\ installed' = installed
        /\ step.kind \in {"dir", "tree"}
        /\ \/ UNCHANGED <<items, tracked, staged>>
           \/ /\ step.kind = "dir" /\ RmRecursive(step.in) /\ w # "clean_dry"
           \/ /\ step.kind = "tree" /\ items' = items \ step.what /\ w # "clean_dry"
              /\ UNCHANGED <<tracked, staged>>
    BY <1>3 DEF CleanDir, w, step
  <2>2. CASE UNCHANGED <<items, tracked, staged>>
    BY <2>1, <2>2
  <2>3. CASE /\ step.kind = "tree" /\ items' = items \ step.what /\ w # "clean_dry"
             /\ UNCHANGED <<tracked, staged>>
    <3>1. step.what \in {{"former_state"}, {"other_mirror"}}
      BY <1>1, <2>3 DEF Calls, FormerCalls, CacheCalls, Rm
    <3>2. items \subseteq Items
      BY DEF TypeOK
    <3> QED BY <2>1, <2>3, <3>1, <3>2 DEF w
  <2>4. CASE step.kind = "dir" /\ RmRecursive(step.in) /\ w # "clean_dry"
    <3>1. \/ step.in \in {"delta", "download", "staged", "temp"}
          \/ step.in = "cache" /\ w = "clean_all"
      BY <1>1, <2>4 DEF Calls, FormerCalls, CacheCalls, Rm
    <3>2. /\ "bundles" \notin Tree(step.in) /\ "3rd-party" \notin Tree(step.in)
          /\ w = "clean" => "manifest" \notin Tree(step.in)
      BY <3>1, CleanedTrees
    <3>3. /\ Home["repo_data"] = "3rd-party"
          /\ Home["current_mom"] = "manifest" /\ Home["current_manifest"] = "manifest"
      BY DEF Home
    <3>4. items \subseteq Items
      BY DEF TypeOK
    <3> QED BY <2>1, <2>4, <3>2, <3>3, <3>4 DEF RmRecursive, w
  <2> QED BY <2>1, <2>2, <2>3, <2>4
<1> QED BY <1>2, <1>3

\* clean takes only what can be downloaded again: no mark of a bundle, no data of
\* a 3rd-party repository, not the manifests of the installed version without
\* --all as long as its Manifest.MoM is cached; and a dry run takes no file,
\* whatever else runs or fails meanwhile.
THEOREM CleanIsSafe == Spec => CleanTakesOnlyCache
<1>1. ASSUME TypeOK, WalkInv, [Next]_vars
      PROVE  [\A p \in Procs : Cleaning(p) /\ (pc'[p] # pc[p] \/ at'[p] # at[p]) =>
                /\ tracked' = tracked /\ installed' = installed
                /\ items \ items' \subseteq Items \ {"repo_data"}
                /\ env.work[p] = "clean" /\ env.version_known /\ "current_mom" \in items =>
                     items \ items' \subseteq Items \ {"current_mom", "current_manifest"}
                /\ env.work[p] = "clean_dry" => items \ items' \subseteq {"empty_version"}
                                              /\ staged' = staged]_vars
  <2> SUFFICES ASSUME NEW q \in Procs, Step(q) \/ Crash(q),
                      NEW p \in Procs, Cleaning(p), pc'[p] # pc[p] \/ at'[p] # at[p]
               PROVE  /\ tracked' = tracked /\ installed' = installed
                      /\ items \ items' \subseteq Items \ {"repo_data"}
                      /\ env.work[p] = "clean" /\ env.version_known /\ "current_mom" \in items =>
                           items \ items' \subseteq Items \ {"current_mom", "current_manifest"}
                      /\ env.work[p] = "clean_dry" => items \ items' \subseteq {"empty_version"}
                                                    /\ staged' = staged
    BY <1>1 DEF Next
  <2>1. q = p
    BY <1>1, OthersStay
  <2>2. items \subseteq Items
    BY <1>1 DEF TypeOK
  <2>3. CleanFiles(p) \/ CleanDir(p) \/ Crash(p)
    BY <2>1 DEF Step, Cleaning, GlobalsInit, AdjustTime, CheckDir, RemoveDir, MakeDir, Safeguard,
                ReplaceTracking, CopyMark, LockFile, InitSignature, Stage, Apply, Untrack, Delete,
                Deinit
  <2>4. CASE CleanFiles(p) \/ CleanDir(p)
    BY <1>1, <2>2, <2>4, CleanTakes
  <2>5. CASE Crash(p)
    BY <2>5 DEF Crash
  <2> QED BY <2>3, <2>4, <2>5
<1> QED BY <1>1, CalmInvariant, WalkInvariant, PTL DEF Spec, CleanTakesOnlyCache
=============================================================================
